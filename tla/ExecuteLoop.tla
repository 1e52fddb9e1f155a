---------------------------- MODULE ExecuteLoop -----------------------------
(***************************************************************************)
(* The execute stage between two clock edges.  Its wires form a loop: the  *)
(* controller picks the ALU operation, the ALU computes a result, and the  *)
(* controller looks at the result to decide a branch (cpu.sv:97-148).  A   *)
(* simulator evaluates one block at a time, in any order, from whatever    *)
(* the other wires still carry from the instruction before.                *)
(*                                                                         *)
(* Cpu.tla takes the wires as functions of the slot.  This module is why   *)
(* it may: from any left-over values they settle, and on those functions.  *)
(***************************************************************************)
EXTENDS Controller

CONSTANTS
    Alu(_, _, _),
    Slots               \* what a clock edge can bring: instruction, stall flag, operands

(* The pipeline registers hold known values, and of known operands the ALU *)
(* computes a known result.                                                *)
ASSUME SlotAssumption ==
    /\ X \notin Int
    /\ \A s \in Slots :
          /\ s.stall_EX \in {0, 1}
          /\ {s.i.imm12, s.readdata1, s.readdata2} \subseteq Int
          /\ \A op \in AluOp : {Alu(op, s.readdata1, s.i.imm12),
                               Alu(op, s.readdata1, s.readdata2)} \subseteq Int

VARIABLES
    slot,               \* [i, stall_EX, readdata1, readdata2]
    controls,           \* the controller's output wires
    B_EX,               \* mux2's output
    R_EX,               \* the ALU's outputs
    zero_EX

vars == <<slot, controls, B_EX, R_EX, zero_EX>>

-----------------------------------------------------------------------------
(* What each block would drive, given the wires it reads.  An unspecified  *)
(* input makes unspecified what depends on it.                             *)

(* The conditions of the table's ternary operators, when they are unknown, *)
(* leave the bits in which the two rows differ unknown.                    *)
Undecided ==
    /\ slot.stall_EX = 0
    /\ slot.i.opcode = Branch
    /\ \/ slot.i.funct3 \in {0, 1} /\ zero_EX = X
       \/ slot.i.funct3 \in {4, 5, 6, 7} /\ R_EX = X

ControllerDrives ==
    LET row == Controls(slot.i, slot.stall_EX, R_EX, zero_EX)
    IN IF Undecided THEN [row EXCEPT !.pc_src = X, !.stall = X] ELSE row

MuxDrivesSwapped ==                 \* mutant: the inputs of mux2 exchanged
    IF controls.alusrc = X THEN X
    ELSE IF controls.alusrc = 1 THEN slot.readdata2 ELSE slot.i.imm12

MuxDrives ==
    IF controls.alusrc = X THEN X
    ELSE IF controls.alusrc = 1 THEN slot.i.imm12 ELSE slot.readdata2

AluDrives ==
    IF X \in {controls.aluop, B_EX} THEN X
    ELSE Alu(controls.aluop, slot.readdata1, B_EX)

ZeroDrives == IF R_EX = X THEN X ELSE IF R_EX = 0 THEN 1 ELSE 0

Settled ==
    /\ controls = ControllerDrives
    /\ B_EX = MuxDrives
    /\ R_EX = AluDrives
    /\ zero_EX = ZeroDrives

-----------------------------------------------------------------------------
(* Power-up: nothing has been evaluated. *)
Init ==
    /\ slot \in Slots
    /\ controls = Row(X, X, X, X, X, X, X)
    /\ B_EX = X
    /\ R_EX = X
    /\ zero_EX = X

EvaluateController ==
    /\ controls' = ControllerDrives
    /\ UNCHANGED <<slot, B_EX, R_EX, zero_EX>>

EvaluateMux ==
    /\ B_EX' = MuxDrives
    /\ UNCHANGED <<slot, controls, R_EX, zero_EX>>

EvaluateAlu ==
    /\ R_EX' = AluDrives
    /\ UNCHANGED <<slot, controls, B_EX, zero_EX>>

EvaluateZero ==
    /\ zero_EX' = ZeroDrives
    /\ UNCHANGED <<slot, controls, B_EX, R_EX>>

(* The clock is slow enough for the wires to settle, if they do. *)
ClockEdge ==
    /\ Settled
    /\ slot' \in Slots
    /\ UNCHANGED <<controls, B_EX, R_EX, zero_EX>>

Next ==
    \/ EvaluateController
    \/ EvaluateMux
    \/ EvaluateAlu
    \/ EvaluateZero
    \/ ClockEdge

(* A block with a changed input is evaluated sooner or later. *)
Fairness ==
    /\ WF_vars(EvaluateController)
    /\ WF_vars(EvaluateMux)
    /\ WF_vars(EvaluateAlu)
    /\ WF_vars(EvaluateZero)

Spec == Init /\ [][Next]_vars /\ Fairness

-----------------------------------------------------------------------------
(* What Cpu.tla takes the wires to be: the controls for the result of the  *)
(* operation the slot asks for.                                            *)
Operation == Controls(slot.i, slot.stall_EX, 0, 0)

Result ==
    IF Operation.aluop = X THEN X
    ELSE Alu(Operation.aluop, slot.readdata1,
             IF Operation.alusrc = 1 THEN slot.i.imm12 ELSE slot.readdata2)

(* The loop comes to rest in every slot, in whatever order the blocks are  *)
(* evaluated: no slot makes branch decision and operation chase each other.*)
Settles == []<>Settled

(* It rests only where the pipeline model says, whatever was on the wires  *)
(* before: the solution is unique, so a branch depends on its operands     *)
(* alone, and no unknown value is left in what steers the PC.              *)
RestsOnSolution ==
    Settled =>
        /\ R_EX = Result
        /\ controls = Controls(slot.i, slot.stall_EX, Result,
                               IF Result = 0 THEN 1 ELSE 0)
        /\ X \notin {controls.pc_src, controls.stall, controls.regwrite}

(* Once the controller has seen the slot, evaluating it again, after every *)
(* change of the result, leaves the ALU's operation and operand alone.     *)
OperationStands ==
    [][slot' = slot /\ controls.aluop = Operation.aluop /\ controls.alusrc = Operation.alusrc
          => /\ controls'.aluop = Operation.aluop
             /\ controls'.alusrc = Operation.alusrc]_vars
=============================================================================
