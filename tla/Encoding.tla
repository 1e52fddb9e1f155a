------------------------------ MODULE Encoding ------------------------------
(***************************************************************************)
(* The vocabulary of the instruction set: opcodes, ALU operations, and the *)
(* funct7/funct3 pairs the control unit recognises (controller.sv).  Used  *)
(* by the control unit and by the abstract machine alike.                  *)
(***************************************************************************)
EXTENDS Integers

(* Major opcodes, instruction bits 6..0. *)
OpImm   == 19           \* 0010011
Op      == 51           \* 0110011
Lui     == 55           \* 0110111
Branch  == 99           \* 1100011
Jalr    == 103          \* 1100111
Jal     == 111          \* 1101111
System  == 115          \* 1110011, csrrw

HexCsr  == 3842         \* 0xf02, io2: the only CSR the table looks for

(* The operations of the ALU (alu.sv). *)
AND   == 0
OR    == 1
XOR   == 2
ADD   == 3
SUB   == 4
MUL   == 5
MULH  == 6
MULHU == 7
SLL   == 8
SRL   == 9
SRA   == 10
SLT   == 12
SLTU  == 13
AluOp == 0 .. 15

-----------------------------------------------------------------------------
(* Register-register instructions, by funct7 and funct3. *)
RType ==
    { [funct7 |-> {0} , funct3 |-> 0, aluop |-> ADD],
      [funct7 |-> {32}, funct3 |-> 0, aluop |-> SUB],
      [funct7 |-> {0} , funct3 |-> 7, aluop |-> AND],
      [funct7 |-> {0} , funct3 |-> 6, aluop |-> OR],
      [funct7 |-> {0} , funct3 |-> 4, aluop |-> XOR],
      [funct7 |-> {0} , funct3 |-> 1, aluop |-> SLL],
      [funct7 |-> {32}, funct3 |-> 5, aluop |-> SRA],
      [funct7 |-> {0} , funct3 |-> 5, aluop |-> SRL],
      [funct7 |-> {0} , funct3 |-> 2, aluop |-> SLT],
      [funct7 |-> {0} , funct3 |-> 3, aluop |-> SLTU],
      [funct7 |-> {1} , funct3 |-> 0, aluop |-> MUL],
      [funct7 |-> {1} , funct3 |-> 1, aluop |-> MULH],
      [funct7 |-> {1} , funct3 |-> 3, aluop |-> MULHU] }

(* Register-immediate instructions.  Only the shifts look at funct7; for   *)
(* the others those seven bits belong to the immediate.                    *)
IType ==
    { [funct7 |-> 0 .. 127, funct3 |-> 0, aluop |-> ADD],
      [funct7 |-> 0 .. 127, funct3 |-> 7, aluop |-> AND],
      [funct7 |-> 0 .. 127, funct3 |-> 6, aluop |-> OR],
      [funct7 |-> 0 .. 127, funct3 |-> 4, aluop |-> XOR],
      [funct7 |-> {0}     , funct3 |-> 1, aluop |-> SLL],
      [funct7 |-> {32}    , funct3 |-> 5, aluop |-> SRA],
      [funct7 |-> {0}     , funct3 |-> 5, aluop |-> SRL] }

(* The entries of a table that match instruction i: none or one. *)
Matching(table, i) ==
    {e \in table : i.funct7 \in e.funct7 /\ i.funct3 = e.funct3}

(* The funct3 codes of the six branches. *)
IsBranch(funct3) == funct3 \in {0, 1, 4, 5, 6, 7}
=============================================================================
