--------------------------- MODULE MCExecuteLoop ----------------------------
(* Two-bit words; one instruction of each kind, with every pair of register*)
(* operands, following each other in every order.                          *)
EXTENDS ExecuteLoop

Arith == INSTANCE Alu WITH Width <- 2, ShiftBits <- 1

MCAlu(op, a, b) == Arith!R(op, a, b)
MCWord == 0 .. 3

Instructions ==
    { [opcode |-> o, funct3 |-> f, funct7 |-> 0, csr |-> 0, imm12 |-> 3] :
          o \in {OpImm, Op}, f \in {0, 2} }
      \cup
    { [opcode |-> Branch, funct3 |-> f, funct7 |-> 0, csr |-> 0, imm12 |-> 3] : f \in 0 .. 7 }
      \cup
    { [opcode |-> Jal, funct3 |-> 0, funct7 |-> 0, csr |-> 0, imm12 |-> 3] }

MCSlots ==
    [i : Instructions, stall_EX : {0}, readdata1 : MCWord, readdata2 : {1, 3}]
      \cup
    [i : {m \in Instructions : m.opcode = Branch /\ m.funct3 = 0}, stall_EX : {1},
     readdata1 : {1}, readdata2 : {1, 3}]
=============================================================================
