------------------------------ MODULE Opcodes -------------------------------
(***************************************************************************)
(* The opcode decoder of the disassembler (decode_inst_opcode of           *)
(* lab_jb/support/riscv-disas.c): from an instruction word to the name of  *)
(* an operation, as a tree of tables.                                      *)
(*                                                                         *)
(* An operation is the string of its enumeration constant without the      *)
(* prefix rv_op_.                                                          *)
(***************************************************************************)
EXTENDS Words, Sequences

rv_isa == {"rv32", "rv64", "rv128"}

(* A switch whose cases are 0, 1, 2, ...; without a case for the value, op *)
(* keeps its first value.                                                  *)
At(table, n) == IF n < Len(table) THEN table[n + 1] ELSE "illegal"
When(condition, op) == IF condition THEN op ELSE "illegal"

funct3(w) == Field(w, 14, 12)
funct7(w) == Field(w, 31, 25)
shamt_topShort(w) == Field(w, 31, 28)   \* mutant: bit 27 is not looked at
shamt_top(w) == Field(w, 31, 27)
rs2_field(w) == Field(w, 24, 20)

-----------------------------------------------------------------------------
(* Compressed instructions: quadrants 0, 1 and 2.                          *)
Quadrant0(isa, w) ==
    At(<<"c_addi4spn", IF isa = "rv128" THEN "c_lq" ELSE "c_fld", "c_lw",
         IF isa = "rv32" THEN "c_flw" ELSE "c_ld", "illegal",
         IF isa = "rv128" THEN "c_sq" ELSE "c_fsd", "c_sw",
         IF isa = "rv32" THEN "c_fsw" ELSE "c_sd">>, Field(w, 15, 13))

Arithmetic1(w) ==
    IF Field(w, 11, 10) < 3
      THEN At(<<"c_srli", "c_srai", "c_andi">>, Field(w, 11, 10))
      ELSE At(<<"c_sub", "c_xor", "c_or", "c_and", "c_subw", "c_addw">>,
              4 * Field(w, 12, 12) + Field(w, 6, 5))

Quadrant1(isa, w) ==
    At(<<IF Field(w, 12, 2) = 0 THEN "c_nop" ELSE "c_addi",
         IF isa = "rv32" THEN "c_jal" ELSE "c_addiw", "c_li",
         IF Field(w, 11, 7) = 2 THEN "c_addi16sp" ELSE "c_lui",
         Arithmetic1(w), "c_j", "c_beqz", "c_bnez">>, Field(w, 15, 13))

Register2(w) ==
    IF Field(w, 12, 12) = 0
      THEN IF Field(w, 6, 2) = 0 THEN "c_jr" ELSE "c_mv"
    ELSE IF Field(w, 6, 2) # 0  THEN "c_add"
    ELSE IF Field(w, 11, 7) = 0 THEN "c_ebreak" ELSE "c_jalr"

Quadrant2IgnoresIsa(isa, w) ==      \* mutant: the 64-bit stack accesses on rv32
    At(<<"c_slli", IF isa = "rv128" THEN "c_lqsp" ELSE "c_fldsp", "c_lwsp",
         "c_ldsp", Register2(w),
         IF isa = "rv128" THEN "c_sqsp" ELSE "c_fsdsp", "c_swsp",
         "c_sdsp">>, Field(w, 15, 13))

Quadrant2(isa, w) ==
    At(<<"c_slli", IF isa = "rv128" THEN "c_lqsp" ELSE "c_fldsp", "c_lwsp",
         IF isa = "rv32" THEN "c_flwsp" ELSE "c_ldsp", Register2(w),
         IF isa = "rv128" THEN "c_sqsp" ELSE "c_fsdsp", "c_swsp",
         IF isa = "rv32" THEN "c_fswsp" ELSE "c_sdsp">>, Field(w, 15, 13))

-----------------------------------------------------------------------------
(* 32-bit instructions: quadrant 3, by the major opcode (bits 6..2).       *)
Load(w) == At(<<"lb", "lh", "lw", "ld", "lbu", "lhu", "lwu", "ldu">>, funct3(w))
LoadFp(w) == At(<<"illegal", "illegal", "flw", "fld", "flq">>, funct3(w))
MiscMem(w) == At(<<"fence", "fence_i", "lq">>, funct3(w))
Store(w) == At(<<"sb", "sh", "sw", "sd", "sq">>, funct3(w))
StoreFp(w) == At(<<"illegal", "illegal", "fsw", "fsd", "fsq">>, funct3(w))

ShiftRight(logical, arithmetic, top, mark) ==
    CASE top = 0    -> logical
      [] top = mark -> arithmetic
      [] OTHER      -> "illegal"

(* Shifts by a constant: the bits above the longest shift amount must name *)
(* the shift, so slli and srli leave seven bits for the amount.            *)
OpImmediate(w) ==
    At(<<"addi", When(shamt_top(w) = 0, "slli"), "slti", "sltiu", "xori",
         ShiftRight("srli", "srai", shamt_top(w), 8), "ori", "andi">>, funct3(w))

OpImmediate32(w) ==
    CASE funct3(w) = 0 -> "addiw"
      [] funct3(w) = 1 -> When(funct7(w) = 0, "slliw")
      [] funct3(w) = 5 -> ShiftRight("srliw", "sraiw", funct7(w), 32)
      [] OTHER         -> "illegal"

OpImmediate64(w) ==
    CASE funct3(w) = 0 -> "addid"
      [] funct3(w) = 1 -> When(Field(w, 31, 26) = 0, "sllid")
      [] funct3(w) = 5 -> ShiftRight("srlid", "sraid", Field(w, 31, 26), 16)
      [] OTHER         -> "illegal"

AmoOp(n) ==
    CASE n < 4  -> <<"amoadd_", "amoswap_", "lr_", "sc_">>[n + 1]
      [] n = 4  -> "amoxor_"
      [] n = 8  -> "amoor_"
      [] n = 12 -> "amoand_"
      [] n = 16 -> "amomin_"
      [] n = 20 -> "amomax_"
      [] n = 24 -> "amominu_"
      [] n = 28 -> "amomaxu_"
      [] OTHER  -> "illegal"

Amo(w) ==
    LET name == AmoOp(shamt_top(w))
    IN  IF \/ name = "illegal" \/ funct3(w) \notin 2 .. 4
           \/ shamt_top(w) = 2 /\ rs2_field(w) # 0
          THEN "illegal"
          ELSE name \o <<"w", "d", "q">>[funct3(w) - 1]

(* The case labels of the register-register switches: funct7, then funct3. *)
funct10(w) == 8 * funct7(w) + funct3(w)

OpRegisterMulhSwapped(w) ==         \* mutant: mulh and mulhu change places
    CASE funct7(w) < 2    -> <<"add", "sll", "slt", "sltu", "xor", "srl", "or", "and",
                               "mul", "mulhu", "mulhsu", "mulh", "div", "divu", "rem",
                               "remu">>[funct10(w) + 1]
      [] funct10(w) = 256 -> "sub"
      [] funct10(w) = 261 -> "sra"
      [] OTHER            -> "illegal"

OpRegister(w) ==
    CASE funct7(w) < 2    -> <<"add", "sll", "slt", "sltu", "xor", "srl", "or", "and",
                               "mul", "mulh", "mulhsu", "mulhu", "div", "divu", "rem",
                               "remu">>[funct10(w) + 1]
      [] funct10(w) = 256 -> "sub"
      [] funct10(w) = 261 -> "sra"
      [] OTHER            -> "illegal"

(* The operations of a wider machine on 32 and on 64 bits. *)
Words32 == <<"addw", "sllw", "srlw", "mulw", "divw", "divuw", "remw", "remuw", "subw", "sraw">>
Words64 == <<"addd", "slld", "srld", "muld", "divd", "divud", "remd", "remud", "subd", "srad">>

OpRegisterWide(w, names) ==
    LET n == funct10(w)
    IN  CASE n = 0   -> names[1]
          [] n = 1   -> names[2]
          [] n = 5   -> names[3]
          [] n = 8   -> names[4]
          [] n \in 12 .. 15 -> names[n - 7]
          [] n = 256 -> names[9]
          [] n = 261 -> names[10]
          [] OTHER   -> "illegal"

(* Floating point: the two low bits of funct7 are the format.              *)
FormatSuffix(w) == <<"s", "d", "illegal", "q">>[Field(w, 26, 25) + 1]

FusedMultiply(w, name) ==
    When(FormatSuffix(w) # "illegal", name \o FormatSuffix(w))

BetweenFormats(fp, n) ==            \* 32..35
    CASE fp = "s" -> At(<<"illegal", "fcvt_s_d", "illegal", "fcvt_s_q">>, n)
      [] fp = "d" -> At(<<"fcvt_d_s", "illegal", "illegal", "fcvt_d_q">>, n)
      [] fp = "q" -> At(<<"fcvt_q_s", "fcvt_q_d">>, n)

OpFp(w) ==
    LET fp == FormatSuffix(w)
        format == Field(w, 26, 25)
        group == Field(w, 31, 27)
        f3 == funct3(w)
        rs2 == rs2_field(w)
    IN  IF fp = "illegal" THEN "illegal" ELSE
        CASE group < 4   -> <<"fadd_", "fsub_", "fmul_", "fdiv_">>[group + 1] \o fp
          [] group = 4 /\ f3 < 3  -> <<"fsgnj_", "fsgnjn_", "fsgnjx_">>[f3 + 1] \o fp
          [] group = 5 /\ f3 < 2  -> <<"fmin_", "fmax_">>[f3 + 1] \o fp
          [] group = 8             -> BetweenFormats(fp, rs2)
          [] group = 11 /\ rs2 = 0 -> "fsqrt_" \o fp
          [] group = 20 /\ f3 < 3  -> <<"fle_", "flt_", "feq_">>[f3 + 1] \o fp
          [] group = 24 /\ rs2 < 4 ->
                <<"fcvt_w_", "fcvt_wu_", "fcvt_l_", "fcvt_lu_">>[rs2 + 1] \o fp
          [] group = 26 /\ rs2 < 4 ->
                <<"fcvt_s_", "fcvt_d_", "illegal", "fcvt_q_">>[format + 1]
                    \o <<"w", "wu", "l", "lu">>[rs2 + 1]
          [] group = 28 /\ rs2 = 0 /\ f3 < 2 -> <<"fmv_x_", "fclass_">>[f3 + 1] \o fp
          [] group = 30 /\ rs2 = 0 /\ f3 = 0 ->
                <<"fmv_s_x", "fmv_d_x", "illegal", "fmv_q_x">>[format + 1]
          [] OTHER       -> "illegal"

BranchOpSigned(w) ==                \* mutant: the unsigned branches are forgotten
    At(<<"beq", "bne", "illegal", "illegal", "blt", "bge">>, funct3(w))

BranchOp(w) ==
    At(<<"beq", "bne", "illegal", "illegal", "blt", "bge", "bltu", "bgeu">>, funct3(w))

(* System instructions without a CSR: funct7 and a zero rd choose the row, *)
(* then rs2 and rs1 the operation.                                         *)
Privileged(w) ==
    LET rs2 == rs2_field(w)
        rs1 == Field(w, 19, 15)
    IN  IF Field(w, 11, 7) # 0 THEN "illegal" ELSE
        CASE funct7(w) = 0  -> When(rs1 = 0, At(<<"ecall", "ebreak", "uret">>, rs2))
          [] funct7(w) = 8  -> (CASE rs2 = 4 -> "sfence_vm"
                                  [] rs2 = 2 /\ rs1 = 0 -> "sret"
                                  [] rs2 = 5 /\ rs1 = 0 -> "wfi"
                                  [] OTHER -> "illegal")
          [] funct7(w) = 9  -> "sfence_vma"
          [] funct7(w) = 16 -> When(rs2 = 2 /\ rs1 = 0, "hret")
          [] funct7(w) = 24 -> When(rs2 = 2 /\ rs1 = 0, "mret")
          [] funct7(w) = 61 -> When(rs2 = 18 /\ rs1 = 0, "dret")
          [] OTHER          -> "illegal"

SystemOp(w) ==
    At(<<Privileged(w), "csrrw", "csrrs", "csrrc", "illegal",
         "csrrwi", "csrrsi", "csrrci">>, funct3(w))

Quadrant3(w) ==
    LET major == Field(w, 6, 2)
    IN  CASE major = 0  -> Load(w)
          [] major = 1  -> LoadFp(w)
          [] major = 3  -> MiscMem(w)
          [] major = 4  -> OpImmediate(w)
          [] major = 5  -> "auipc"
          [] major = 6  -> OpImmediate32(w)
          [] major = 8  -> Store(w)
          [] major = 9  -> StoreFp(w)
          [] major = 11 -> Amo(w)
          [] major = 12 -> OpRegister(w)
          [] major = 13 -> "lui"
          [] major = 14 -> OpRegisterWide(w, Words32)
          [] major = 16 -> FusedMultiply(w, "fmadd_")
          [] major = 17 -> FusedMultiply(w, "fmsub_")
          [] major = 18 -> FusedMultiply(w, "fnmsub_")
          [] major = 19 -> FusedMultiply(w, "fnmadd_")
          [] major = 20 -> OpFp(w)
          [] major = 22 -> OpImmediate64(w)
          [] major = 24 -> BranchOp(w)
          [] major = 25 -> When(funct3(w) = 0, "jalr")
          [] major = 27 -> "jal"
          [] major = 28 -> SystemOp(w)
          [] major = 30 -> OpRegisterWide(w, Words64)
          [] OTHER      -> "illegal"

decode_inst_opcode(isa, w) ==
    CASE Field(w, 1, 0) = 0 -> Quadrant0(isa, w)
      [] Field(w, 1, 0) = 1 -> Quadrant1(isa, w)
      [] Field(w, 1, 0) = 2 -> Quadrant2(isa, w)
      [] Field(w, 1, 0) = 3 -> Quadrant3(w)
=============================================================================
