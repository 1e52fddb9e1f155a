----------------------------- MODULE OpcodeData -----------------------------
(***************************************************************************)
(* The table the disassembler keeps about every operation: how its         *)
(* operands are encoded, how it is written, the pseudo-instructions it may *)
(* be shown as, and what a compressed instruction expands to               *)
(* (lab_jb/support/riscv-disas.c:76-647).                                  *)
(***************************************************************************)
EXTENDS Sequences

Row(codec, format, ops) == [codec |-> codec, format |-> format, ops |-> ops]

(* A family of operations that differ in the suffix only. *)
Each(names, suffixes) == {name \o suffix : name \in names, suffix \in suffixes}
FP == {"s", "d", "q"}

-----------------------------------------------------------------------------
IntegerRows ==
    { Row("illegal", "none", {"illegal"}),
      Row("u", "rd_imm", {"lui"}),
      Row("u", "rd_offset", {"auipc"}),
      Row("uj", "rd_offset", {"jal"}),
      Row("i", "rd_rs1_offset", {"jalr"}),
      Row("sb", "rs1_rs2_offset", {"beq", "bne", "blt", "bge", "bltu", "bgeu"}),
      Row("i", "rd_offset_rs1",
          {"lb", "lh", "lw", "lbu", "lhu", "lwu", "ld", "ldu", "lq"}),
      Row("s", "rs2_offset_rs1", {"sb", "sh", "sw", "sd", "sq"}),
      Row("i", "rd_rs1_imm",
          {"addi", "slti", "sltiu", "xori", "ori", "andi", "addiw", "addid"}),
      Row("i_sh7", "rd_rs1_imm", {"slli", "srli", "srai"}),
      Row("i_sh5", "rd_rs1_imm", {"slliw", "srliw", "sraiw"}),
      Row("i_sh6", "rd_rs1_imm", {"sllid", "srlid", "sraid"}),
      Row("r", "rd_rs1_rs2",
          {"add", "sub", "sll", "slt", "sltu", "xor", "srl", "sra", "or", "and",
           "mul", "mulh", "mulhsu", "mulhu", "div", "divu", "rem", "remu",
           "addw", "subw", "sllw", "srlw", "sraw", "mulw", "divw", "divuw", "remw", "remuw",
           "addd", "subd", "slld", "srld", "srad", "muld", "divd", "divud", "remd", "remud"}),
      Row("r_f", "pred_succ", {"fence"}),
      Row("none", "none", {"fence_i"}) }

AtomicRows ==
    { Row("r_l", "aqrl_rd_rs1", Each({"lr_"}, {"w", "d", "q"})),
      Row("r_a", "aqrl_rd_rs2_rs1",
          Each({"sc_", "amoswap_", "amoadd_", "amoxor_", "amoor_", "amoand_",
                "amomin_", "amomax_", "amominu_", "amomaxu_"}, {"w", "d", "q"})) }

SystemRows ==
    { Row("none", "none", {"ecall", "ebreak", "uret", "sret", "hret", "mret", "dret", "wfi"}),
      Row("r", "rs1", {"sfence_vm"}),
      Row("r", "rs1_rs2", {"sfence_vma"}),
      Row("i_csr", "rd_csr_rs1", {"csrrw", "csrrs", "csrrc"}),
      Row("i_csr", "rd_csr_zimm", {"csrrwi", "csrrsi", "csrrci"}) }

FloatRows ==
    { Row("i", "frd_offset_rs1", {"flw", "fld", "flq"}),
      Row("s", "frs2_offset_rs1", {"fsw", "fsd", "fsq"}),
      Row("r4_m", "rm_frd_frs1_frs2_frs3",
          Each({"fmadd_", "fmsub_", "fnmsub_", "fnmadd_"}, FP)),
      Row("r_m", "rm_frd_frs1_frs2", Each({"fadd_", "fsub_", "fmul_", "fdiv_"}, FP)),
      Row("r", "frd_frs1_frs2",
          Each({"fsgnj_", "fsgnjn_", "fsgnjx_", "fmin_", "fmax_"}, FP)),
      Row("r_m", "rm_frd_frs1",
          Each({"fsqrt_"}, FP) \union {"fcvt_s_d", "fcvt_s_q", "fcvt_d_s",
                                       "fcvt_d_q", "fcvt_q_s", "fcvt_q_d"}),
      Row("r", "rd_frs1_frs2", Each({"fle_", "flt_", "feq_"}, FP)),
      Row("r_m", "rm_rd_frs1",
          Each({"fcvt_w_", "fcvt_wu_", "fcvt_l_", "fcvt_lu_"}, FP)),
      Row("r_m", "rm_frd_rs1",
          Each({"fcvt_s_", "fcvt_d_", "fcvt_q_"}, {"w", "wu", "l", "lu"})),
      Row("r", "rd_frs1", Each({"fmv_x_", "fclass_"}, FP)),
      Row("r", "frd_rs1", {"fmv_s_x", "fmv_d_x", "fmv_q_x"}) }

CompressedRows ==
    { Row("ciw_4spn", "rd_rs1_imm", {"c_addi4spn"}),
      Row("cl_ld", "frd_offset_rs1", {"c_fld"}),
      Row("cl_lw", "rd_offset_rs1", {"c_lw"}),
      Row("cl_lw", "frd_offset_rs1", {"c_flw"}),
      Row("cs_sd", "frs2_offset_rs1", {"c_fsd"}),
      Row("cs_sw", "rs2_offset_rs1", {"c_sw"}),
      Row("cs_sw", "frs2_offset_rs1", {"c_fsw"}),
      Row("ci_none", "none", {"c_nop", "c_ebreak"}),
      Row("ci", "rd_rs1_imm", {"c_addi", "c_addiw"}),
      Row("cj_jal", "rd_offset", {"c_jal"}),
      Row("ci_li", "rd_rs1_imm", {"c_li"}),
      Row("ci_16sp", "rd_rs1_imm", {"c_addi16sp"}),
      Row("ci_lui", "rd_imm", {"c_lui"}),
      Row("cb_sh6", "rd_rs1_imm", {"c_srli", "c_srai"}),
      Row("cb_imm", "rd_rs1_imm", {"c_andi"}),
      Row("cs", "rd_rs1_rs2", {"c_sub", "c_xor", "c_or", "c_and", "c_subw", "c_addw"}),
      Row("cj", "rd_offset", {"c_j"}),
      Row("cb", "rs1_rs2_offset", {"c_beqz", "c_bnez"}),
      Row("ci_sh6", "rd_rs1_imm", {"c_slli"}),
      Row("ci_ldsp", "frd_offset_rs1", {"c_fldsp"}),
      Row("ci_lwsp", "rd_offset_rs1", {"c_lwsp"}),
      Row("ci_lwsp", "frd_offset_rs1", {"c_flwsp"}),
      Row("cr_jr", "rd_rs1_offset", {"c_jr"}),
      Row("cr_mv", "rd_rs1_rs2", {"c_mv"}),
      Row("cr_jalr", "rd_rs1_offset", {"c_jalr"}),
      Row("cr", "rd_rs1_rs2", {"c_add"}),
      Row("css_sdsp", "frs2_offset_rs1", {"c_fsdsp"}),
      Row("css_swsp", "rs2_offset_rs1", {"c_swsp"}),
      Row("css_swsp", "frs2_offset_rs1", {"c_fswsp"}),
      Row("cl_ld", "rd_offset_rs1", {"c_ld"}),
      Row("cs_sd", "rs2_offset_rs1", {"c_sd"}),
      Row("ci_ldsp", "rd_offset_rs1", {"c_ldsp"}),
      Row("css_sdsp", "rs2_offset_rs1", {"c_sdsp"}),
      Row("cl_lq", "rd_offset_rs1", {"c_lq"}),
      Row("cs_sq", "rs2_offset_rs1", {"c_sq"}),
      Row("ci_lqsp", "rd_offset_rs1", {"c_lqsp"}),
      Row("css_sqsp", "rs2_offset_rs1", {"c_sqsp"}) }

PseudoRows ==
    { Row("i", "none", {"nop", "ret"}),
      Row("i", "rd_rs1", {"mv", "not", "sext_w", "seqz"}),
      Row("r", "rd_rs2", {"neg", "negw", "snez", "sgtz"}),
      Row("r", "rd_rs1", {"sltz", "fmv_s", "fmv_d", "fmv_q", "fabs_s", "fabs_d", "fabs_q",
                          "fneg_s", "fneg_d", "fneg_q"}),
      Row("sb", "rs1_offset", {"beqz", "bnez", "bgez", "bltz"}),
      Row("sb", "rs2_offset", {"blez", "bgtz"}),
      Row("sb", "rs2_rs1_offset", {"ble", "bleu", "bgt", "bgtu"}),
      Row("uj", "offset", {"j"}),
      Row("i", "rs1", {"jr"}),
      Row("i_csr", "rd", {"rdcycle", "rdtime", "rdinstret", "rdcycleh", "rdtimeh",
                          "rdinstreth", "frcsr", "frrm", "frflags"}),
      Row("i_csr", "rd_rs1", {"fscsr", "fsrm", "fsflags"}),
      Row("i_csr", "rd_zimm", {"fsrmi", "fsflagsi"}) }

Rows == IntegerRows \union AtomicRows \union SystemRows \union FloatRows
        \union CompressedRows \union PseudoRows

Ops == UNION {r.ops : r \in Rows}
Compressed == UNION {r.ops : r \in CompressedRows}

(* No operation is in two rows: the table is an array over the operations. *)
ASSUME OneRowAssumption == \A r, s \in Rows : r = s \/ r.ops \cap s.ops = {}

opcode_data == [op \in Ops |-> CHOOSE r \in Rows : op \in r.ops]

-----------------------------------------------------------------------------
(* The expansion of compressed instructions.  decomp_rv32, decomp_rv64 and *)
(* decomp_rv128 name the same operation where they are not 0; expands says *)
(* which of them are not.                                                  *)
Expansion(op, isas) == [op |-> op, isas |-> isas]
On == [all  |-> {"rv32", "rv64", "rv128"}, upto64 |-> {"rv32", "rv64"},
       rv32 |-> {"rv32"}, from64 |-> {"rv64", "rv128"}, rv128 |-> {"rv128"}]

expansion ==
    [c_addi4spn |-> Expansion("addi", On.all), c_fld |-> Expansion("fld", On.upto64),
     c_lw |-> Expansion("lw", On.all), c_flw |-> Expansion("flw", On.rv32),
     c_fsd |-> Expansion("fsd", On.upto64), c_sw |-> Expansion("sw", On.all),
     c_fsw |-> Expansion("fsw", On.rv32), c_nop |-> Expansion("addi", On.all),
     c_addi |-> Expansion("addi", On.all), c_jal |-> Expansion("jal", On.rv32),
     c_li |-> Expansion("addi", On.all), c_addi16sp |-> Expansion("addi", On.all),
     c_lui |-> Expansion("lui", On.all), c_srli |-> Expansion("srli", On.all),
     c_srai |-> Expansion("srai", On.all), c_andi |-> Expansion("andi", On.all),
     c_sub |-> Expansion("sub", On.all), c_xor |-> Expansion("xor", On.all),
     c_or |-> Expansion("or", On.all), c_and |-> Expansion("and", On.all),
     c_subw |-> Expansion("subw", On.all), c_addw |-> Expansion("addw", On.all),
     c_j |-> Expansion("jal", On.all), c_beqz |-> Expansion("beq", On.all),
     c_bnez |-> Expansion("bne", On.all), c_slli |-> Expansion("slli", On.all),
     c_fldsp |-> Expansion("fld", On.all), c_lwsp |-> Expansion("lw", On.all),
     c_flwsp |-> Expansion("flw", On.rv32), c_jr |-> Expansion("jalr", On.all),
     c_mv |-> Expansion("addi", On.all), c_ebreak |-> Expansion("ebreak", On.all),
     c_jalr |-> Expansion("jalr", On.all), c_add |-> Expansion("add", On.all),
     c_fsdsp |-> Expansion("fsd", On.all), c_swsp |-> Expansion("sw", On.all),
     c_fswsp |-> Expansion("fsw", On.rv32), c_ld |-> Expansion("ld", On.from64),
     c_sd |-> Expansion("sd", On.from64), c_addiw |-> Expansion("addiw", On.from64),
     c_ldsp |-> Expansion("ld", On.from64), c_sdsp |-> Expansion("sd", On.from64),
     c_lq |-> Expansion("lq", On.rv128), c_sq |-> Expansion("sq", On.rv128),
     c_lqsp |-> Expansion("lq", On.rv128), c_sqsp |-> Expansion("sq", On.rv128)]

(* decomp_data & rvcd_imm_nz: an immediate of 0 makes the encoding illegal.*)
(* The other flag, of c.addi, is never looked at.                          *)
rvcd_imm_nz ==
    {"c_addi4spn", "c_addi16sp", "c_lui", "c_srli", "c_srai", "c_andi", "c_slli"}

-----------------------------------------------------------------------------
(* The letters of the format strings rv_fmt_..., without the O of the name *)
(* and the punctuation.                                                    *)
Format ==
    [none |-> <<>>, rs1 |-> <<"1">>, offset |-> <<"o">>, pred_succ |-> <<"p", "s">>,
     rs1_rs2 |-> <<"1", "2">>, rd_imm |-> <<"0", "i">>, rd_offset |-> <<"0", "o">>,
     rd_rs1_rs2 |-> <<"0", "1", "2">>, frd_rs1 |-> <<"3", "1">>,
     rd_frs1 |-> <<"0", "4">>, rd_frs1_frs2 |-> <<"0", "4", "5">>,
     frd_frs1_frs2 |-> <<"3", "4", "5">>, rm_frd_frs1 |-> <<"r", "3", "4">>,
     rm_frd_rs1 |-> <<"r", "3", "1">>, rm_rd_frs1 |-> <<"r", "0", "4">>,
     rm_frd_frs1_frs2 |-> <<"r", "3", "4", "5">>,
     rm_frd_frs1_frs2_frs3 |-> <<"r", "3", "4", "5", "6">>,
     rd_rs1_imm |-> <<"0", "1", "i">>, rd_rs1_offset |-> <<"0", "1", "i">>,
     rd_offset_rs1 |-> <<"0", "i", "1">>, frd_offset_rs1 |-> <<"3", "i", "1">>,
     rd_csr_rs1 |-> <<"0", "c", "1">>, rd_csr_zimm |-> <<"0", "c", "7">>,
     rs2_offset_rs1 |-> <<"2", "i", "1">>, frs2_offset_rs1 |-> <<"5", "i", "1">>,
     rs1_rs2_offset |-> <<"1", "2", "o">>, rs2_rs1_offset |-> <<"2", "1", "o">>,
     aqrl_rd_rs2_rs1 |-> <<"A", "R", "0", "2", "1">>,
     aqrl_rd_rs1 |-> <<"A", "R", "0", "1">>, rd |-> <<"0">>,
     rd_zimm |-> <<"0", "7">>, rd_rs1 |-> <<"0", "1">>, rd_rs2 |-> <<"0", "2">>,
     rs1_offset |-> <<"1", "o">>, rs2_offset |-> <<"2", "o">>]

-----------------------------------------------------------------------------
(* Pseudo-instructions: the candidates of an operation (rvcp_...), in the  *)
(* order they are tried, and what the operands of a candidate must be      *)
(* (rvcc_...).                                                             *)
pseudo ==
    [jal |-> <<"j", "jal">>, jalr |-> <<"ret", "jr", "jalr">>,
     beq |-> <<"beqz">>, bne |-> <<"bnez">>, blt |-> <<"bltz", "bgtz", "bgt">>,
     bge |-> <<"blez", "bgez", "ble">>, bltu |-> <<"bgtu">>, bgeu |-> <<"bleu">>,
     addi |-> <<"nop", "mv">>, sltiu |-> <<"seqz">>, xori |-> <<"not">>,
     sub |-> <<"neg">>, slt |-> <<"sltz", "sgtz">>, sltu |-> <<"snez">>,
     addiw |-> <<"sext_w">>, subw |-> <<"negw">>,
     csrrw |-> <<"fscsr", "fsrm", "fsflags">>,
     csrrs |-> <<"rdcycle", "rdtime", "rdinstret", "rdcycleh", "rdtimeh",
                 "rdinstreth", "frcsr", "frrm", "frflags">>,
     csrrwi |-> <<"fsrmi", "fsflagsi">>,
     fsgnj_s |-> <<"fmv_s">>, fsgnjn_s |-> <<"fneg_s">>, fsgnjx_s |-> <<"fabs_s">>,
     fsgnj_d |-> <<"fmv_d">>, fsgnjn_d |-> <<"fneg_d">>, fsgnjx_d |-> <<"fabs_d">>,
     fsgnj_q |-> <<"fmv_q">>, fsgnjn_q |-> <<"fneg_q">>, fsgnjx_q |-> <<"fabs_q">>]

PlainConstraints ==
    [jal |-> {"rd_eq_ra"}, jalr |-> {"rd_eq_ra", "imm_eq_zero"},
     nop |-> {"rd_eq_x0", "rs1_eq_x0", "imm_eq_zero"}, mv |-> {"imm_eq_zero"},
     not |-> {"imm_eq_n1"}, neg |-> {"rs1_eq_x0"}, negw |-> {"rs1_eq_x0"},
     sext_w |-> {"imm_eq_zero"}, seqz |-> {"imm_eq_p1"}, snez |-> {"rs1_eq_x0"},
     sltz |-> {"rs2_eq_x0"}, sgtz |-> {"rs1_eq_x0"}, beqz |-> {"rs2_eq_x0"},
     bnez |-> {"rs2_eq_x0"}, blez |-> {"rs1_eq_x0"}, bgez |-> {"rs2_eq_x0"},
     bltz |-> {"rs2_eq_x0"}, bgtz |-> {"rs1_eq_x0"}, ble |-> {}, bleu |-> {},
     bgt |-> {}, bgtu |-> {}, j |-> {"rd_eq_x0"}, ret |-> {"rd_eq_x0", "rs1_eq_ra"},
     jr |-> {"rd_eq_x0", "imm_eq_zero"}, rdcycle |-> {"rs1_eq_x0", "csr_eq_0xc00"},
     rdtime |-> {"rs1_eq_x0", "csr_eq_0xc01"}, rdinstret |-> {"rs1_eq_x0", "csr_eq_0xc02"},
     rdcycleh |-> {"rs1_eq_x0", "csr_eq_0xc80"}, rdtimeh |-> {"rs1_eq_x0", "csr_eq_0xc81"},
     rdinstreth |-> {"rs1_eq_x0", "csr_eq_0xc82"}, frcsr |-> {"rs1_eq_x0", "csr_eq_0x003"},
     frrm |-> {"rs1_eq_x0", "csr_eq_0x002"}, frflags |-> {"rs1_eq_x0", "csr_eq_0x001"},
     fscsr |-> {"csr_eq_0x003"}, fsrm |-> {"csr_eq_0x002"}, fsflags |-> {"csr_eq_0x001"},
     fsrmi |-> {"csr_eq_0x002"}, fsflagsi |-> {"csr_eq_0x001"}]

constraints(p) ==
    IF p \in DOMAIN PlainConstraints THEN PlainConstraints[p] ELSE {"rs2_eq_rs1"}
=============================================================================
