------------------------------ MODULE Operands ------------------------------
(***************************************************************************)
(* The operands of an instruction (operand_... and decode_inst_operands of *)
(* lab_jb/support/riscv-disas.c): which bits of the word name registers,   *)
(* and how the scattered bits of an immediate are put together.            *)
(***************************************************************************)
EXTENDS Opcodes

Register == 0 .. 31
x0 == 0
ra == 1
sp == 2

(* What of rv_decode the text depends on; the program counter is always 0. *)
ZeroDecode ==
    [op |-> "illegal", codec |-> "illegal", rd |-> 0, rs1 |-> 0, rs2 |-> 0, rs3 |-> 0,
     imm |-> 0, rm |-> 0, pred |-> 0, succ |-> 0, aq |-> 0, rl |-> 0]

-----------------------------------------------------------------------------
Bit(w, n) == Field(w, n, n)

(* The three bits of a compressed register field name x8 to x15.           *)
Short(w, top) == Field(w, top, top - 2) + 8

Rd(codec, w) ==
    CASE codec \in {"u", "uj", "i", "i_sh5", "i_sh6", "i_sh7", "i_csr", "r", "r_m",
                    "r4_m", "r_a", "r_l", "ci", "ci_sh5", "ci_sh6", "ci_lwsp",
                    "ci_ldsp", "ci_lqsp", "ci_li", "ci_lui", "cr", "cr_mv"}
                                                        -> Field(w, 11, 7)
      [] codec \in {"ciw_4spn", "cl_lw", "cl_ld", "cl_lq"} -> Short(w, 4)
      [] codec \in {"cb_imm", "cb_sh5", "cb_sh6", "cs"} -> Short(w, 9)
      [] codec = "ci_16sp"                              -> sp
      [] codec \in {"cj_jal", "cr_jalr"}                -> ra
      [] OTHER                                          -> x0

Rs1(codec, w) ==
    CASE codec \in {"i", "i_sh5", "i_sh6", "i_sh7", "i_csr", "s", "sb", "r", "r_m",
                    "r4_m", "r_a", "r_l"}               -> Field(w, 19, 15)
      [] codec \in {"ci", "ci_sh5", "ci_sh6", "cr", "cr_jalr", "cr_jr"}
                                                        -> Field(w, 11, 7)
      [] codec = "cr_mv"                                -> Field(w, 6, 2)
      [] codec \in {"cb", "cb_imm", "cb_sh5", "cb_sh6", "cl_lw", "cl_ld", "cl_lq",
                    "cs", "cs_sw", "cs_sd", "cs_sq"}    -> Short(w, 9)
      [] codec \in {"ci_16sp", "ci_lwsp", "ci_ldsp", "ci_lqsp", "ciw_4spn",
                    "css_swsp", "css_sdsp", "css_sqsp"} -> sp
      [] OTHER                                          -> x0

Rs2(codec, w) ==
    CASE codec \in {"s", "sb", "r", "r_m", "r4_m", "r_a"} -> Field(w, 24, 20)
      [] codec \in {"cr", "css_swsp", "css_sdsp", "css_sqsp"} -> Field(w, 6, 2)
      [] codec \in {"cs", "cs_sw", "cs_sd", "cs_sq"}    -> Short(w, 4)
      [] OTHER                                          -> x0

-----------------------------------------------------------------------------
(* The immediates, bit range by bit range.  A signed one counts its top    *)
(* bit negatively.                                                         *)
imm12(w) == Field(w, 30, 20) - 2048 * Bit(w, 31)
imm20(w) == (Field(w, 30, 12) - 2 ^ 19 * Bit(w, 31)) * 4096

jimm20(w) ==
    2 * Field(w, 30, 21) + 2 ^ 11 * Bit(w, 20) + 2 ^ 12 * Field(w, 19, 12)
    - 2 ^ 20 * Bit(w, 31)

simm12(w) == Field(w, 11, 7) + 32 * Field(w, 30, 25) - 2048 * Bit(w, 31)

sbimm12(w) ==
    2 * Field(w, 11, 8) + 32 * Field(w, 30, 25) + 2 ^ 11 * Bit(w, 7)
    - 2 ^ 12 * Bit(w, 31)

cimmsh6Signed(w) == Field(w, 6, 2) - 32 * Bit(w, 12)    \* mutant: like cimmi

cimmsh6(w) == Field(w, 6, 2) + 32 * Bit(w, 12)
cimmi(w) == Field(w, 6, 2) - 32 * Bit(w, 12)
cimmui(w) == 2 ^ 12 * Field(w, 6, 2) - 2 ^ 17 * Bit(w, 12)

cimmlwsp(w) == 32 * Bit(w, 12) + 4 * Field(w, 6, 4) + 64 * Field(w, 3, 2)
cimmldsp(w) == 32 * Bit(w, 12) + 8 * Field(w, 6, 5) + 64 * Field(w, 4, 2)
cimmlqsp(w) == 32 * Bit(w, 12) + 16 * Bit(w, 6) + 64 * Field(w, 5, 2)

cimm16sp(w) ==
    16 * Bit(w, 6) + 64 * Bit(w, 5) + 128 * Field(w, 4, 3) + 32 * Bit(w, 2)
    - 512 * Bit(w, 12)

cimmjRotated(w) ==                  \* mutant: bits 6 and 7 of the offset change places
    16 * Bit(w, 11) + 256 * Field(w, 10, 9) + 1024 * Bit(w, 8) + 128 * Bit(w, 7)
    + 64 * Bit(w, 6) + 2 * Field(w, 5, 3) + 32 * Bit(w, 2) - 2048 * Bit(w, 12)

cimmj(w) ==
    16 * Bit(w, 11) + 256 * Field(w, 10, 9) + 1024 * Bit(w, 8) + 64 * Bit(w, 7)
    + 128 * Bit(w, 6) + 2 * Field(w, 5, 3) + 32 * Bit(w, 2) - 2048 * Bit(w, 12)

cimmb(w) ==
    8 * Field(w, 11, 10) + 64 * Field(w, 6, 5) + 2 * Field(w, 4, 3) + 32 * Bit(w, 2)
    - 256 * Bit(w, 12)

cimmswsp(w) == 4 * Field(w, 12, 9) + 64 * Field(w, 8, 7)
cimmsdsp(w) == 8 * Field(w, 12, 10) + 64 * Field(w, 9, 7)
cimmsqsp(w) == 16 * Field(w, 12, 11) + 64 * Field(w, 10, 7)

cimm4spn(w) ==
    16 * Field(w, 12, 11) + 64 * Field(w, 10, 7) + 4 * Bit(w, 6) + 8 * Bit(w, 5)

cimmw(w) == 8 * Field(w, 12, 10) + 4 * Bit(w, 6) + 64 * Bit(w, 5)
cimmd(w) == 8 * Field(w, 12, 10) + 64 * Field(w, 6, 5)
cimmq(w) == 16 * Field(w, 12, 11) + 256 * Bit(w, 10) + 64 * Field(w, 6, 5)

Imm(codec, w) ==
    CASE codec = "u"        -> imm20(w)
      [] codec = "uj"       -> jimm20(w)
      [] codec = "i"        -> imm12(w)
      [] codec = "i_sh5"    -> Field(w, 24, 20)
      [] codec = "i_sh6"    -> Field(w, 25, 20)
      [] codec = "i_sh7"    -> Field(w, 26, 20)
      [] codec = "i_csr"    -> Field(w, 31, 20)
      [] codec = "s"        -> simm12(w)
      [] codec = "sb"       -> sbimm12(w)
      [] codec = "cb"       -> cimmb(w)
      [] codec \in {"cb_sh5", "ci_sh5"}      -> Field(w, 6, 2)
      [] codec \in {"cb_sh6", "ci_sh6"}      -> cimmsh6(w)
      [] codec \in {"cb_imm", "ci", "ci_li"} -> cimmi(w)
      [] codec = "ci_16sp"  -> cimm16sp(w)
      [] codec = "ci_lwsp"  -> cimmlwsp(w)
      [] codec = "ci_ldsp"  -> cimmldsp(w)
      [] codec = "ci_lqsp"  -> cimmlqsp(w)
      [] codec = "ci_lui"   -> cimmui(w)
      [] codec = "ciw_4spn" -> cimm4spn(w)
      [] codec \in {"cj", "cj_jal"}   -> cimmj(w)
      [] codec \in {"cl_lw", "cs_sw"} -> cimmw(w)
      [] codec \in {"cl_ld", "cs_sd"} -> cimmd(w)
      [] codec \in {"cl_lq", "cs_sq"} -> cimmq(w)
      [] codec = "css_swsp" -> cimmswsp(w)
      [] codec = "css_sdsp" -> cimmsdsp(w)
      [] codec = "css_sqsp" -> cimmsqsp(w)
      [] OTHER              -> 0

-----------------------------------------------------------------------------
(* All operands: what a codec does not set keeps the zero it starts with.  *)
OperandsRoundingBit(dec, codec, w) ==   \* mutant: rm takes a bit of rs1 along
    [dec EXCEPT !.codec = codec, !.rd = Rd(codec, w), !.rs1 = Rs1(codec, w),
                !.rs2 = Rs2(codec, w), !.imm = Imm(codec, w), !.rm = Field(w, 15, 12)]

Operands(dec, codec, w) ==
    LET Only(codecs, value) == IF codec \in codecs THEN value ELSE 0
    IN  [op |-> dec.op, codec |-> codec,
         rd |-> Rd(codec, w), rs1 |-> Rs1(codec, w), rs2 |-> Rs2(codec, w),
         imm |-> Imm(codec, w),
         rs3 |-> Only({"r4_m"}, Field(w, 31, 27)),
         rm |-> Only({"r_m", "r4_m"}, Field(w, 14, 12)),
         aq |-> Only({"r_a", "r_l"}, Bit(w, 26)),
         rl |-> Only({"r_a", "r_l"}, Bit(w, 25)),
         pred |-> Only({"r_f"}, Field(w, 27, 24)),
         succ |-> Only({"r_f"}, Field(w, 23, 20))]
=============================================================================
