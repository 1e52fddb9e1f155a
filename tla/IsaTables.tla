----------------------------- MODULE IsaTables ------------------------------
(***************************************************************************)
(* The encodings and pseudo-instructions of the RISC-V instruction set, as *)
(* its manual tabulates them: what the disassembler is compared with.      *)
(* Nothing here is taken from the disassembler's code.                     *)
(***************************************************************************)
EXTENDS Opcodes

(* The immediate bits of compressed instructions, in the order in which    *)
(* bits 12..2 of the word hold them; a word bit that is not part of the    *)
(* immediate has none.                                                     *)
None == -1
SixBits == <<5, None, None, None, None, None, 4, 3, 2, 1, 0>>
Jump == <<11, 4, 9, 8, 10, 6, 7, 3, 2, 1, 5>>
CompressedBranch == <<8, 4, 3, None, None, None, 7, 6, 2, 1, 5>>
StackLoad(a, b, c, d, e) == <<5, None, None, None, None, None, a, b, c, d, e>>
StackStore(a, b, c, d, e, f) == <<a, b, c, d, e, f, None, None, None, None, None>>
ShortAccess(a, b, c, d, e) == <<a, b, c, None, None, None, d, e, None, None, None>>

Layout(op) ==
    CASE op \in {"c_addi", "c_addiw", "c_li", "c_andi", "c_srli", "c_srai", "c_slli"}
                                   -> SixBits
      [] op \in {"c_j", "c_jal"}   -> Jump
      [] op \in {"c_beqz", "c_bnez"}         -> CompressedBranch
      [] op \in {"c_lw", "c_flw", "c_sw", "c_fsw"} -> ShortAccess(5, 4, 3, 2, 6)
      [] op \in {"c_ld", "c_fld", "c_sd", "c_fsd"} -> ShortAccess(5, 4, 3, 7, 6)
      [] op \in {"c_lq", "c_sq"}   -> ShortAccess(5, 4, 8, 7, 6)
      [] op \in {"c_lwsp", "c_flwsp"} -> StackLoad(4, 3, 2, 7, 6)
      [] op \in {"c_ldsp", "c_fldsp"} -> StackLoad(4, 3, 8, 7, 6)
      [] op = "c_lqsp"             -> StackLoad(4, 9, 8, 7, 6)
      [] op \in {"c_swsp", "c_fswsp"} -> StackStore(5, 4, 3, 2, 7, 6)
      [] op \in {"c_sdsp", "c_fsdsp"} -> StackStore(5, 4, 3, 8, 7, 6)
      [] op = "c_sqsp"             -> StackStore(5, 4, 9, 8, 7, 6)
      [] op = "c_lui"      -> <<17, None, None, None, None, None, 16, 15, 14, 13, 12>>
      [] op = "c_addi16sp" -> <<9, None, None, None, None, None, 4, 6, 8, 7, 5>>
      [] op = "c_addi4spn" -> <<5, 4, 9, 8, 7, 6, 2, 3, None, None, None>>
      [] OTHER             -> <<>>

SignedImmediate ==
    {"c_addi", "c_addiw", "c_li", "c_andi", "c_j", "c_jal", "c_beqz", "c_bnez",
     "c_lui", "c_addi16sp"}

(* The value of an immediate whose bits are laid out so; bit 12 of the     *)
(* word is the sign of the signed ones.                                    *)
Gathered(w, layout, signed) ==
    LET Placed(n) ==
            IF layout[n] = None THEN 0 ELSE 2 ^ layout[n] * Field(w, 13 - n, 13 - n)
    IN  (IF signed THEN - Placed(1) ELSE Placed(1))
        + Placed(2) + Placed(3) + Placed(4) + Placed(5) + Placed(6)
        + Placed(7) + Placed(8) + Placed(9) + Placed(10) + Placed(11)

-----------------------------------------------------------------------------
(* The word of a 32-bit instruction: from the four parts that every format *)
(* has in common, and from a 20-bit immediate.                             *)
Assembled(opcode, low5, f3, rs1, top12) ==
    [lo |-> opcode + 128 * low5 + 4096 * f3 + 32768 * (rs1 % 2),
     hi |-> (rs1 \div 2) + 16 * top12]

AssembledUpper(opcode, rd, upper20) ==
    [lo |-> opcode + 128 * rd + 4096 * (upper20 % 16), hi |-> upper20 \div 16]

Bits(n, top, low) == (n \div 2 ^ low) % 2 ^ (top - low + 1)

(* Opcode, funct3 and, for the R format, funct7 of the operations that     *)
(* compressed instructions stand for.                                      *)
IFormat == [addi |-> <<19, 0>>, andi |-> <<19, 7>>, addiw |-> <<27, 0>>, lw |-> <<3, 2>>,
            ld |-> <<3, 3>>, lq |-> <<15, 2>>, flw |-> <<7, 2>>, fld |-> <<7, 3>>,
            jalr |-> <<103, 0>>, slli |-> <<19, 1>>, srli |-> <<19, 5>>]
SFormat == [sw |-> <<35, 2>>, sd |-> <<35, 3>>, sq |-> <<35, 4>>, fsw |-> <<39, 2>>,
            fsd |-> <<39, 3>>]
BFormat == [beq |-> <<99, 0>>, bne |-> <<99, 1>>]
RFormat == [add |-> <<51, 0, 0>>, sub |-> <<51, 0, 32>>, xor |-> <<51, 4, 0>>,
            or |-> <<51, 6, 0>>, and |-> <<51, 7, 0>>, addw |-> <<59, 0, 0>>,
            subw |-> <<59, 0, 32>>]

(* A decoded instruction d as a 32-bit word. *)
Written(d) ==
    CASE d.op \in DOMAIN IFormat ->
            Assembled(IFormat[d.op][1], d.rd, IFormat[d.op][2], d.rs1, d.imm % 4096)
      [] d.op = "srai" -> Assembled(19, d.rd, 5, d.rs1, 1024 + d.imm)
      [] d.op \in DOMAIN SFormat ->
            Assembled(SFormat[d.op][1], Bits(d.imm, 4, 0), SFormat[d.op][2], d.rs1,
                      32 * Bits(d.imm, 11, 5) + d.rs2)
      [] d.op \in DOMAIN BFormat ->
            Assembled(99, 2 * Bits(d.imm, 4, 1) + Bits(d.imm, 11, 11), BFormat[d.op][2],
                      d.rs1, 2048 * Bits(d.imm, 12, 12) + 32 * Bits(d.imm, 10, 5) + d.rs2)
      [] d.op \in DOMAIN RFormat ->
            Assembled(RFormat[d.op][1], d.rd, RFormat[d.op][2], d.rs1,
                      32 * RFormat[d.op][3] + d.rs2)
      [] d.op = "lui" -> AssembledUpper(55, d.rd, Bits(d.imm, 31, 12))
      [] d.op = "jal" ->
            AssembledUpper(111, d.rd, 2 ^ 19 * Bits(d.imm, 20, 20) + 512 * Bits(d.imm, 10, 1)
                                      + 256 * Bits(d.imm, 11, 11) + Bits(d.imm, 19, 12))
      [] d.op = "ebreak" -> Assembled(115, 0, 0, 0, 1)

(* The word with one bit changed. *)
Flipped(w, n) ==
    LET Change(half, k) == IF (half \div 2 ^ k) % 2 = 1 THEN half - 2 ^ k ELSE half + 2 ^ k
    IN  IF n < 16 THEN [w EXCEPT !.lo = Change(@, n)]
                  ELSE [w EXCEPT !.hi = Change(@, n - 16)]

-----------------------------------------------------------------------------
(* What pseudo-instruction name with the arguments a stands for.           *)
Core(op, rd, rs1, rs2, imm) ==
    [op |-> op, rd |-> rd, rs1 |-> rs1, rs2 |-> rs2, imm |-> imm]

(* The counters and floating-point control registers that have mnemonics.  *)
CsrReads == [rdcycle |-> 3072, rdtime |-> 3073, rdinstret |-> 3074, rdcycleh |-> 3200,
             rdtimeh |-> 3201, rdinstreth |-> 3202, frcsr |-> 3, frrm |-> 2, frflags |-> 1]
CsrWrites == [fscsr |-> 3, fsrm |-> 2, fsflags |-> 1]
CsrWritesImm == [fsrmi |-> 2, fsflagsi |-> 1]
SignInjections ==
    [fmv_s |-> "fsgnj_s", fneg_s |-> "fsgnjn_s", fabs_s |-> "fsgnjx_s",
     fmv_d |-> "fsgnj_d", fneg_d |-> "fsgnjn_d", fabs_d |-> "fsgnjx_d",
     fmv_q |-> "fsgnj_q", fneg_q |-> "fsgnjn_q", fabs_q |-> "fsgnjx_q"]

StandsFor(name, a) ==
    CASE name = "nop"    -> Core("addi", 0, 0, 0, 0)
      [] name = "mv"     -> Core("addi", a[1], a[2], 0, 0)
      [] name = "not"    -> Core("xori", a[1], a[2], 0, -1)
      [] name = "neg"    -> Core("sub", a[1], 0, a[2], 0)
      [] name = "negw"   -> Core("subw", a[1], 0, a[2], 0)
      [] name = "sext_w" -> Core("addiw", a[1], a[2], 0, 0)
      [] name = "seqz"   -> Core("sltiu", a[1], a[2], 0, 1)
      [] name = "snez"   -> Core("sltu", a[1], 0, a[2], 0)
      [] name = "sltz"   -> Core("slt", a[1], a[2], 0, 0)
      [] name = "sgtz"   -> Core("slt", a[1], 0, a[2], 0)
      [] name = "beqz"   -> Core("beq", 0, a[1], 0, a[2])
      [] name = "bnez"   -> Core("bne", 0, a[1], 0, a[2])
      [] name = "blez"   -> Core("bge", 0, 0, a[1], a[2])
      [] name = "bgez"   -> Core("bge", 0, a[1], 0, a[2])
      [] name = "bltz"   -> Core("blt", 0, a[1], 0, a[2])
      [] name = "bgtz"   -> Core("blt", 0, 0, a[1], a[2])
      [] name = "bgt"    -> Core("blt", 0, a[2], a[1], a[3])
      [] name = "ble"    -> Core("bge", 0, a[2], a[1], a[3])
      [] name = "bgtu"   -> Core("bltu", 0, a[2], a[1], a[3])
      [] name = "bleu"   -> Core("bgeu", 0, a[2], a[1], a[3])
      [] name = "j"      -> Core("jal", 0, 0, 0, a[1])
      [] name = "jr"     -> Core("jalr", 0, a[1], 0, 0)
      [] name = "ret"    -> Core("jalr", 0, 1, 0, 0)
      [] name \in DOMAIN CsrReads     -> Core("csrrs", a[1], 0, 0, CsrReads[name])
      [] name \in DOMAIN CsrWrites    -> Core("csrrw", a[1], a[2], 0, CsrWrites[name])
      [] name \in DOMAIN CsrWritesImm -> Core("csrrwi", a[1], a[2], 0, CsrWritesImm[name])
      [] name \in DOMAIN SignInjections -> Core(SignInjections[name], a[1], a[2], a[2], 0)
=============================================================================
