---------------------------- MODULE Disassembler ----------------------------
(***************************************************************************)
(* The disassembler the simulators show instructions with                  *)
(* (lab_jb/support/riscv-disas.c, called through print_disasm of support.h *)
(* and by the generated probes): a pipeline of five passes over one        *)
(* rv_decode record, each of which rewrites parts of what the previous     *)
(* ones found.                                                             *)
(*                                                                         *)
(* The text is abstracted to its tokens: the name of the operation and the *)
(* sequence of its arguments, each a kind and a number.  Padding, commas   *)
(* and the hexadecimal word in front are left out.                         *)
(***************************************************************************)
EXTENDS Operands, OpcodeData, IsaTables

CONSTANT Calls          \* the instruction sets and words disasm_inst is called with

ASSUME CallsAssumption == Calls \subseteq rv_isa \X InstructionWord

VARIABLES
    isa, inst,          \* the arguments of the call in progress
    stage,              \* the pass that runs next
    dec,                \* rv_decode
    line                \* the buffer of the caller

vars == <<isa, inst, stage, dec, line>>

Stages == {"idle", "opcode", "operands", "decompress", "lift", "format", "done"}

-----------------------------------------------------------------------------
(* The passes, as functions of the record. *)
decode_inst_operands(d, w) == Operands(d, opcode_data[d.op].codec, w)

(* decompress_inst_rv32, _rv64 and _rv128 differ in the column they read.  *)
(* The codec of an illegal instruction stays the compressed one.           *)
decompress_inst(i, d) ==
    IF d.op \notin Compressed \/ i \notin expansion[d.op].isas
      THEN d
    ELSE IF d.op \in rvcd_imm_nz /\ d.imm = 0
      THEN [d EXCEPT !.op = "illegal"]
      ELSE [d EXCEPT !.op = expansion[d.op].op,
                     !.codec = opcode_data[expansion[d.op].op].codec]

Holds(c, d) ==
    CASE c = "rd_eq_ra"      -> d.rd = ra
      [] c = "rd_eq_x0"      -> d.rd = x0
      [] c = "rs1_eq_x0"     -> d.rs1 = x0
      [] c = "rs2_eq_x0"     -> d.rs2 = x0
      [] c = "rs2_eq_rs1"    -> d.rs2 = d.rs1
      [] c = "rs1_eq_ra"     -> d.rs1 = ra
      [] c = "imm_eq_zero"   -> d.imm = 0
      [] c = "imm_eq_n1"     -> d.imm = -1
      [] c = "imm_eq_p1"     -> d.imm = 1
      [] c = "csr_eq_0x001"  -> d.imm = 1
      [] c = "csr_eq_0x002"  -> d.imm = 2
      [] c = "csr_eq_0x003"  -> d.imm = 3
      [] c = "csr_eq_0xc00"  -> d.imm = 3072
      [] c = "csr_eq_0xc01"  -> d.imm = 3073
      [] c = "csr_eq_0xc02"  -> d.imm = 3074
      [] c = "csr_eq_0xc80"  -> d.imm = 3200
      [] c = "csr_eq_0xc81"  -> d.imm = 3201
      [] c = "csr_eq_0xc82"  -> d.imm = 3202

check_constraintsAny(d, cs) ==      \* mutant: satisfied by the first that holds
    cs = {} \/ \E c \in cs : Holds(c, d)

check_constraints(d, cs) == \A c \in cs : Holds(c, d)

(* The candidates whose constraints hold; the first one is taken. *)
Candidates(d) ==
    IF d.op \in DOMAIN pseudo
      THEN {n \in DOMAIN pseudo[d.op] : check_constraints(d, constraints(pseudo[d.op][n]))}
      ELSE {}

lift_pseudo(d) ==
    IF Candidates(d) = {}
      THEN d
      ELSE LET first == CHOOSE n \in Candidates(d) : \A m \in Candidates(d) : n <= m
               name == pseudo[d.op][first]
           IN  [d EXCEPT !.op = name, !.codec = opcode_data[name].codec]

(* What a letter of a format prints.  Register names and CSR names are in  *)
(* one-to-one correspondence with their numbers; of the rounding modes 5   *)
(* and 6 have no name and both print as inv.                               *)
Argument(letter, d) ==
    CASE letter = "0" -> <<"x", d.rd>>
      [] letter = "1" -> <<"x", d.rs1>>
      [] letter = "2" -> <<"x", d.rs2>>
      [] letter = "3" -> <<"f", d.rd>>
      [] letter = "4" -> <<"f", d.rs1>>
      [] letter = "5" -> <<"f", d.rs2>>
      [] letter = "6" -> <<"f", d.rs3>>
      [] letter = "7" -> <<"zimm", d.rs1>>
      [] letter = "i" -> <<"imm", d.imm>>
      [] letter = "o" -> <<"offset", d.imm>>
      [] letter = "c" -> <<"csr", d.imm % 4096>>
      [] letter = "r" -> <<"rm", IF d.rm = 6 THEN 5 ELSE d.rm>>
      [] letter = "p" -> <<"pred", d.pred>>
      [] letter = "s" -> <<"succ", d.succ>>
      [] letter = "A" -> <<"aq", d.aq>>
      [] letter = "R" -> <<"rl", d.rl>>

format_inst(d) ==
    LET letters == Format[opcode_data[d.op].format]
    IN  [name |-> d.op, args |-> [n \in 1 .. Len(letters) |-> Argument(letters[n], d)]]

NoLine == [name |-> "", args |-> <<>>]

(* One word, 0x31337, is answered with the title of a film. *)
Film == [hi |-> 3, lo |-> 4919]
HackThePlanet == [name |-> "HACK THE PLANET", args |-> <<>>]

(* The passes composed, up to the expansion and to the end. *)
Expanded(i, w) ==
    decompress_inst(i, decode_inst_operands(
        [ZeroDecode EXCEPT !.op = decode_inst_opcode(i, w)], w))

Assembly(i, w) == format_inst(lift_pseudo(Expanded(i, w)))

-----------------------------------------------------------------------------
(* Between two calls nothing is kept; the canonical idle state. *)
Idle ==
    /\ isa = "rv32"
    /\ inst = [hi |-> 0, lo |-> 0]
    /\ stage = "idle"
    /\ dec = ZeroDecode
    /\ line = NoLine

Init == Idle

(* disasm_inst is entered. *)
Call ==
    /\ stage = "idle"
    /\ \E c \in Calls :
          /\ isa' = c[1]
          /\ inst' = c[2]
          /\ IF c[2] = Film
               THEN stage' = "done" /\ line' = HackThePlanet
               ELSE stage' = "opcode" /\ UNCHANGED line
    /\ UNCHANGED dec

DecodeOpcode ==
    /\ stage = "opcode"
    /\ dec' = [dec EXCEPT !.op = decode_inst_opcode(isa, inst)]
    /\ stage' = "operands"
    /\ UNCHANGED <<isa, inst, line>>

DecodeOperands ==
    /\ stage = "operands"
    /\ dec' = decode_inst_operands(dec, inst)
    /\ stage' = "decompress"
    /\ UNCHANGED <<isa, inst, line>>

Decompress ==
    /\ stage = "decompress"
    /\ dec' = decompress_inst(isa, dec)
    /\ stage' = "lift"
    /\ UNCHANGED <<isa, inst, line>>

LiftPseudo ==
    /\ stage = "lift"
    /\ dec' = lift_pseudo(dec)
    /\ stage' = "format"
    /\ UNCHANGED <<isa, inst, line>>

FormatInst ==
    /\ stage = "format"
    /\ line' = format_inst(dec)
    /\ stage' = "done"
    /\ UNCHANGED <<isa, inst, dec>>

(* The caller prints the buffer; the record was on the stack. *)
Return ==
    /\ stage = "done"
    /\ isa' = "rv32"
    /\ inst' = [hi |-> 0, lo |-> 0]
    /\ stage' = "idle"
    /\ dec' = ZeroDecode
    /\ line' = NoLine

Next == \/ Call \/ DecodeOpcode \/ DecodeOperands \/ Decompress
        \/ LiftPseudo \/ FormatInst \/ Return

Spec == Init /\ [][Next]_vars

-----------------------------------------------------------------------------
TypeOK ==
    /\ isa \in rv_isa
    /\ inst \in InstructionWord
    /\ stage \in Stages
    /\ dec.op \in Ops
    /\ \A r \in {"rd", "rs1", "rs2", "rs3"} : dec[r] \in Register
    /\ dec.rm \in 0 .. 7
    /\ {dec.pred, dec.succ} \subseteq 0 .. 15
    /\ {dec.aq, dec.rl} \subseteq 0 .. 1
    /\ line.name \in Ops \union {NoLine.name, HackThePlanet.name}

-----------------------------------------------------------------------------
(* Every compressed instruction is shown as what it stands for: the opcode *)
(* tree never picks a compressed operation whose column of the table is    *)
(* empty for the instruction set it was picked on.                         *)
AlwaysExpanded == stage \in {"lift", "format"} => dec.op \notin Compressed

(* The immediate of a compressed instruction has the value the instruction *)
(* set gives its encoding: the fourteen extractors, each with shifts of    *)
(* its own, against the order of the bits in the encoding tables.          *)
CompressedImmediates ==
    stage = "decompress" /\ Layout(dec.op) # <<>> =>
        dec.imm = Gathered(inst, Layout(dec.op), dec.op \in SignedImmediate)

(* An expansion means the same as the compressed word: written as a 32-bit *)
(* instruction and disassembled on its own, it yields the same operation,  *)
(* registers and immediate.                                                *)
ExpandsToItself ==
    stage = "lift" /\ Field(inst, 1, 0) # 3 /\ dec.op # "illegal" =>
        Expanded(isa, Written(dec)) = dec

(* The text says everything that is in the word: changing one bit changes  *)
(* the text, or one of the two words is no instruction, or one is a        *)
(* compressed word and the other is not (a compressed word and what it     *)
(* stands for share a text, and may be one bit apart).  Fences have bits   *)
(* without a meaning, two rounding modes share the name inv, ret drops the *)
(* offset of its jalr, and many words add to x0.                           *)
Careless ==
    \/ line.name \in {"illegal", HackThePlanet.name, "fence", "fence_i", "ret"}
    \/ \E n \in DOMAIN line.args : line.args[n] = <<"rm", 5>>
    \/ line.name \in {"addi", "nop"} /\ dec.rd = x0

EveryBitCounts ==
    stage = "done" /\ ~ Careless =>
        \A n \in IF Field(inst, 1, 0) = 3 THEN 2 .. 31 ELSE 0 .. 15 :
            LET other == Flipped(inst, n)
            IN  (Field(other, 1, 0) = 3) = (Field(inst, 1, 0) = 3)
                    => Assembly(isa, other) # line

(* The pseudo-instruction shown for an instruction stands for exactly that *)
(* instruction: what its text leaves out is what its constraints checked.  *)
(* Register banks aside (the text of fmv.s, fneg.s and fabs.s names x      *)
(* registers), the one exception is the offset of ret.                     *)
LiftKeepsOperands ==
    [][stage = "lift" /\ dec'.op # dec.op =>
        LET shown == format_inst(dec')
        IN  StandsFor(shown.name, [n \in DOMAIN shown.args |-> shown.args[n][2]])
            = Core(dec.op, dec.rd, dec.rs1, dec.rs2,
                   IF dec'.op = "ret" THEN 0 ELSE dec.imm)]_vars
=============================================================================
