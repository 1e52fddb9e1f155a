# A verification project for the RISC-V processor labs

The repository holds the lab work of a computer architecture course: a small
RISC-V processor in SystemVerilog, the programs it runs, and the course's
simulation tools.  This directory holds TLA+ models of the processor, of its
main program, of the two simulators and of their disassembler, TLC runs on small
instances, and proofs checked by TLAPS.

All paths are relative to `src/`.

## 1. Inventory

### The final processor, `lab_jb_hsmith/`

| Part | State | Operations | Hard behaviour |
|---|---|---|---|
| pipeline, `cpu.sv` | PC_FETCH, PC_EX, instruction_EX, stall_EX, five write-back registers, CPU_out | a clock edge in reset, a clock edge in operation | results in flight, squashed slots, links taken one cycle late, registers that reset forgets |
| controller, `controller.sv` | none (combinational) | the control table | don't-care bits, some of which gate registers |
| decoder, `decoder.sv` and the wires of `cpu.sv:33-41,69-75` | none | slices, sign extension, word offsets | scattered immediate bits |
| register file, `regfile.sv` | mem | write at the edge, two reads, asynchronous reset | bypass against storage, register 0 |
| ALU, `alu.sv` | none | sixteen operations | hand-made arithmetic shift, signed comparison |
| muxes, `mux2.sv`, `mux4.sv` | none | | together with controller and ALU they close a combinational loop |
| board, `top.sv`, `hexdriver.sv` | none | switches in, eight displays out | nibble order |
| programs, `sqrt.asm`, `bin2dec.asm` | registers, memory is read only | the square root of the switches in decimal | word overflow, rounding, running for ever |

They interact through wires only.  One clock drives the pipeline and the
register file; `KEY[0]` resets the pipeline at the next edge (`cpu.sv:165`) and
the register file at once (`regfile.sv:29`).  The program sees the switches
through one CSR and the displays through another.

What makes them correct: a program must not notice the pipeline; register 0 is
0; reset leads to a defined state; the processor never stops executing; the wires settle; the
displays end up with the root of the number on the switches.

### The simulators, `lab_jb/support/`

| Part | State | Operations | Hard behaviour |
|---|---|---|---|
| library, `support.cpp`, `support.h` | the inputs KEY and SW of the translated processor, the cycles still to run | `initialize_simulation`, `reset`, `delay_cycles`, memory and register pokes, `write_io` | a written input takes effect at the next evaluation only; `reset` zeroes registers before the clock runs and with writes in flight |
| command line, `cli.cpp` | position in its sequence | load, reset, run N cycles, print registers | where reading a file stops; which cycles execute something |
| graphical, `gui.go` | keys, switches, register table and displays as the window shows them | start-up, `OnKEY`, `OnSW`, `OnTick`, `OnReset`, the ROM dialog | callbacks in any order; the inputs of window and model, and the labels and the model, drift apart |
| disassembler, `riscv-disas.c` | one `rv_decode` record per call | decode opcode, decode operands, expand, lift to a pseudo-instruction, format | five passes rewrite one record; three instruction sets; three tables that must agree |

The front ends call the library, the library evaluates the processor and writes
into its memories behind its back.  The disassembler is called with the words of
the pipeline and gives the text the user debugs with.

What makes them correct: a reset or load leaves nothing of what ran before; the
processor sees the inputs the window shows; ticks make the program go on and its
output visible; a ROM file means the same to both simulators; the text says
everything that is in a word, and what the processor does with it.

### The rest

* `lab_jb/rtl/regfile32x32.sv`: the course's own register file.  It has no reset,
  and guards register 0 in the read ports rather than in the storage.
* `lab_jb/testbench/`: vector benches for the ALU and the register file.
* `lab_rui_hsmith/` (and its copy `lab_riu/`): the processor before jumps were added.  Its register
  file, ALU and display driver are the files of `lab_jb_hsmith`.
* `lab_vliw_hsmith/`: an unfinished two-issue processor.  Its `cpu.sv` connects
  ports (`we1`, `readdate22`) that its register file does not have, so it
  does not elaborate; the other files equal those of `lab_jb_hsmith`.
* `lab_hex`, `lab_hex_hsmith`: switches wired to displays.
* Quartus and ModelSim output, PDFs, scripts around `vsim`.

## 2. The modules

| Module | Models | Lines |
|---|---|---|
| `Encoding` | opcodes, ALU operations, the funct7/funct3 pairs of the table | `controller.sv`, `alu.sv:40-55` |
| `Controller` | the control table, don't-cares as the model value `X` | `controller.sv:46-168` |
| `Regfile` | the register file, a component with ports of its own | `regfile.sv` |
| `RegfilePair` | `Regfile` next to `regfile32x32.sv` on the same ports | `lab_jb/rtl/regfile32x32.sv` |
| `Cpu` | the pipeline; contains `Controller`, `Regfile` and, for one property, `ExecuteLoop` by INSTANCE | `cpu.sv` |
| `Isa` | abstract: one instruction at a time | what `Cpu` promises |
| `Alu`, `AluBench` | the ALU at any width; the course's bench running all vectors | `alu.sv`, `lab_jb/testbench/alu_testtop.sv` |
| `Words` | 32-bit words and their fields | what disassembler and decoder slice |
| `Decoder` | fields, widened immediates and word offsets, as bit vectors | `decoder.sv`, `cpu.sv:33-41,68-75` |
| `Opcodes` | the opcode tree | `riscv-disas.c:861-1495` |
| `OpcodeData` | the table of operations, pseudo-instructions, constraints, expansions | `riscv-disas.c:31-647` |
| `Operands` | registers and immediates of every encoding | `riscv-disas.c:1499-1993` |
| `Disassembler` | the call, pass by pass | `riscv-disas.c:1997-2380` |
| `IsaTables` | reference: the encodings of the instruction set manual; takes nothing from the code | |
| `ProcessorView` | the same word read by `Decoder` and `Controller` | `decoder.sv`, `controller.sv` |
| `Harness` | library, command line and window around `Cpu` | `support.cpp`, `cli.cpp`, `gui.go` |
| `ExecuteLoop` | the wires of the execute stage between two edges | `cpu.sv:97-148` |
| `SqrtProgram` | the program, the switches and the displays | `sqrt.asm`, `top.sv`, `hexdriver.sv` |
| `CpuProofs`, `CpuRefinement`, `HarnessProofs`, `RegfileProofs`, `AluProofs`, `ExecuteLoopProofs`, `SqrtProofs`, `DisassemblerProofs` | proofs (section 5) | |
| `MCCpu`, `MCExecuteLoop`, `MCRegfilePair`, `MCSqrtProgram`, `MCDisassembler`, `MCHarness` | instances for TLC | |

### From code to model

**`Cpu`.**  A variable is a register of the code and has its name.  A wire is an
operator (`readdata1`, `R_EX`, `nextPC`, ...).  There are four actions: a clock
edge with the key down (`ClockReset`) and one with it up (`ClockRun`), and the key going
down and up between edges (`KeyPress`, `KeyRelease`).  The key is a state of its
own because the two resets act at different times.

* An instruction is a record of its decoded fields; `branch`, `jal`, `jalr` are
  the word offsets that `Decoder` shows to be right.
* `X` flows through `regsel_WB` and `R_WB` as in a simulator.  Where it gates a
  register (`gpio_we` of a jump, `cpu.sv:202`) it becomes a member of
  `XResolves`: {0} is what a simulator does, {0, 1} covers every build.
* `bubble` is an auxiliary variable: the execute slot holds the zero word that
  reset put there, so PC_EX is not the address of that word.
* `Init` is the state after the first edge of the power-on reset.  The edge
  does not set `regwrite_WB` or the registers other than 0: they are arbitrary.
* `cpu.sv:206-247` only prints.

**`ExecuteLoop`.**  `Cpu` takes the wires as functions.  In the code the controller
looks at the ALU's result and the ALU at the controller's operation.  Here each
block is evaluated by an action of its own, in any order, from left-over values.
Like a simulator, `X` at a condition makes the bits in which the two rows
differ `X`.  `Loop` in `Cpu` is this module in the slot of the pipeline, with the wires the pipeline
computes; `WiresSettled` says that they are at rest.

**`SqrtProgram`.**  An action per basic block.  A register holds a word of
`WordMod` values, and each instruction does what the ALU does to words.  The
eight copies of the digit conversion (`sqrt.asm:93-218`) are one action with a
counter.  The program has no end: behind its last word the memory is empty
(word 0 does nothing), and the PC wraps at 4096, so it starts over.  `MoveSwitches` may
happen at any time.  In `sqrt.dat` the branches also write a register, as
described in section 6; it is modelled (`Link`).

**`AluBench`** is a bench around a pure function and runs through all vectors.
**`Decoder`** is a function of the instruction word; a bit vector is a width and a value in
two's complement, and slices, concatenations and replications are those of the code.
`ProcessorView` applies it to the words that are disassembled.

**`Disassembler`.**  An action per pass, on the record `dec` (`rv_decode`).
A word is a pair of half-words, since TLC's integers have 31 bits and a sign.  The
opcode tree is a tree of tables, with one definition per major case.  An operation is its
enumeration name, and the text is a sequence of tokens: a kind
(register, immediate, rounding mode, ...) and a number.
`IsaTables` is the other side of the comparison: the order of the immediate bits of the
compressed formats, the composition of a 32-bit word from its fields, and what each
pseudo-instruction stands for.

**`Harness`.**  It extends `Cpu` and replaces its next-state relation: a step of the
processor happens when the library evaluates it.  Of the three evaluations of a cycle
(`support.cpp:12-26`) the first is `Settle` (the processor sees KEY), the second
`RisingClock`; nothing in the processor reacts to the third.  `call` says which call of
the library is under way, and `cycles` how many cycles `delay_cycles` still runs; the caller's
action (`TickDone`, `ResetDone`, ...) is enabled when it is 0.  A callback of the window
is its first half up to the library call (`OnTick`, `OnReset`, ...) and the second half behind it.
`HarnessInit` is the first edge of the reset in `initialize_simulation`, where `Cpu`'s `Init` is.
A ROM file is a sequence of lines of seven kinds, each with the word it holds and the one
its digits start with.  `Scanned` is what `fscanf("%x")` makes of the file and `LoadASCIIHex`
what the window makes of it; both are functions from the numbers of the lines that count to words,
and the k-th such line goes to address k - 1 (`Address`, `Image`).

## 3. The runs

| Run | Shows | Bounds |
|---|---|---|
| `cpu` | `TypeOK`, `WiresSettled`, `ZeroRegister`, `SlotMatchesPc`, `FetchFollowsSlot`; the pipeline implements `Isa` (`RunsSequentially`); `Progress`, `ResetTakesHold` | 2-bit words, 4 addresses, 3 registers; every program over 7 data instructions and every one over 7 jumps and branches (4786 programs), two values on the switches; 626 812 states |
| `regfile` | `PortsAnticipateEdge`, `ZeroAfterReset`, `Interchangeable` | 3 registers of 2 values |
| `alu` | `NoErrors`, `BranchesDecidable` | width 4: all 16 operations on all pairs |
| `disassembler` | the text says everything (`EveryBitCounts`); compressed and pseudo-instructions mean what they stand for (`AlwaysExpanded`, `CompressedImmediates`, `ExpandsToItself`, `LiftKeepsOperands`); text and processor agree (`ShownIsExecuted`, `ExecutedIsShown`); offsets and immediates of the processor (`OffsetsInWords`, `ImmediatesWidened`) | 54 687 calls on real words, three instruction sets; 328 118 states |
| `harness` | a reset or load is one step to a fresh machine (`StartsOverAtOnce`, `FreshMachine`); `LoadersAgree`; `CyclesAreSpent`; `WindowInputsSeen`; `DisplayCatchesUp`, `TicksExecute` | 2-bit words, 4 addresses, 2 registers, files of up to 2 lines of 7 kinds and two full ones, 9 cycles; 976 654 states |
| `execute_loop` | `Settles`, `RestsOnSolution`, `OperationStands` | one instruction of each kind, 2-bit operands, every order |
| `sqrt` | `SearchAccurate`, `DigitsExact`, `DisplayFollowsSwitches` | 12-bit words, 15 numbers up to the square of the first step |
| `cpu_output`, `cpu_branch`, `cpu_csr`, `sqrt_range`, `sqrt_tolerance` | the findings of section 6 | as above; `sqrt_range` takes all numbers up to twice the square of the first step |

Why the bounds are enough:

* *Pipeline.*  Its depth is three and hazards involve two or three neighbouring instructions.
  All programs of four words contain every neighbourhood of the chosen
  instructions, wrapped around the end of memory as well.  Register 0, one destination and one
  bystander are all the registers a hazard can tell apart.  The proofs of section 5
  lift the result to every size.
* *ALU.*  Width 4 has two shift stages and all sign combinations; the
  operations treat all widths alike.
* *Disassembler and decoder.*  A field is a concatenation of single bits and a value is a
  sum of their weights: a crossed or lost bit shows on a word with one or two odd bits among
  equal ones.  The words are: up to three ones anywhere (`MaxOnes`); every compressed
  quadrant and `funct3`, with up to three odd bits among eleven zeros or ones (`MaxOdd`); every
  major opcode and `funct3` with one odd operand bit; and lists of field values that
  reach every leaf of the opcode tree and every constraint of a pseudo-instruction.
* *Simulators.*  `ResetCycles` = 5 is the code's own.  The two full files and the
  fragments of the others bring every pair of stages in front of a reset:
  a write, a jump, a display write and a read of the switches in flight.  Two values
  on the switches, the key held or not, and any order of callbacks.  Files of two lines
  show a stop before, in and behind a line, and memory left over behind a short file.
* *Program.*  The constants scale together: 12-bit words, 1.0 = 16 and a first step of 8
  stand in the same relation as 32 bits, 2^14 and 256 (`SqrtAssumption`), and 100/16
  is close to 100000/2^14.  The numbers include 0, squares, neighbours of squares and
  both ends of the range.

`alu` and `harness` switch the deadlock check off: the bench stops after its last vector,
the command line ends, and the window panics on an unreadable file.  No other run stops.

The exceptions `EveryBitCounts` names are the code's: fences with unused bits, `ret` (section 6),
two rounding modes that print as `inv`, and additions to `x0`.  The two words have to be of the same length:
`slli sp, sp, 36` and the compressed `c.slli sp, 36` are one bit apart and share a text, as they should
since they are the same instruction.

Each property has been seen to fail on a plausible mistake in the code; the
mistakes are the definitions marked `mutant` next to what they replace.

### Fairness

* `Cpu`: weak fairness of `Clock`.  The clock is an oscillator (`top.sv:67`).  Nobody is
  obliged to press or release the key, so `Progress` and `ResetTakesHold` assume the
  key to rest, up or down.
* `ExecuteLoop`: weak fairness of each block: combinational logic reacts to a
  changed input.
* `Harness`: weak fairness of the library's calls and of what their callers do next: they
  are straight-line code.  The user owes nothing; that she goes on ticking, and stops resetting or
  holding keys, are premises of `DisplayCatchesUp` and `TicksExecute`.
* `SqrtProgram`: weak fairness of `Program`, which is what `Progress` says of the
  processor.  Nobody has to touch the switches.

## 4. How the models fit together

```
SqrtProgram ....... assumes what Isa says of instructions
    Isa  <--- Cpu (refinement: RunsSequentially)
               |-- Controller, Regfile (instances)
               |-- Alu   : a constant operator; MCCpu passes Alu at width 2
               |-- wires : functions, justified by ExecuteLoop (WiresSettled)
               '-- offsets and immediates, justified by Decoder
    Isa, reset in one step  <--- Harness (refinement: StartsOverAtOnce)
               |-- Cpu, stepped by the library
               '-- callbacks, command line, ROM files
ProcessorView ..... Disassembler against Decoder and Controller, on the same word
```

The refinement mapping reads the sequential machine's registers as the storage
with the value in the write-back stage laid over it, and its PC as PC_EX, or as
PC_FETCH when the execute slot is squashed or empty.  `Isa` lets two things
show through: a reset drops the result of the instruction right before it, and
a machine step may do no more than settle that result.

Behind the library neither shows any more.  `StartsOverAtOnce` maps every state in which
a reset is under way to the fresh machine, so that the five clock edges of a reset are stutters
and the call itself is the step; the dropped or forwarded result of `Isa` is hidden
because `reset` runs enough cycles and zeroes the storage before.

## 5. Proofs

Each theorem holds for every value of the constants that satisfies the named assumptions of its
module; the table says what that ranges over.

| Theorem | For every | Statement |
|---|---|---|
| `CpuProofs!PipelineInvariant`, `TypeCorrect`, `ZeroRegisterStays`, `SlotIsInstructionAtPc`, `FetchRunsAhead`, `WiresAreSettled` | word size, memory size, register set, ALU, program set, `XResolves` | the invariants of run `cpu` |
| `CpuRefinement!PipelineImplementsIsa` | the same, `XResolves` = {0} | `Spec => RunsSequentially` |
| `CpuRefinement!OutputOnlyByCsrIfXIsZero` | the same, `XResolves` = {0} | `Spec => OutputOnlyByCsr` |
| `RegfileProofs!ZeroReadsZero`, `BypassAnticipatesEdge`, `RegfilesInterchangeable` | register and word sets | the properties of run `regfile` |
| `AluProofs!Comparisons`, `BranchesAreDecidable` | width | subtraction and comparisons; `[]BranchesDecidable` |
| `AluProofs!ArithmeticAsExpected`, `ArithmeticNeverFails` | width | sums, differences, products and comparisons are what the bench expects |
| `AluProofs!ResultsAreWords` | width | they and the logical shifts give words |
| `ExecuteLoopProofs!LoopRestsOnSolution`, `LoopKeepsOperation` | instructions, operands, ALU, left-over wires | `[]RestsOnSolution`, `OperationStands` |
| `ExecuteLoopProofs!SolutionRests` | the same | the solution is a resting state |
| `HarnessProofs!HarnessTypes`, `ResetIsComplete`, `CommandLineSpendsCycles`, `LoadersLoadTheSame` | the constants of `Cpu`, any files, switch values, `NCycles`, display base | `[]HarnessTypeOK`, `[]FreshMachine`, `[]CyclesAreSpent`, `[]LoadersAgree` |
| `HarnessProofs!TickSeesWindow` | the same | `HarnessSpec => WindowInputsSeen` |
| `HarnessProofs!SimulatorsStartOverAtOnce` | the same, `XResolves` = {0} | `HarnessSpec => StartsOverAtOnce` |
| `SqrtProofs!SearchIsAccurate` | fixed-point format, first step a power of two, inputs up to its square | `Spec => []SearchAccurate` |
| `SqrtProofs!DigitStepDivides` | word size and constant 1/10 | one conversion step is division by ten with remainder |
| `SqrtProofs!ConversionIsExact` | both of the above | `Spec => []DigitsExact` |
| `DisassemblerProofs!DisassemblerTypeOK`, `NoCompressedLeft`, `ImmediatesOfTables` | 32-bit word, in each of the three instruction sets | `[]TypeOK`, `[]AlwaysExpanded`, `[]CompressedImmediates` |
| `DisassemblerProofs!ExpansionsAreInstructions` | the same | `[]ExpandsToItself` |
| `DisassemblerProofs!LiftingKeepsOperands` | the same | `Spec => LiftKeepsOperands` |
| `DisassemblerProofs!TextIsExecuted`, `ExecutionIsInText` | 32-bit word as an instruction of rv32, any `X` | `[]ShownIsExecuted`, `[]ExecutedIsShown` |
| `DisassemblerProofs!JumpsInWords`, `WideningKeepsValues` | 32-bit word | `[]OffsetsInWords`, `[]ImmediatesWidened` |

**Pipeline.**  `PipelineInv` is inductive.  Its conjuncts need each other: a link is a
word of the right value only because the fetch follows the slot; register 0 stays 0 in the storage
because the write port never stores to it; PC_EX may be stale behind a reset because
`rd_WB` is 0 then.  The refinement proof has one lemma for what a read port
shows, one for what an edge stores, and one step per row of the control table.
Assumptions: those named in `Cpu` on sizes, values and the ALU (results are
words, SUB is 0 exactly for equal operands, SLT and SLTU give 0 or 1).  `Comparisons` proves the
last two of the real ALU at every width, and `ResultsAreWords` the first for all operations but five:
those that go bit by bit and the barrel shifter, which run `alu` checks at width 4.

**ALU.**  `SignedProduct` is the arithmetic behind `mulh`: reading a word as signed subtracts the modulus
once if its sign bit is set, so the signed product is the unsigned one but for multiples of the modulus; those
leave the lower half alone and come out of the upper half whole (`Multiples`).

`XResolves` = {0} is a premise, not an assumption of the module: it is the build a simulator
is, where an unspecified `gpio_we` does not write.  Without it `OutputOnlyByCsr` is false (finding 3),
and `OutputOnlyByCsrIfXIsZero` says that this signal is the only reason.

**Register files.**  `PairInv`: types; a reset that is pressed has cleared register 0; and the two storages
agree except on register 0 and on the registers whose write a reset has dropped.  The bypass adds the pending
write to both on the way out, so the reads agree where the storages do.  `PortsAnticipateEdge` includes the
edges in reset: there the ports show a write that the storage is not going to do, and only that one.

**Execute stage.**  The loop rests only on the solution since the two control signals the ALU depends
on are functions of the slot alone (`OperationIndependent`, by cases over the rows of the control table): the
multiplexer, then the ALU, then `zero`, then the controller must agree with it.  `SolutionRests` is the other
direction; together they justify that `Cpu` takes the wires as functions.  `WiresAreSettled` closes the
circle: in every reachable slot of the pipeline its wires are that resting state (`LoopControls` identifies
the two controllers; a row that gives the ALU nothing to do is no branch, `IdleAlu`).  That rest is reached
(`Settles`) is model-checked.  `SlotAssumption` says that operands and results are numbers.

**Simulators.**  `TickSeesWindow` rests on `InputsFollow`: during a tick the model's inputs
are the window's, and between callbacks the reset input is pressed only if the window shows
it so (it may be released behind the window's back, by a load).  `ResetIsComplete` rests on `Resetting`: while the library
resets, the reset input is down and the storage is all zeros, and from the first edge on the
pipeline is empty as well.  The second half alone is not inductive: the first edge of a
reset meets whatever was in flight, and only a register file in reset keeps it out.

The pipeline invariant holds in the library's hands too, with one exception (`HostPipelineInv`): a load
pokes the memory while an instruction of the old program is in the slot, so `SlotMatchesPc` fails until
the first edge of the reset that always follows (`Poked`).  `CyclesAreSpent` needs to know more than
how many cycles were useful: whether the slot is squashed right now (`Spent`), and that a squashed slot or the empty one behind a reset
asks for no stall, so that one that is executed follows (`IdleControls`).  `LoadersAgree` is about two functions that number lines
differently; the proof shows that up to the first comment or underscore both count the same ones, and
that the address of a line, the number of counting lines before it, is one-to-one (`BelowInjective`).

`SimulatorsStartOverAtOnce` maps the registers as in section 4.  Outside of a reset the mapping is that of
the processor, and `StepRefines` of `CpuRefinement` is used again (`SameMachine`, `SameStep`); inside, every
edge is a stutter, since the mapping hides the pipeline; and when the call returns, `Resetting` says that the
machine that comes into sight is the fresh one.

Assumptions: `LoadAssumption`, that whatever the files hold is a program the memory can hold;
and two that say what arithmetic is, because the prover knows no powers: `PowerAssumption` here and in
`Alu`, `RadixAssumption` in `SqrtProgram`.  TLC evaluates all of them on the instances.

**Search.**  The invariant is the one of a bisection, `Bracket(t1, 2 * t2)`.  It
needs to know where the guess can be (`PlaceInLoop`): as long as the guess
stays below the first step, its square fits, the two halves join without loss
(`FixedMulExact`) and the
signed comparison decides correctly.  An equality of truncated squares is close
enough only because the guess is not small.  `PowersOfTwo` is any set that is
closed under halving, of which the step is a member.

**Digits.**  The rounded 1/10 exceeds it by `excess`/(10 `WordMod`); a step is exact while
`x * excess < WordMod`.  In the code 10 * 429496730 = 2^32 + 4, so this means
x < 2^30, and the largest result is 25 600 000.  `ConversionInv` adds to `DigitsExact` what it needs from
outside: the result is no larger than the first step with all its decimals, which is where the search
comes in (its guess is at most the first step), and the digits made so far take up
no more than their places, so that appending one loses none.  The premises of the theorem are inequalities
between the constants; the code's and the instance's both satisfy them.

**Disassembler and decoder.**  Run `disassembler` looks at 54 687 calls; the theorems are about all
3 * 2^32.  `Calls` may be any set of words and instruction sets.  The inductive invariant is
`PassesInv`: between any two passes the record is what the passes so far make of the word
of this call, and of nothing else.  It leaves a question about a function of the word for each
property, and these are answered in layers, each with lemmas of its own:

1. *Fields.*  A field of a word is the same part of one of its halves or of both
   (`LowFieldsAre`, `MiddleFieldsAre`, `CutsJoin`), and a number joined from fields gives them back.  With this the decoder's
   slices, replications and concatenations become sums over the fields (`JumpsInWords`,
   `WideningKeepsValues`).
2. *Opcode tree.*  One lemma per major case says which operations its leaves are
   and, where a property needs it, under which fields each is reached.
3. *Table.*  `opcode_data` selects the row that names the operation; it is a function because
   no operation stands in two rows.  That one is an assumption
   (`OneRowAssumption`, about the 319 names of the table and no constant of the model);
   TLC evaluates it.
4. *Operands.*  The codec of a row gives the operands.  The fourteen immediates of the
   compressed formats are compared with the encoding tables bit by bit (`ImmediatesOfTables`).
5. *Expansion and lifting* rename the operation and change no operand.  A compressed operation is only
   reached for an instruction set in whose column it has an expansion (`NoCompressedLeft`).  For each of
   the pseudo-instructions the constraints give the operands that its text leaves out
   (`LiftingKeepsOperands`).
6. *Writing back.*  `ExpandsToItself` runs the passes a second time, on a word that is put together from
   the record.  A word assembled from fields gives them back (`AssembledFields`,
   `AssembledUpperFields`).  One lemma per format says that a record of plain operands, written in
   that format, is disassembled to itself (`ImmediatesWritten`, `ShiftsWritten`,
   `StoresWritten`, `BranchesWritten`, `RegistersWritten`, `UpperWritten`, `JumpsWritten`,
   `BreakWritten`), provided its immediate fits.  That it does is a bound on each of the compressed
   immediates (`CodecsRead`), and `KindOf` brings each expansion to its format.

`TextIsExecuted` and `ExecutionIsInText` meet in the middle: both the opcode tree and the
control table are functions of opcode, `funct3` and `funct7`, and for each implemented operation the
lemmas show the same fields on both sides.  Both are about words read as rv32, the set the simulators ask
for.  `ShownIsExecuted` compares all control signals of computations and CSR writes; of jumps and branches
it compares the operation, the next PC, the squash and (jumps) the link, since that a branch writes one
too is finding 1.

Only model-checked:

* Liveness, which is beyond the prover: `Progress`, `ResetTakesHold`, `Settles`,
  `DisplayFollowsSwitches`, `DisplayCatchesUp`, `TicksExecute`.
* `NoErrors` of the other operations: bitwise operations and shifts are compared with sums and folds over
  the bits, and what a fold computes at every width is an induction the prover cannot do.
* `EveryBitCounts`: it compares the texts of two words, that is every pair of leaves of the opcode tree a
  single bit apart; the lemmas are about one word at a time.  With `MaxOdd` = 5 the run takes all compressed
  words in all three instruction sets; it finds no error either, and needs about five minutes.

## 6. Where code and documents disagree

1. **Branches write a register** (`cpu_branch`).  All branch rows set
   `regwrite` (`controller.sv:74-89`).  The register is named by bits 11:7, part of the offset.
   `lab_jb/2021F_lab_jb/README.md:214` has a branch change the PC only.  `sqrt.asm` does not
   suffer: its first branch hits `s0` before it is used, the others `a2`.  In the run a `beq` with offset -1,
   whose bits read as `x1`, changes `x1`.
2. **Unknown CSRs read the switches** (`cpu_csr`).  `lab_jb_hsmith/README.md:607-608` asks for 0; the table
   (`controller.sv:157-159`) knows `0xf02` and takes every other address for the switches.  The same
   sentence asks for 0 when `io2` itself is read: there `regwrite` is 0 and the register keeps what it held,
   which the run leaves aside.
3. **A jump may change the displays** (`cpu_output`).  `gpio_we` is `x` for jumps
   (`controller.sv:59,65`) and gates `CPU_out`; a build may take it as 1.  In a build that takes it as 0
   nothing but a CSR write or a reset changes them (`OutputOnlyByCsrIfXIsZero`).
4. **Roots of numbers above 65536 are wrong** (`sqrt_range`).  The square of a guess of 363
   or more looks negative to `blt` (`sqrt.asm:31`).  A number from 65537 to 131071 is not negative itself;
   the guess 384, tried after 256, seems too small and the search runs away to 512: this is what the run
   shows, in its smaller words.  From 131072 on the number looks negative as well, the first guess
   goes down and the search ends below 0.  `lab_jb/README.md:226-228` asks for 0 .. 2^18 - 1.
5. **The last decimal can be off by 7** (`sqrt_tolerance`).  The search stops at 1/2^14
   (`sqrt.asm:38-42`); the root of 2 shows as 1.41424.
   `lab_jb/2021F_lab_jb/README.md:104-105` asks for 1/100000.

Seen on the way, and not made runs because no document of the repository says otherwise or
the difference is one of wording:

* `ret` is shown for every `jalr x0, ra`, whatever its offset: `rvcc_ret`
  (`riscv-disas.c:146`) does not ask for 0 as `rvcc_jr` does.
* `fmv`, `fneg` and `fabs` print `x` registers, and `blt`, `bge`, `bltu`, `bgeu`
  are never shown: `ble`, `bgt` and their kin have no constraint and always hold.
* `c.andi` with immediate 0, a legal instruction, becomes illegal (`riscv-disas.c:570`), and the hint flag
  of `c.addi` (`:563`) is never read.
* Shifts by 32 and more are shown for rv32, where they are illegal.
* The control table does not look at `funct3` of `jalr` and of system instructions
  (`controller.sv:63,154`): words shown as something else are executed as
  `jalr` and `csrrw` (an `ecall` writes a register, for one).  `ExecutedIsShown` names these two and says
  that there are no others.
* `support.cpp:37` announces three reset cycles, the code runs five.
* The command line ends a program at its first comment or underscore
  (`cli.cpp:19`); the window skips these and refuses junk.  `LoadersAgree` says how far the two
  agree nevertheless: up to there, and in the zeros behind.  `cli.cpp:21` has no bound on the address it writes.
* After a load all labels of the window, and after a reset the register table, keep what they showed
  until the next final tick.
* `reset` clears a register file without a reset input (`regfile32x32.sv`) once, before its clock
  edges: a write in flight lands afterwards.  The processor's own register file has one.

Harmless: `bin2dec.asm:16` adds `zero` to `t0` where it means to clear it; eight shifts by
four push the old value out.

## 7. Not modelled

* Of the disassembler: the spelling of register and CSR names, columns, the
  hexadecimal word in front and `inst_length`, which pass through no decision.
* Of the simulators: the cycle counter, LEDs, probes, the wave dump, the direction
  checks of `read_io` and `write_io` and `delay_us`, `delay_ms`.  Callbacks run one at a time: `gui.go`
  takes no lock and leaves that to the event loop of its window library, which is not part of `src/`.
  The glue around the translated processor is generated; that KEY bit 3 is the reset and the switches
  feed the GPIO input is taken from how `support.cpp` uses it.
  Files longer than the program memory are left out of `CliLoad`: what happens then is undefined.
* The processor without jumps: planned.
* `lab_vliw_hsmith`: has no behaviour, see section 1.
* `bin2dec.asm` on its own: its conversion is that of `sqrt.asm`.
* Board details (LEDs, unused pins), `$display`, scripts, generated files.
* Timing below a clock cycle other than in `ExecuteLoop`; metastability of the
  key and the switches.

## 8. Plan

Done: core pipeline with its refinement and proofs; register files; ALU; decoder;
execute loop; the square-root program; the simulators around the pipeline; the disassembler;
the proofs of every safety property but those listed at the end of section 5.

Next, in this order:

1. `CpuRiu`: the processor without jumps, whose table leaves whole rows `x`, the
   row of the zero word included.  Property: the same refinement with `Isa` for programs of known instructions.
2. The vector bench of the register file, `lab_jb/testbench/regfile_testtop.sv`, as a clocked machine.
3. `bin2dec.asm` from the switches to the displays, as an instance of the conversion in `SqrtProgram`.
