------------------------------ MODULE Harness -------------------------------
(***************************************************************************)
(* The processor inside its simulators: the support library that drives    *)
(* the translated model (lab_jb/support/support.cpp), the command-line     *)
(* simulator (cli.cpp) and the graphical one (gui.go).                     *)
(*                                                                         *)
(* The library runs the processor in three ways: it evaluates it, it lets  *)
(* the clock rise, and it pokes the program and register memories behind   *)
(* its back.  An input that is written takes effect at the next            *)
(* evaluation only.  The processor is Cpu.tla, whose steps are taken here  *)
(* when the library makes them happen; the top level students write around *)
(* it connects KEY[3] to the reset and the switches to the GPIO input.     *)
(*                                                                         *)
(* A ROM file is a sequence of lines, each standing for its kind and the   *)
(* words its digits spell.  The cycle counter, the LEDs, the probes and    *)
(* the wave dump are left out; the window runs one callback at a time.     *)
(***************************************************************************)
EXTENDS Cpu, FiniteSets, Sequences

CONSTANTS
    Files,              \* the ROM files there are
    NCycles,            \* second argument of the command-line simulator
    Base, Last          \* displays show digits of this base; the last one's number

(* A line is 8 hexadecimal digits ("word"), the same with a comment behind *)
(* ("noted") or an underscore inside ("split"), fewer digits ("short"),    *)
(* no digits ("junk"), a comment only or nothing.  Of a split line, head   *)
(* is the word that the digits before the underscore spell.                *)
Kinds == {"word", "noted", "split", "short", "junk", "comment", "blank"}
Line == [kind : Kinds, word : Instruction, head : Instruction]

ASSUME HarnessAssumption ==
    /\ \A f \in Files : f \in Seq(Line)
    /\ NCycles \in Nat
    /\ Base \in Nat \ {0}
    /\ Last \in Nat
    /\ WordMod = Base ^ (Last + 1)
    /\ 0 \in GpioIn

(* Arithmetic knows that powers are positive, the prover does not.         *)
ASSUME PowerAssumption == \A d \in 0 .. Last : Base ^ d \in Nat \ {0}

(* The memory can hold what the files can put there. *)
Loadable ==
    {ZeroInstruction} \cup
    UNION {UNION {{f[k].word, f[k].head} : k \in DOMAIN f} : f \in Files}

ASSUME LoadAssumption == [Pc -> Loadable] \subseteq Programs

VARIABLES
    KEY,                \* bit 3 of the model's KEY input
    SW,                 \* the model's SW input
    frontend,           \* the program around the library
    call,               \* the call or callback in progress, else what is waited for
    cycles,             \* clock cycles delay_cycles still has to run
    keys, switches,     \* the inputs as the window shows them
    reglabels,          \* the register table, in the window or printed
    hexlabels,          \* the displays in the window
    file,               \* auxiliary: the file loaded last
    executed            \* auxiliary: instructions executed for the command line

hostVars == <<KEY, SW, frontend, call, cycles, keys, switches, reglabels, hexlabels,
              file, executed>>
labels == <<reglabels, hexlabels>>
inputs == <<KEY, SW, keys, switches>>
harnessVars == <<vars, hostVars>>

-----------------------------------------------------------------------------
(* Reading a ROM file. *)

(* The graphical simulator takes every line or refuses the file. *)
LoadASCIIHexFails(lines) == \E k \in DOMAIN lines : lines[k].kind \in {"short", "junk"}

LoadASCIIHex(lines) ==
    [k \in {k \in DOMAIN lines : lines[k].kind \notin {"comment", "blank"}} |->
        lines[k].word]

(* fscanf takes one word after the other until it meets something that is  *)
(* no digit, which ends the program; blanks it skips.                      *)
Reached(lines, k) ==
    \A j \in DOMAIN lines : j < k => lines[j].kind \in {"word", "short", "blank"}

Scanned(lines) ==
    [k \in {k \in DOMAIN lines : /\ Reached(lines, k)
                                /\ lines[k].kind \in {"word", "noted", "split", "short"}} |->
        IF lines[k].kind = "split" THEN lines[k].head ELSE lines[k].word]

(* The words of these lines are written one after the other: to address a  *)
(* goes the word that has a words before it.                               *)
Address(words, k) == Cardinality({j \in DOMAIN words : j < k})

ImageUnpadded(words) ==             \* mutant: the rest of the memory is left alone
    [a \in Pc |-> IF \E k \in DOMAIN words : Address(words, k) = a
                   THEN words[CHOOSE k \in DOMAIN words : Address(words, k) = a]
                   ELSE inst_ram[a]]

(* The program memory once the words are written and the rest is zeroed.   *)
Image(words) ==
    [a \in Pc |-> IF \E k \in DOMAIN words : Address(words, k) = a
                   THEN words[CHOOSE k \in DOMAIN words : Address(words, k) = a]
                   ELSE ZeroInstruction]

-----------------------------------------------------------------------------
(* The library. *)

ResetCycles == 5

Zeros == [r \in Reg |-> 0]

(* reset() up to its delay, with another program in the memory: the        *)
(* registers are zeroed at once, the reset input waits for the clock.      *)
ResetForgetsKey(program, caller) == \* mutant: the key is not pressed
    /\ inst_ram' = program
    /\ mem' = Zeros
    /\ call' = caller
    /\ cycles' = ResetCycles
    /\ UNCHANGED <<rst_n, pipeline, KEY>>

Reset(program, caller) ==
    /\ inst_ram' = program
    /\ KEY' = 1
    /\ mem' = Zeros
    /\ call' = caller
    /\ cycles' = ResetCycles
    /\ UNCHANGED <<rst_n, pipeline>>

Delaying == cycles > 0

(* The first evaluation of a cycle: the processor sees the reset input.    *)
Settle ==
    /\ Delaying
    /\ \/ KEY = 1 /\ KeyPress
       \/ KEY = 0 /\ KeyRelease
    /\ UNCHANGED hostVars

(* The second one: the clock has risen.  The third sees it fall, to which  *)
(* nothing of the processor reacts.                                        *)
RisingClock ==
    /\ Delaying
    /\ rst_n = 1 - KEY
    /\ Clock
    /\ rst_n = 1 => GPIO_in_WB' = SW
    /\ cycles' = cycles - 1
    /\ executed' = IF call = "run" /\ Executing THEN executed + 1 ELSE executed
    /\ UNCHANGED <<frontend, call, inputs, labels, file>>

(* delay_cycles has run all cycles of the call, which goes on. *)
Returns(caller) == call = caller /\ ~ Delaying

HEX == [d \in 0 .. Last |-> (CPU_out \div Base ^ d) % Base]

(* The callbacks show display HEX0 as digit 7 and so on. *)
ShowHEXUnreversed == hexlabels' = HEX           \* mutant: straight

ShowHEX == hexlabels' = [d \in 0 .. Last |-> HEX[Last - d]]

-----------------------------------------------------------------------------
(* The command-line simulator: load, reset, run, print. *)

CliLoad ==
    /\ Returns("initialize")
    /\ frontend = "cli"
    /\ \E f \in Files :
          /\ Cardinality(DOMAIN Scanned(f)) <= PcMod    \* more are written out of bounds
          /\ Reset(Image(Scanned(f)), "boot")
          /\ file' = f
    /\ UNCHANGED <<SW, keys, switches, labels, frontend, executed>>

CliRunKeepsKey ==                   \* mutant: reset() ends without the key's release
    /\ Returns("boot")
    /\ frontend = "cli"
    /\ call' = "run"
    /\ cycles' = NCycles
    /\ UNCHANGED <<vars, inputs, labels, frontend, file, executed>>

CliRun ==
    /\ Returns("boot")
    /\ frontend = "cli"
    /\ KEY' = 0
    /\ call' = "run"
    /\ cycles' = NCycles
    /\ UNCHANGED <<vars, SW, keys, switches, labels, frontend, file, executed>>

CliPrint ==
    /\ Returns("run")
    /\ reglabels' = mem
    /\ call' = "done"
    /\ UNCHANGED <<vars, inputs, cycles, hexlabels, frontend, file, executed>>

-----------------------------------------------------------------------------
(* The graphical simulator: main, and the callbacks of the window. *)

(* The memory is zeroed, and a file named by an option is loaded. *)
GuiLoad ==
    /\ Returns("initialize")
    /\ frontend = "gui"
    /\ \E f \in Files \cup {<<>>} :
          /\ ~ LoadASCIIHexFails(f)
          /\ Reset(Image(LoadASCIIHex(f)), "boot")
          /\ file' = f
    /\ UNCHANGED <<SW, keys, switches, labels, frontend, executed>>

(* A file that cannot be read is a panic, and the process is gone. *)
GuiPanic ==
    /\ Returns("initialize")
    /\ frontend = "gui"
    /\ \E f \in Files : LoadASCIIHexFails(f)
    /\ call' = "done"
    /\ UNCHANGED <<vars, inputs, labels, cycles, frontend, file, executed>>

GuiStart ==
    /\ Returns("boot")
    /\ frontend = "gui"
    /\ KEY' = 0
    /\ reglabels' = mem
    /\ call' = "events"
    /\ UNCHANGED <<vars, SW, keys, switches, cycles, hexlabels, frontend, file, executed>>

Waiting == call = "events"

(* write_io() changes the input of the model and evaluates nothing. *)
OnKEY ==
    /\ Waiting
    /\ keys' = 1 - keys
    /\ KEY' = keys'
    /\ UNCHANGED <<vars, SW, switches, call, cycles, labels, frontend, file, executed>>

OnSW ==
    /\ Waiting
    /\ switches' \in GpioIn
    /\ SW' = switches'
    /\ UNCHANGED <<vars, KEY, keys, call, cycles, labels, frontend, file, executed>>

OnTickStaleInputs(which) ==         \* mutant: relies on OnKEY and OnSW
    /\ Waiting
    /\ call' = which
    /\ cycles' = 1
    /\ UNCHANGED <<vars, inputs, labels, frontend, file, executed>>

(* Of a row of ticks only the final one refreshes the labels. *)
OnTick(which) ==
    /\ Waiting
    /\ SW' = switches
    /\ KEY' = keys
    /\ call' = which
    /\ cycles' = 1
    /\ UNCHANGED <<vars, keys, switches, labels, frontend, file, executed>>

TickDone ==
    /\ Returns("tick")
    /\ call' = "events"
    /\ UNCHANGED <<vars, inputs, cycles, labels, frontend, file, executed>>

FinalTickDone ==
    /\ Returns("final tick")
    /\ reglabels' = mem
    /\ ShowHEX
    /\ call' = "events"
    /\ UNCHANGED <<vars, inputs, cycles, frontend, file, executed>>

OnReset ==
    /\ Waiting
    /\ Reset(inst_ram, "reset")
    /\ UNCHANGED <<SW, keys, switches, labels, frontend, file, executed>>

(* The window clears its keys and switches; the inputs follow at a tick. *)
ResetDone ==
    /\ Returns("reset")
    /\ KEY' = 0
    /\ ShowHEX
    /\ keys' = 0
    /\ switches' = 0
    /\ call' = "events"
    /\ UNCHANGED <<vars, SW, cycles, reglabels, frontend, file, executed>>

(* A dialog that is cancelled or names an unreadable file changes nothing. *)
loadRomDialog ==
    /\ Waiting
    /\ \E f \in Files :
          /\ ~ LoadASCIIHexFails(f)
          /\ Reset(Image(LoadASCIIHex(f)), "load")
          /\ file' = f
    /\ UNCHANGED <<SW, keys, switches, labels, frontend, executed>>

LoadDoneKeepsKey ==                 \* mutant: and so does this
    /\ Returns("load")
    /\ call' = "events"
    /\ UNCHANGED <<vars, inputs, cycles, labels, frontend, file, executed>>

LoadDone ==
    /\ Returns("load")
    /\ KEY' = 0
    /\ call' = "events"
    /\ UNCHANGED <<vars, SW, keys, switches, cycles, labels, frontend, file, executed>>

-----------------------------------------------------------------------------
(* Up to the first clock edge of the reset in initialize_simulation(),     *)
(* which has zeroed the registers before it.                               *)
HarnessInit ==
    /\ Init
    /\ mem = Zeros
    /\ KEY = 1
    /\ SW = 0
    /\ frontend \in {"cli", "gui"}
    /\ call = "initialize"
    /\ cycles = ResetCycles - 1
    /\ keys = 0
    /\ switches = 0
    /\ reglabels = Zeros
    /\ hexlabels = [d \in 0 .. Last |-> 0]
    /\ file = <<>>
    /\ executed = 0

Cli == CliLoad \/ CliRun \/ CliPrint

Callback == OnKEY \/ OnSW \/ OnTick("tick") \/ OnTick("final tick") \/ OnReset \/ loadRomDialog

Done == TickDone \/ FinalTickDone \/ ResetDone \/ LoadDone

Gui == GuiLoad \/ GuiPanic \/ GuiStart \/ Callback \/ Done

HarnessNext == Settle \/ RisingClock \/ Cli \/ Gui

(* A call of the library runs to its end, and its caller goes on then; the *)
(* user need not do anything.                                              *)
HarnessSpec ==
    /\ HarnessInit
    /\ [][HarnessNext]_harnessVars
    /\ WF_harnessVars(Settle \/ RisingClock \/ Cli \/ GuiLoad \/ GuiStart \/ Done)

-----------------------------------------------------------------------------
(* The simulators see a processor that executes one instruction after the  *)
(* other and now and then starts over: a reset, a load and the start-up    *)
(* are one step each, after which the new program begins with all          *)
(* registers and the displays 0.  Whatever the pipeline holds when the     *)
(* call begins leaves no trace, the write on its way to the register file  *)
(* that reset() has just zeroed included.                                  *)
StartingOver == call \in {"initialize", "boot", "reset", "load"}

AsIf(value, fresh) == IF StartingOver THEN fresh ELSE value

OneStepReset == INSTANCE Isa WITH
    rom <- inst_ram, pc <- AsIf(NextInstruction, 0), regs <- AsIf(Registers, Zeros),
    prev <- AsIf(mem, Zeros), out <- AsIf(CPU_out, 0), rst_n <- AsIf(rst_n, 0)

Machine == <<inst_ram, AsIf(NextInstruction, 0), AsIf(Registers, Zeros), AsIf(mem, Zeros),
             AsIf(CPU_out, 0), AsIf(rst_n, 0)>>

StartsOverAtOnce ==
    /\ OneStepReset!Init
    /\ [][OneStepReset!Next \/ (StartingOver' /\ OneStepReset!Init')]_Machine

-----------------------------------------------------------------------------
(* The inputs, the caller and what is shown are what they can be, and the  *)
(* reset input is never left pressed behind the window's back.             *)
HarnessTypeOK ==
    /\ KEY \in {0, 1}
    /\ SW \in GpioIn
    /\ keys \in {0, 1}
    /\ switches \in GpioIn
    /\ cycles \in 0 .. ResetCycles + NCycles
    /\ reglabels \in [Reg -> Word]
    /\ hexlabels \in [0 .. Last -> 0 .. Base - 1]
    /\ call = "events" => KEY <= keys

(* When reset() has run its cycles, the machine is that of the first day:  *)
(* the registers, with what may still be on its way to them, and the       *)
(* displays are 0, and the first word of the program is next.              *)
FreshMachine ==
    StartingOver /\ ~ Delaying =>
        Registers = Zeros /\ NextInstruction = 0 /\ CPU_out = 0

(* A file that the window does not refuse is the same program to both      *)
(* simulators up to the first comment or underscore, whatever the memory   *)
(* held before: its numbers one after the other and zeros behind the last. *)
(* The command line gets to this comment or underscore and no further; in  *)
(* front of an underscore it finds a number that is shorter.               *)
LoadersAgree ==
    LET numbers == {k \in DOMAIN file : file[k].kind \in {"word", "noted", "split"}}
        before(k) == Cardinality({j \in numbers : j < k})
        plain(j) == file[j].kind \in {"word", "blank"}
        taken == IF frontend = "gui" THEN numbers
                 ELSE {k \in numbers : \A j \in DOMAIN file : j < k => plain(j)}
        whole(k) == frontend = "gui" \/ file[k].kind # "split"
    IN  call \notin {"initialize", "done"} /\ ~ LoadASCIIHexFails(file) =>
          /\ \A k \in taken : whole(k) /\ before(k) < PcMod => inst_ram[before(k)] = file[k].word
          /\ \A a \in Pc : a >= Cardinality(taken) => inst_ram[a] = ZeroInstruction

(* The command line's cycles are spent on the program: the first fetches,  *)
(* and of the others no two in a row are lost to a jump.                   *)
CyclesAreSpent ==
    call = "run" => 2 * executed >= NCycles - cycles - 1

(* At the clock of a tick the processor sees the keys and switches as the  *)
(* window shows them, also when a load has released a key that is held or  *)
(* a reset has cleared them in the window only.                            *)
WindowInputsSeen ==
    [][cycles' # cycles /\ call \in {"tick", "final tick"} =>
          /\ rst_n = 1 - keys
          /\ rst_n = 1 => GPIO_in_WB' = switches]_harnessVars

(* Once the program's output rests, a user who goes on ticking ends up     *)
(* seeing it, HEX0 leftmost.                                               *)
DisplayCatchesUp ==
    []<>(call = "final tick") /\ <>[][CPU_out' = CPU_out]_CPU_out =>
        <>[](\A d \in 0 .. Last : hexlabels[Last - d] = HEX[d])

(* A user who goes on ticking, holds no key and neither resets nor loads   *)
(* any more makes the program go on.                                       *)
TicksExecute ==
    []<>(call = "final tick") /\ <>[](keys = 0 /\ ~ StartingOver) => []<>Executing
=============================================================================
