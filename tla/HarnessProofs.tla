---------------------------- MODULE HarnessProofs ----------------------------
(***************************************************************************)
(* Theorems about the simulators, for any processor size, ROM files and    *)
(* switch settings.  The last part shows that the processor in its         *)
(* simulators implements the sequential machine that starts over in one    *)
(* step, whatever the number of cycles and the order of callbacks, on a    *)
(* build in which an unspecified write enable does not write (Verilator).  *)
(***************************************************************************)
EXTENDS Harness, CpuRefinement, FiniteSetTheorems

Ticking == call \in {"tick", "final tick"}

(* During a tick the inputs of the model are the window's, and between two *)
(* callbacks the reset input is pressed only if the window shows it so.    *)
InputsFollow ==
    /\ KEY \in {0, 1}
    /\ keys \in {0, 1}
    /\ Ticking => KEY = keys /\ SW = switches
    /\ call = "events" => KEY <= keys

(* A callback that is over leaves the reset input released, or as shown.   *)
LEMMA BackToEvents ==
    ASSUME call' = "events", KEY' \in {0, 1}, keys' \in {0, 1}, KEY' = 0 \/ KEY' = keys'
    PROVE  InputsFollow'
<1>1. KEY' <= keys'
  OBVIOUS
<1>2. QED
  BY <1>1 DEF InputsFollow, Ticking

LEMMA InputsInit == HarnessInit => InputsFollow
  BY DEF HarnessInit, InputsFollow, Ticking

LEMMA LibraryKeepsInputs ==
    ASSUME InputsFollow, Settle \/ RisingClock
    PROVE  InputsFollow'
  BY DEF Settle, RisingClock, InputsFollow, Ticking, hostVars, inputs

LEMMA CliKeepsInputs ==
    ASSUME InputsFollow, Cli
    PROVE  InputsFollow'
<1>1. CASE CliLoad
  BY <1>1 DEF CliLoad, Reset, InputsFollow, Ticking
<1>2. CASE CliRun
  BY <1>2 DEF CliRun, InputsFollow, Ticking
<1>3. CASE CliPrint
  BY <1>3 DEF CliPrint, InputsFollow, Ticking, inputs
<1>4. QED
  BY <1>1, <1>2, <1>3 DEF Cli

LEMMA StartKeepsInputs ==
    ASSUME InputsFollow, GuiLoad \/ GuiPanic \/ GuiStart
    PROVE  InputsFollow'
<1>1. CASE GuiLoad
  BY <1>1 DEF GuiLoad, Reset, InputsFollow, Ticking
<1>2. CASE GuiPanic
  BY <1>2 DEF GuiPanic, InputsFollow, Ticking, inputs
<1>3. CASE GuiStart
  BY <1>3, BackToEvents DEF GuiStart, InputsFollow
<1>4. QED
  BY <1>1, <1>2, <1>3

LEMMA CallbackKeepsInputs ==
    ASSUME InputsFollow, Callback
    PROVE  InputsFollow'
<1>1. CASE OnKEY
  BY <1>1 DEF OnKEY, Waiting, InputsFollow, Ticking
<1>2. CASE OnSW
  BY <1>2 DEF OnSW, Waiting, InputsFollow, Ticking
<1>3. ASSUME NEW which \in {"tick", "final tick"}, OnTick(which)
      PROVE  InputsFollow'
  BY <1>3 DEF OnTick, InputsFollow, Ticking
<1>4. CASE OnReset
  BY <1>4 DEF OnReset, Reset, InputsFollow, Ticking
<1>5. CASE loadRomDialog
  BY <1>5 DEF loadRomDialog, Reset, InputsFollow, Ticking
<1>6. QED
  BY <1>1, <1>2, <1>3, <1>4, <1>5 DEF Callback

LEMMA DoneKeepsInputs ==
    ASSUME InputsFollow, Done
    PROVE  InputsFollow'
<1>1. CASE TickDone
  BY <1>1, BackToEvents DEF TickDone, Returns, InputsFollow, Ticking, inputs
<1>2. CASE FinalTickDone
  BY <1>2, BackToEvents DEF FinalTickDone, Returns, InputsFollow, Ticking, inputs
<1>3. CASE ResetDone
  BY <1>3, BackToEvents DEF ResetDone
<1>4. CASE LoadDone
  BY <1>4, BackToEvents DEF LoadDone, InputsFollow
<1>5. QED
  BY <1>1, <1>2, <1>3, <1>4 DEF Done

LEMMA InputsStep == InputsFollow /\ [HarnessNext]_harnessVars => InputsFollow'
<1> SUFFICES ASSUME InputsFollow, [HarnessNext]_harnessVars
             PROVE  InputsFollow'
  OBVIOUS
<1>1. CASE Settle \/ RisingClock
  BY <1>1, LibraryKeepsInputs
<1>2. CASE Cli
  BY <1>2, CliKeepsInputs
<1>3. CASE Gui
  BY <1>3, StartKeepsInputs, CallbackKeepsInputs, DoneKeepsInputs DEF Gui
<1>4. CASE UNCHANGED harnessVars
  BY <1>4 DEF harnessVars, hostVars, InputsFollow, Ticking
<1>5. QED
  BY <1>1, <1>2, <1>3, <1>4 DEF HarnessNext

(* Only the clock counts the cycles of a tick down. *)
LEMMA ClockCounts ==
    ASSUME [HarnessNext]_harnessVars, Ticking, cycles' # cycles
    PROVE  RisingClock
<1>1. ~ Settle
  BY DEF Settle, hostVars
<1>2. ~ Cli
  BY DEF Cli, CliLoad, CliRun, CliPrint, Returns, Ticking
<1>3. ~ (GuiLoad \/ GuiPanic \/ GuiStart)
  BY DEF GuiLoad, GuiPanic, GuiStart, Returns, Ticking
<1>4. ~ Callback
  BY DEF Callback, OnKEY, OnSW, OnTick, OnReset, loadRomDialog, Waiting, Ticking
<1>5. ~ Done
  BY DEF Done, TickDone, FinalTickDone, ResetDone, LoadDone
<1>6. ~ UNCHANGED harnessVars
  BY DEF harnessVars, hostVars
<1>7. QED
  BY <1>1, <1>2, <1>3, <1>4, <1>5, <1>6 DEF HarnessNext, Gui

(* At the clock of every tick the processor sees the keys and switches the *)
(* window shows, whatever loads and resets came between: the callbacks     *)
(* write both inputs before they let the clock run (gui.go OnTick).        *)
THEOREM TickSeesWindow == HarnessSpec => WindowInputsSeen
<1>1. InputsFollow /\ [HarnessNext]_harnessVars =>
        (cycles' # cycles /\ call \in {"tick", "final tick"} =>
            /\ rst_n = 1 - keys
            /\ rst_n = 1 => GPIO_in_WB' = switches)
  <2> SUFFICES ASSUME InputsFollow, [HarnessNext]_harnessVars,
                      cycles' # cycles, Ticking
               PROVE  /\ rst_n = 1 - keys
                      /\ rst_n = 1 => GPIO_in_WB' = switches
    BY DEF Ticking
  <2>1. RisingClock
    BY ClockCounts
  <2>2. KEY = keys /\ SW = switches
    BY DEF InputsFollow
  <2>3. rst_n = 1 - KEY /\ (rst_n = 1 => GPIO_in_WB' = SW)
    BY <2>1 DEF RisingClock
  <2>4. QED
    BY <2>2, <2>3
<1>2. QED
  BY <1>1, InputsInit, InputsStep, PTL DEF HarnessSpec, WindowInputsSeen

-----------------------------------------------------------------------------
(* While the library resets, the reset input stays pressed and the zeroed  *)
(* registers stay zero; the first clock edge empties the pipeline.         *)
Emptied ==
    /\ rst_n = 0
    /\ PC_FETCH = 0
    /\ stall_EX = 0
    /\ rd_WB = 0
    /\ CPU_out = 0
    /\ bubble = TRUE

Resetting ==
    StartingOver =>
        /\ KEY = 1
        /\ mem = Zeros
        /\ cycles \in 0 .. ResetCycles
        /\ cycles < ResetCycles => Emptied

LEMMA ZerosKept == [Zeros EXCEPT ![0] = 0] = Zeros
  BY RegAssumption DEF Zeros

LEMMA ResettingInit == HarnessInit => Resetting
  BY DEF HarnessInit, Init, Resetting, Emptied, ResetCycles

(* Every call that resets sets up the same. *)
LEMMA ResetSetsUp ==
    ASSUME NEW program, NEW caller, Reset(program, caller)
    PROVE  Resetting'
  BY DEF Reset, Resetting, ResetCycles

LEMMA SettleKeepsResetting ==
    ASSUME Resetting, Settle
    PROVE  Resetting'
<1> SUFFICES ASSUME StartingOver
             PROVE  Resetting'
  BY DEF Settle, hostVars, Resetting, StartingOver
<1>1. KEY = 1 /\ KeyPress
  BY DEF Resetting, Settle
<1>2. rst_n = 1 /\ mem' = Zeros
  BY <1>1, ZerosKept DEF KeyPress, Resetting
<1>3. cycles = ResetCycles
  BY <1>2 DEF Resetting, Emptied, ResetCycles
<1>4. QED
  BY <1>2, <1>3 DEF Settle, hostVars, Resetting, ResetCycles

LEMMA ClockKeepsResetting ==
    ASSUME Resetting, RisingClock
    PROVE  Resetting'
<1> SUFFICES ASSUME StartingOver
             PROVE  Resetting'
  BY DEF RisingClock, Resetting, StartingOver
<1>1. KEY = 1 /\ rst_n = 0
  BY DEF Resetting, RisingClock
<1>2. ClockReset
  BY <1>1 DEF RisingClock, Clock, ClockRun
<1>3. mem' = Zeros
  BY <1>1, <1>2, ZerosKept DEF ClockReset, rf!Edge, Resetting
<1>4. Emptied'
  BY <1>1, <1>2 DEF ClockReset, ResetFront, ResetBack, Emptied
<1>5. KEY' = 1 /\ cycles' \in 0 .. ResetCycles
  BY <1>1 DEF RisingClock, inputs, Resetting, Delaying, ResetCycles
<1>6. QED
  BY <1>3, <1>4, <1>5 DEF Resetting

LEMMA ResettingStep == Resetting /\ [HarnessNext]_harnessVars => Resetting'
<1> SUFFICES ASSUME Resetting, [HarnessNext]_harnessVars
             PROVE  Resetting'
  OBVIOUS
<1>1. CASE Settle
  BY <1>1, SettleKeepsResetting
<1>2. CASE RisingClock
  BY <1>2, ClockKeepsResetting
<1>3. CASE CliLoad \/ GuiLoad \/ OnReset \/ loadRomDialog
  BY <1>3, ResetSetsUp DEF CliLoad, GuiLoad, OnReset, loadRomDialog
<1>4. CASE CliRun \/ CliPrint \/ GuiPanic \/ GuiStart \/ Done
  BY <1>4 DEF CliRun, CliPrint, GuiPanic, GuiStart, Done, TickDone, FinalTickDone,
              ResetDone, LoadDone, Resetting, StartingOver
<1>5. CASE OnKEY \/ OnSW \/ OnTick("tick") \/ OnTick("final tick")
  BY <1>5 DEF OnKEY, OnSW, OnTick, Waiting, Resetting, StartingOver
<1>6. CASE UNCHANGED harnessVars
  BY <1>6 DEF harnessVars, vars, hostVars, Resetting, StartingOver, Emptied
<1>7. QED
  BY <1>1, <1>2, <1>3, <1>4, <1>5, <1>6 DEF HarnessNext, Cli, Gui, Callback

(* Five cycles are enough, and whatever the pipeline held when the library *)
(* began to reset is gone when it has: no write that was in flight lands   *)
(* in the zeroed registers (support.cpp reset).                            *)
THEOREM ResetIsComplete == HarnessSpec => []FreshMachine
<1>1. Resetting => FreshMachine
  <2> SUFFICES ASSUME Resetting, StartingOver, ~ Delaying
               PROVE  Registers = Zeros /\ NextInstruction = 0 /\ CPU_out = 0
    BY DEF FreshMachine
  <2>1. mem = Zeros /\ Emptied
    BY DEF Resetting, Delaying, ResetCycles
  <2>2. Registers = Zeros
    BY <2>1 DEF Registers, Zeros, Emptied
  <2>3. QED
    BY <2>1, <2>2 DEF NextInstruction, Emptied
<1>2. QED
  BY <1>1, ResettingInit, ResettingStep, PTL DEF HarnessSpec
-----------------------------------------------------------------------------
(* What a simulator puts into the program memory is a program. *)

LEMMA ImageType ==
    ASSUME NEW words, \A k \in DOMAIN words : words[k] \in Loadable
    PROVE  Image(words) \in Programs
<1>1. ASSUME NEW a \in Pc
      PROVE  Image(words)[a] \in Loadable
  BY DEF Image, Loadable
<1>2. Image(words) \in [Pc -> Loadable]
  BY <1>1 DEF Image
<1>3. QED
  BY <1>2, LoadAssumption

LEMMA LoadedType ==
    ASSUME NEW f \in Files \cup {<<>>}
    PROVE  Image(Scanned(f)) \in Programs /\ Image(LoadASCIIHex(f)) \in Programs
<1>1. \A k \in DOMAIN f : f[k].word \in Loadable /\ f[k].head \in Loadable
  BY DEF Loadable
<1>2. \A k \in DOMAIN Scanned(f) : Scanned(f)[k] \in Loadable
  BY <1>1 DEF Scanned
<1>3. \A k \in DOMAIN LoadASCIIHex(f) : LoadASCIIHex(f)[k] \in Loadable
  BY <1>1 DEF LoadASCIIHex
<1>4. QED
  BY <1>2, <1>3, ImageType

(* The pipeline invariant of Cpu.tla, in the library's hands: a load leaves *)
(* an instruction of the old program in the slot until the first edge of   *)
(* the reset that follows.                                                 *)
Poked == StartingOver /\ cycles = ResetCycles

HostPipelineInv ==
    /\ TypeOK
    /\ ZeroRegister
    /\ FetchFollowsSlot
    /\ Poked \/ SlotMatchesPc
    /\ inst_ram \in Programs

LEMMA HostInit == HarnessInit => HostPipelineInv
  BY InitInv DEF HarnessInit, Init, PipelineInv, HostPipelineInv

LEMMA SettleKeepsPipeline ==
    ASSUME HostPipelineInv, Settle
    PROVE  HostPipelineInv'
<1>1. KeyPress \/ KeyRelease
  BY DEF Settle
<1>2. /\ TypeOK' /\ ZeroRegister' /\ FetchFollowsSlot'
      /\ SlotMatchesPc => SlotMatchesPc'
  BY <1>1, KeyKeeps DEF HostPipelineInv
<1>3. inst_ram' = inst_ram
  BY <1>1 DEF KeyPress, KeyRelease
<1>4. Poked' <=> Poked
  BY DEF Settle, hostVars, Poked, StartingOver
<1>5. QED
  BY <1>2, <1>3, <1>4 DEF HostPipelineInv

LEMMA ClockKeepsPipeline ==
    ASSUME HostPipelineInv, Resetting, RisingClock
    PROVE  HostPipelineInv' /\ PipelineInv'
<1>1. Clock /\ inst_ram' = inst_ram
  BY DEF RisingClock, Clock, ClockReset, ClockRun
<1>2. CASE ClockReset
  BY <1>1, <1>2, ResetInv DEF HostPipelineInv, PipelineInv
<1>3. CASE ClockRun
  <2>1. ~ StartingOver
    BY <1>3 DEF ClockRun, RisingClock, Resetting
  <2>2. PipelineInv
    BY <2>1 DEF HostPipelineInv, PipelineInv, Poked
  <2>3. QED
    BY <1>1, <1>3, <2>2, RunInv DEF HostPipelineInv, PipelineInv
<1>4. QED
  BY <1>1, <1>2, <1>3 DEF Clock

LEMMA ResetKeepsPipeline ==
    ASSUME HostPipelineInv, NEW program \in Programs,
           NEW caller \in {"boot", "reset", "load"}, Reset(program, caller)
    PROVE  HostPipelineInv'
<1>1. program \in [Pc -> Instruction]
  BY ValueAssumption
<1>2. Zeros \in [Reg -> Word] /\ Zeros[0] = 0
  BY PcIsWord, RegAssumption DEF Zeros
<1>3. writedata_WB' = writedata_WB
  BY DEF Reset, pipeline, writedata_WB
<1>4. TypeOK' /\ ZeroRegister' /\ FetchFollowsSlot'
  BY <1>1, <1>2, <1>3
     DEF Reset, pipeline, HostPipelineInv, TypeOK, ZeroRegister, FetchFollowsSlot
<1>5. Poked'
  BY DEF Reset, Poked, StartingOver
<1>6. QED
  BY <1>4, <1>5 DEF HostPipelineInv, Reset

LEMMA SameProcessor ==
    ASSUME HostPipelineInv, UNCHANGED vars, ~ Poked \/ Poked'
    PROVE  HostPipelineInv'
<1>1. writedata_WB' = writedata_WB
  BY DEF vars, writedata_WB
<1>2. QED
  BY <1>1 DEF vars, HostPipelineInv, TypeOK, ZeroRegister, FetchFollowsSlot, SlotMatchesPc

LEMMA HostStep == HostPipelineInv /\ Resetting /\ [HarnessNext]_harnessVars => HostPipelineInv'
<1> SUFFICES ASSUME HostPipelineInv, Resetting, [HarnessNext]_harnessVars
             PROVE  HostPipelineInv'
  OBVIOUS
<1>1. CASE Settle \/ RisingClock
  BY <1>1, SettleKeepsPipeline, ClockKeepsPipeline
<1>2. CASE CliLoad \/ GuiLoad \/ OnReset \/ loadRomDialog
  <2>1. inst_ram \in Programs
    BY DEF HostPipelineInv
  <2>2. \E program \in Programs, caller \in {"boot", "reset", "load"} : Reset(program, caller)
    BY <1>2, <2>1, LoadedType DEF CliLoad, GuiLoad, OnReset, loadRomDialog
  <2>3. QED
    BY <2>2, ResetKeepsPipeline
<1>3. CASE CliRun \/ CliPrint \/ GuiPanic \/ GuiStart \/ Done
  <2>1. ~ Delaying /\ UNCHANGED vars
    BY <1>3 DEF CliRun, CliPrint, GuiPanic, GuiStart, Done, TickDone, FinalTickDone,
                ResetDone, LoadDone, Returns
  <2>2. ~ Poked
    BY <2>1 DEF Delaying, Poked, ResetCycles
  <2>3. QED
    BY <2>1, <2>2, SameProcessor
<1>4. CASE OnKEY \/ OnSW \/ OnTick("tick") \/ OnTick("final tick")
  <2>1. ~ Poked /\ UNCHANGED vars
    BY <1>4 DEF OnKEY, OnSW, OnTick, Waiting, Poked, StartingOver
  <2>2. QED
    BY <2>1, SameProcessor
<1>5. CASE UNCHANGED harnessVars
  <2>1. UNCHANGED vars /\ (Poked' <=> Poked)
    BY <1>5 DEF harnessVars, hostVars, Poked, StartingOver
  <2>2. QED
    BY <2>1, SameProcessor
<1>6. QED
  BY <1>1, <1>2, <1>3, <1>4, <1>5 DEF HarnessNext, Cli, Gui, Callback

LEMMA HostInvariant == HarnessSpec => [](HostPipelineInv /\ Resetting)
  BY HostInit, HostStep, ResettingInit, ResettingStep, PTL DEF HarnessSpec

-----------------------------------------------------------------------------
(* The inputs and what is shown are what they can be.                      *)
ShownOK ==
    /\ SW \in GpioIn
    /\ switches \in GpioIn
    /\ cycles \in 0 .. ResetCycles + NCycles
    /\ reglabels \in [Reg -> Word]
    /\ hexlabels \in [0 .. Last -> 0 .. Base - 1]

LEMMA DigitType ==
    ASSUME TypeOK, NEW d \in 0 .. Last
    PROVE  HEX[d] \in 0 .. Base - 1
<1>1. CPU_out \in Nat
  BY SizeAssumption DEF TypeOK, Word
<1>2. Base ^ d \in Nat \ {0} /\ Base \in Nat \ {0}
  BY PowerAssumption, HarnessAssumption
<1> DEFINE b == Base ^ d
<1>3. b \in Nat \ {0}
  BY <1>2
<1>4. HEX[d] = (CPU_out \div b) % Base
  BY DEF HEX
<1> HIDE DEF b
<1>5. CPU_out \div b \in Nat
  BY <1>1, <1>3
<1>6. QED
  BY <1>2, <1>4, <1>5

LEMMA ShownDigitsType ==
    ASSUME TypeOK, ShowHEX
    PROVE  hexlabels' \in [0 .. Last -> 0 .. Base - 1]
<1>1. ASSUME NEW d \in 0 .. Last
      PROVE  HEX[Last - d] \in 0 .. Base - 1
  <2>1. Last - d \in 0 .. Last
    BY HarnessAssumption
  <2>2. QED
    BY <2>1, DigitType
<1>2. QED
  BY <1>1 DEF ShowHEX

LEMMA ShownInit == HarnessInit => ShownOK
<1> SUFFICES ASSUME HarnessInit PROVE ShownOK
  OBVIOUS
<1>1. Zeros \in [Reg -> Word]
  BY PcIsWord DEF Zeros
<1>2. QED
  BY <1>1, HarnessAssumption DEF HarnessInit, ShownOK, ResetCycles

LEMMA ShownStep == ShownOK /\ TypeOK /\ [HarnessNext]_harnessVars => ShownOK'
<1> SUFFICES ASSUME ShownOK, TypeOK, [HarnessNext]_harnessVars
             PROVE  ShownOK'
  OBVIOUS
<1>1. CASE Settle \/ UNCHANGED harnessVars
  BY <1>1 DEF Settle, harnessVars, hostVars, ShownOK
<1>2. CASE RisingClock
  BY <1>2, HarnessAssumption DEF RisingClock, Delaying, inputs, labels, ShownOK, ResetCycles
<1>3. CASE CliLoad \/ GuiLoad \/ OnReset \/ loadRomDialog
  BY <1>3, HarnessAssumption
     DEF CliLoad, GuiLoad, OnReset, loadRomDialog, Reset, labels, ShownOK, ResetCycles
<1>4. CASE CliRun \/ GuiPanic
  <2>1. NCycles \in 0 .. ResetCycles + NCycles
    BY HarnessAssumption DEF ResetCycles
  <2>2. QED
    BY <1>4, <2>1 DEF CliRun, GuiPanic, inputs, labels, ShownOK
<1>5. CASE OnKEY \/ OnSW \/ OnTick("tick") \/ OnTick("final tick")
  <2>1. 1 \in 0 .. ResetCycles + NCycles
    BY HarnessAssumption DEF ResetCycles
  <2>2. QED
    BY <1>5, <2>1 DEF OnKEY, OnSW, OnTick, labels, ShownOK
<1>6. CASE CliPrint \/ GuiStart \/ TickDone \/ LoadDone
  BY <1>6 DEF CliPrint, GuiStart, TickDone, LoadDone, inputs, labels, ShownOK, TypeOK
<1>7. CASE FinalTickDone \/ ResetDone
  BY <1>7, ShownDigitsType, HarnessAssumption
     DEF FinalTickDone, ResetDone, inputs, ShownOK, TypeOK
<1>8. QED
  BY <1>1, <1>2, <1>3, <1>4, <1>5, <1>6, <1>7 DEF HarnessNext, Cli, Gui, Callback, Done

(* The inputs of the model, the cycles left, the register table and the    *)
(* displays in the window stay in their ranges, and no call returns to the *)
(* window with the reset input pressed that the window shows released.     *)
THEOREM HarnessTypes == HarnessSpec => []HarnessTypeOK
<1>1. InputsFollow /\ ShownOK => HarnessTypeOK
  BY DEF InputsFollow, ShownOK, HarnessTypeOK
<1>2. HostPipelineInv => TypeOK
  BY DEF HostPipelineInv
<1>3. HarnessSpec => []ShownOK
  BY <1>2, ShownInit, ShownStep, HostInvariant, PTL DEF HarnessSpec
<1>4. HarnessSpec => []InputsFollow
  BY InputsInit, InputsStep, PTL DEF HarnessSpec
<1>5. QED
  BY <1>1, <1>3, <1>4, PTL

-----------------------------------------------------------------------------
(* The command line counts: nothing is executed before the run, its first  *)
(* cycle fetches, and a squashed slot is paid for by the jump before it.   *)
Spent ==
    /\ executed \in Nat
    /\ cycles \in Nat
    /\ call \notin {"run", "done"} => executed = 0
    /\ call = "run" =>
          /\ KEY = 0
          /\ bubble => executed = 0 /\ cycles = NCycles
          /\ ~ bubble => 2 * executed >= NCycles - cycles - 1 + stall_EX

LEMMA SpentInit == HarnessInit => Spent
  BY DEF HarnessInit, Spent, ResetCycles

LEMMA ClockSpends ==
    ASSUME Spent, HostPipelineInv, RisingClock
    PROVE  Spent'
<1>1. cycles \in Nat \ {0} /\ cycles' = cycles - 1 /\ call' = call /\ KEY' = KEY
  BY DEF Spent, RisingClock, Delaying, inputs
<1>2. CASE call # "run"
  BY <1>1, <1>2 DEF Spent, RisingClock
<1>3. CASE call = "run"
  <2>1. ClockRun /\ rst_n = 1 /\ ~ bubble'
    BY <1>3 DEF Spent, RisingClock, Clock, ClockReset, ClockRun, RunFront
  <2>2. stall_EX \in {0, 1} /\ instruction_EX \in Instruction /\ SlotMatchesPc
    BY <1>3 DEF HostPipelineInv, TypeOK, Poked, StartingOver
  <2>3. stall_EX' = controls.stall /\ stall_EX' \in {0, 1}
    BY <2>1, <2>2, ControlsType DEF ClockRun, RunFront, controls, ControlSignals
  <2>4. stall_EX = 1 \/ bubble => stall_EX' = 0
    BY <2>2, <2>3, IdleControls DEF C!Nothing, C!Row
  <2>5. executed' = IF stall_EX = 0 /\ ~ bubble THEN executed + 1 ELSE executed
    BY <1>3, <2>1 DEF RisingClock, Executing
  <2>6. CASE bubble
    BY <1>1, <1>3, <2>1, <2>4, <2>5, <2>6, HarnessAssumption DEF Spent
  <2>7. CASE ~ bubble
    BY <1>1, <1>3, <2>1, <2>2, <2>3, <2>4, <2>5, <2>7, HarnessAssumption DEF Spent
  <2>8. QED
    BY <2>6, <2>7
<1>4. QED
  BY <1>2, <1>3

LEMMA SpentStep ==
    Spent /\ HostPipelineInv /\ Resetting /\ [HarnessNext]_harnessVars => Spent'
<1> SUFFICES ASSUME Spent, HostPipelineInv, Resetting, [HarnessNext]_harnessVars
             PROVE  Spent'
  OBVIOUS
<1>1. CASE Settle
  BY <1>1 DEF Settle, KeyPress, KeyRelease, pipeline, hostVars, Spent
<1>2. CASE RisingClock
  BY <1>2, ClockSpends
<1>3. CASE CliRun
  <2>1. bubble /\ executed = 0
    BY <1>3 DEF CliRun, Returns, Delaying, ResetCycles, Resetting, StartingOver, Emptied, Spent
  <2>2. bubble' /\ executed' = 0 /\ cycles' = NCycles /\ KEY' = 0 /\ call' = "run"
    BY <1>3, <2>1 DEF CliRun, vars
  <2>3. NCycles \in Nat
    BY HarnessAssumption
  <2>4. QED
    BY <2>2, <2>3 DEF Spent
<1>4. CASE CliLoad \/ GuiLoad \/ OnReset \/ loadRomDialog
  BY <1>4 DEF CliLoad, GuiLoad, OnReset, loadRomDialog, Reset, Returns, Waiting, Spent,
              ResetCycles
<1>5. CASE CliPrint \/ GuiPanic \/ GuiStart \/ Done
  BY <1>5 DEF CliPrint, GuiPanic, GuiStart, Done, TickDone, FinalTickDone, ResetDone, LoadDone,
              Returns, Spent
<1>6. CASE OnKEY \/ OnSW \/ OnTick("tick") \/ OnTick("final tick")
  <2>1. call = "events" /\ executed = 0
    BY <1>6 DEF OnKEY, OnSW, OnTick, Waiting, Spent
  <2>2. executed' = 0 /\ cycles' \in Nat
    <3>1. CASE OnKEY \/ OnSW
      BY <2>1, <3>1 DEF OnKEY, OnSW, Spent
    <3>2. CASE OnTick("tick") \/ OnTick("final tick")
      <4>1. cycles' = 1
        BY <3>2 DEF OnTick
      <4>2. executed' = executed
        BY <3>2 DEF OnTick
      <4>3. QED
        BY <2>1, <4>1, <4>2
    <3>3. QED
      BY <1>6, <3>1, <3>2
  <2>3. call' # "run"
    BY <1>6, <2>1 DEF OnKEY, OnSW, OnTick
  <2>4. QED
    BY <2>2, <2>3 DEF Spent
<1>7. CASE UNCHANGED harnessVars
  BY <1>7 DEF harnessVars, vars, hostVars, Spent
<1>8. QED
  BY <1>1, <1>2, <1>3, <1>4, <1>5, <1>6, <1>7 DEF HarnessNext, Cli, Gui, Callback

(* Of the cycles the command line asks for, all but the first execute an   *)
(* instruction or follow one that does (cli.cpp:35): for any program, no   *)
(* two cycles in a row are lost, and none of them to the reset before.     *)
THEOREM CommandLineSpendsCycles == HarnessSpec => []CyclesAreSpent
<1>1. Spent /\ HostPipelineInv => CyclesAreSpent
  <2> SUFFICES ASSUME Spent, HostPipelineInv, call = "run"
               PROVE  2 * executed >= NCycles - cycles - 1
    BY DEF CyclesAreSpent
  <2>1. stall_EX \in {0, 1}
    BY DEF HostPipelineInv, TypeOK
  <2>2. QED
    BY <2>1, HarnessAssumption DEF Spent
<1>2. QED
  BY <1>1, SpentInit, SpentStep, HostInvariant, PTL DEF HarnessSpec

-----------------------------------------------------------------------------
(* Where the words of a file go. *)

LEMMA LinesFinite ==
    ASSUME NEW f \in Files \cup {<<>>}, NEW S \in SUBSET DOMAIN f
    PROVE  IsFiniteSet(S) /\ S \subseteq Nat
<1>1. f \in Seq(Line)
  <2>1. CASE f \in Files
    BY <2>1, HarnessAssumption
  <2>2. CASE f = <<>>
    BY <2>2
  <2>3. QED
    BY <2>1, <2>2
<1>2. DOMAIN f = 1 .. Len(f) /\ Len(f) \in Nat
  BY <1>1
<1>3. IsFiniteSet(1 .. Len(f))
  BY <1>2, FS_Interval
<1>4. QED
  BY <1>2, <1>3, FS_Subset

Below(S, k) == {j \in S : j < k}

(* Among finitely many numbers, the more the greater one has below it, and *)
(* none as many as there are.                                              *)
LEMMA BelowLess ==
    ASSUME NEW S, IsFiniteSet(S), NEW T \in SUBSET S, NEW k \in S, k \notin T
    PROVE  Cardinality(T) \in Nat /\ Cardinality(S) \in Nat /\ Cardinality(T) < Cardinality(S)
  BY FS_Subset, FS_CardinalityType

LEMMA BelowInjective ==
    ASSUME NEW S \in SUBSET Nat, IsFiniteSet(S), NEW k \in S, NEW m \in S,
           Cardinality(Below(S, k)) = Cardinality(Below(S, m))
    PROVE  k = m
<1>1. ASSUME NEW x \in S, NEW y \in S, x < y
      PROVE  Cardinality(Below(S, x)) # Cardinality(Below(S, y))
  <2>1. Below(S, x) \subseteq Below(S, y) /\ x \in Below(S, y) /\ x \notin Below(S, x)
    <3>1. x \in Nat /\ y \in Nat /\ x < y
      BY <1>1
    <3>2. ASSUME NEW j \in Below(S, x)
          PROVE  j \in Below(S, y)
      <4>1. j \in S /\ j \in Nat /\ j < x
        BY DEF Below
      <4>2. j < y
        BY <3>1, <4>1
      <4>3. QED
        BY <4>1, <4>2 DEF Below
    <3>3. ~ (x < x)
      BY <3>1
    <3>4. QED
      BY <3>1, <3>2, <3>3 DEF Below
  <2>2. IsFiniteSet(Below(S, y))
    BY FS_Subset DEF Below
  <2>3. /\ Cardinality(Below(S, x)) \in Nat /\ Cardinality(Below(S, y)) \in Nat
        /\ Cardinality(Below(S, x)) < Cardinality(Below(S, y))
    BY <2>1, <2>2, BelowLess
  <2>4. QED
    BY <2>3
<1>2. ~ (k < m) /\ ~ (m < k)
  BY <1>1
<1>3. QED
  BY <1>2

(* What a program memory holds after a load: each word behind the words    *)
(* before it, and zeros behind them all.                                   *)
LEMMA ImageHolds ==
    ASSUME NEW f \in Files \cup {<<>>}, NEW words, DOMAIN words \subseteq DOMAIN f
    PROVE  LET before(k) == Cardinality(Below(DOMAIN words, k))
           IN  /\ \A k \in DOMAIN words : before(k) < PcMod => Image(words)[before(k)] = words[k]
               /\ \A a \in Pc : a >= Cardinality(DOMAIN words) =>
                      Image(words)[a] = ZeroInstruction
<1> DEFINE S == DOMAIN words
<1>1. IsFiniteSet(S) /\ S \subseteq Nat
  BY LinesFinite
<1>2. \A k \in S : Address(words, k) = Cardinality(Below(S, k))
  BY DEF Address, Below
<1>3. ASSUME NEW k \in S
      PROVE  /\ Cardinality(Below(S, k)) \in Nat /\ Cardinality(S) \in Nat
             /\ Cardinality(Below(S, k)) < Cardinality(S)
  <2>1. Below(S, k) \subseteq S /\ k \notin Below(S, k)
    BY <1>1 DEF Below
  <2>2. QED
    BY <1>1, <2>1, BelowLess
<1>4. ASSUME NEW k \in S, Cardinality(Below(S, k)) < PcMod
      PROVE  Image(words)[Cardinality(Below(S, k))] = words[k]
  <2> DEFINE a == Cardinality(Below(S, k))
             m == CHOOSE m \in S : Address(words, m) = a
  <2>1. a \in Pc
    BY <1>3, <1>4, SizeAssumption DEF Pc
  <2>2. Address(words, k) = a
    BY <1>2
  <2>3. m \in S /\ Address(words, m) = a
    BY <2>2
  <2>4. Image(words)[a] = words[m]
    BY <2>1, <2>2 DEF Image
  <2> HIDE DEF a, m
  <2>5. m = k
    BY <1>1, <1>2, <2>2, <2>3, BelowInjective
  <2>6. QED
    BY <2>4, <2>5 DEF a
<1>5. ASSUME NEW a \in Pc, a >= Cardinality(S)
      PROVE  Image(words)[a] = ZeroInstruction
  <2>1. ~ \E k \in S : Address(words, k) = a
    BY <1>2, <1>3, <1>5, SizeAssumption DEF Pc
  <2>2. QED
    BY <2>1 DEF Image
<1>6. QED
  BY <1>4, <1>5

(* Once a file is loaded, its words stay in the program memory. *)
LoadedImage ==
    call \notin {"initialize", "done"} =>
        /\ file \in Files \cup {<<>>}
        /\ call \in {"boot", "run"} \/ frontend = "gui"
        /\ \/ frontend = "cli" /\ inst_ram = Image(Scanned(file))
           \/ frontend = "gui" /\ inst_ram = Image(LoadASCIIHex(file))

LEMMA LoadedStep == LoadedImage /\ [HarnessNext]_harnessVars => LoadedImage'
<1> SUFFICES ASSUME LoadedImage, [HarnessNext]_harnessVars
             PROVE  LoadedImage'
  OBVIOUS
<1>1. CASE Settle \/ RisingClock
  <2>1. UNCHANGED <<inst_ram, file, call, frontend>>
    BY <1>1 DEF Settle, RisingClock, KeyPress, KeyRelease, Clock, ClockReset, ClockRun, hostVars
  <2>2. QED
    BY <2>1 DEF LoadedImage
<1>2. CASE CliLoad
  BY <1>2 DEF CliLoad, Reset, LoadedImage
<1>3. CASE GuiLoad \/ loadRomDialog
  BY <1>3 DEF GuiLoad, loadRomDialog, Waiting, Reset, LoadedImage
<1>4. CASE CliRun \/ CliPrint \/ GuiPanic \/ GuiStart \/ (Callback /\ ~ loadRomDialog) \/ Done
  <2>1. UNCHANGED <<inst_ram, file, frontend>>
    BY <1>4 DEF CliRun, CliPrint, GuiPanic, GuiStart, Callback, OnKEY, OnSW, OnTick, OnReset,
                Reset, Done, TickDone, FinalTickDone, ResetDone, LoadDone, vars
  <2>2. /\ call' = "done" \/ call \notin {"initialize", "done"}
        /\ call' \in {"boot", "run", "done"} \/ frontend = "gui" \/ call \notin {"boot", "run"}
    BY <1>4 DEF CliRun, CliPrint, GuiPanic, GuiStart, Callback, OnKEY, OnSW, OnTick, OnReset,
                Done, TickDone, FinalTickDone, ResetDone, LoadDone, Returns, Waiting
  <2>3. QED
    BY <2>1, <2>2 DEF LoadedImage
<1>5. CASE UNCHANGED harnessVars
  BY <1>5 DEF harnessVars, vars, hostVars, LoadedImage
<1>6. QED
  BY <1>1, <1>2, <1>3, <1>4, <1>5 DEF HarnessNext, Cli, Gui, Callback

(* Up to its first comment or underscore cli.cpp and gui.go load the same  *)
(* program from a file, however many lines it has and whatever the memory  *)
(* held: the two functions number the lines differently, but give the same *)
(* address to each that both of them count.                                *)
THEOREM LoadersLoadTheSame == HarnessSpec => []LoadersAgree
<1> DEFINE numbers == {k \in DOMAIN file : file[k].kind \in {"word", "noted", "split"}}
           plain(j) == file[j].kind \in {"word", "blank"}
           taken == IF frontend = "gui" THEN numbers
                    ELSE {k \in numbers : \A j \in DOMAIN file : j < k => plain(j)}
           words == IF frontend = "gui" THEN LoadASCIIHex(file) ELSE Scanned(file)
<1>1. LoadedImage => LoadersAgree
  <2> SUFFICES ASSUME LoadedImage, call \notin {"initialize", "done"},
                      ~ LoadASCIIHexFails(file)
               PROVE  /\ \A k \in taken :
                            /\ frontend = "gui" \/ file[k].kind # "split"
                            /\ Cardinality(Below(numbers, k)) < PcMod
                            => inst_ram[Cardinality(Below(numbers, k))] = file[k].word
                      /\ \A a \in Pc : a >= Cardinality(taken) => inst_ram[a] = ZeroInstruction
    BY DEF LoadersAgree, Below
  <2>1. /\ file \in Files \cup {<<>>}
        /\ inst_ram = Image(words)
        /\ frontend \in {"cli", "gui"}
    BY DEF LoadedImage
  <2>2. \A k \in DOMAIN file : file[k].kind \in Kinds \ {"short", "junk"}
    <3>1. file \in Seq(Line)
      <4>1. <<>> \in Seq(Line)
        OBVIOUS
      <4>2. \A f \in Files : f \in Seq(Line)
        BY HarnessAssumption
      <4> QED BY <2>1, <4>1, <4>2
    <3>2. ASSUME NEW k \in DOMAIN file
          PROVE  file[k].kind \in Kinds
      <4>1. file[k] \in Line
        BY <3>1
      <4> QED BY <4>1 DEF Line
    <3> QED BY <3>2 DEF LoadASCIIHexFails
  <2>3. DOMAIN words = taken
    <3>1. CASE frontend = "gui"
      BY <2>2, <3>1 DEF LoadASCIIHex, Kinds
    <3>2. CASE frontend = "cli"
      <4>1. \A k \in DOMAIN file :
               Reached(file, k) <=> \A j \in DOMAIN file : j < k => plain(j)
        BY <2>2 DEF Reached, Kinds
      <4> QED BY <2>2, <3>2, <4>1 DEF Scanned, Kinds
    <3> QED BY <2>1, <3>1, <3>2
  <2>4. ASSUME NEW k \in taken, frontend = "gui" \/ file[k].kind # "split"
        PROVE  words[k] = file[k].word
    BY <2>1, <2>3, <2>4 DEF LoadASCIIHex, Scanned
  <2>5. \A k \in taken : Below(taken, k) = Below(numbers, k)
    <3>1. CASE frontend = "gui"
      BY <3>1
    <3>2. CASE frontend = "cli"
      <4> SUFFICES ASSUME NEW k \in taken, NEW j \in numbers, j < k
                   PROVE  j \in taken
        BY DEF Below
      <4>1. \A m \in DOMAIN file : m < j => m < k
        <5>1. DOMAIN file \subseteq Nat
          BY <2>1, LinesFinite
        <5> QED BY <5>1
      <4> QED BY <3>2, <4>1
    <3> QED BY <2>1, <3>1, <3>2
  <2>6. /\ \A k \in DOMAIN words : Cardinality(Below(DOMAIN words, k)) < PcMod =>
               Image(words)[Cardinality(Below(DOMAIN words, k))] = words[k]
        /\ \A a \in Pc : a >= Cardinality(DOMAIN words) => Image(words)[a] = ZeroInstruction
    <3>1. DOMAIN words \subseteq DOMAIN file
      BY <2>3
    <3> HIDE DEF words
    <3>2. QED
      BY <2>1, <3>1, ImageHolds, Zenon
  <2> HIDE DEF words, taken, numbers
  <2>7. QED
    BY <2>1, <2>3, <2>4, <2>5, <2>6
<1>2. HarnessInit => LoadedImage
  BY DEF HarnessInit, LoadedImage
<1>3. QED
  BY <1>1, <1>2, LoadedStep, PTL DEF HarnessSpec

-----------------------------------------------------------------------------
(* The machine that starts over in one step. *)

(* While no call starts the machine over, its state is that of the         *)
(* processor.                                                              *)
AsItIs ==
    /\ AsIf(NextInstruction, 0) = NextInstruction
    /\ AsIf(Registers, Zeros) = Registers
    /\ AsIf(mem, Zeros) = mem
    /\ AsIf(CPU_out, 0) = CPU_out
    /\ AsIf(rst_n, 0) = rst_n

LEMMA SameMachine == ~ StartingOver => AsItIs
  BY DEF AsIf, AsItIs

(* Both machines are instances of Isa.tla and read the tables of the       *)
(* controller (SameTables).                                                *)
LEMMA OneStepTables ==
    /\ OneStepReset!RType = C!RType
    /\ OneStepReset!IType = C!IType
    /\ \A table, i : OneStepReset!Matching(table, i) = C!Matching(table, i)
  BY DEF OneStepReset!RType, C!RType, OneStepReset!IType, C!IType, OneStepReset!Matching,
         C!Matching, OneStepReset!AND, C!AND, OneStepReset!OR, C!OR, OneStepReset!XOR, C!XOR,
         OneStepReset!ADD, C!ADD, OneStepReset!SUB, C!SUB, OneStepReset!MUL, C!MUL,
         OneStepReset!MULH, C!MULH, OneStepReset!MULHU, C!MULHU, OneStepReset!SLL, C!SLL,
         OneStepReset!SRL, C!SRL, OneStepReset!SRA, C!SRA, OneStepReset!SLT, C!SLT,
         OneStepReset!SLTU, C!SLTU

LEMMA SameBranches ==
    ASSUME NEW f
    PROVE  OneStepReset!IsBranch(f) <=> Sequential!IsBranch(f)
  BY DEF OneStepReset!IsBranch, Sequential!IsBranch

LEMMA SameView ==
    ASSUME AsItIs
    PROVE  /\ OneStepReset!i = Sequential!i
           /\ OneStepReset!A = Sequential!A
           /\ OneStepReset!B = Sequential!B
           /\ OneStepReset!Link = Sequential!Link
           /\ OneStepReset!Condition <=> Sequential!Condition
           /\ OneStepReset!Known <=> Sequential!Known
<1>1. /\ OneStepReset!i = Sequential!i
      /\ OneStepReset!Link = Sequential!Link
  BY DEF AsItIs, OneStepReset!i, Sequential!i, OneStepReset!Link, Sequential!Link
<1>2. /\ OneStepReset!A = Sequential!A
      /\ OneStepReset!B = Sequential!B
  BY <1>1 DEF AsItIs, OneStepReset!A, Sequential!A, OneStepReset!B, Sequential!B
<1>3. OneStepReset!Condition <=> Sequential!Condition
  BY <1>1, <1>2
     DEF OneStepReset!Condition, Sequential!Condition, OneStepReset!Less, Sequential!Less,
         OneStepReset!LessUnsigned, Sequential!LessUnsigned, OneStepReset!SLT, Sequential!SLT,
         OneStepReset!SLTU, Sequential!SLTU
<1>4. OneStepReset!Known <=> Sequential!Known
  BY <1>1, SameTables, OneStepTables, SameBranches
     DEF OneStepReset!Known, Sequential!Known, OneStepReset!Lui, Sequential!Lui,
         OneStepReset!Jal, Sequential!Jal, OneStepReset!Jalr, Sequential!Jalr,
         OneStepReset!System, Sequential!System, OneStepReset!Op, Sequential!Op,
         OneStepReset!OpImm, Sequential!OpImm, OneStepReset!Branch, Sequential!Branch
<1>5. QED
  BY <1>1, <1>2, <1>3, <1>4

LEMMA SameWrite ==
    ASSUME AsItIs, AsItIs', NEW rd, NEW value, NEW target,
           Sequential!Write(rd, value, target)
    PROVE  OneStepReset!Write(rd, value, target)
  BY DEF AsItIs, Sequential!Write, OneStepReset!Write

-----------------------------------------------------------------------------
(* A step of the sequential machine that neither begins nor ends while the *)
(* machine starts over is one of the machine that may.                     *)

LEMMA SameCompute ==
    ASSUME AsItIs, AsItIs', Sequential!ExecuteOp \/ Sequential!ExecuteOpImm
    PROVE  OneStepReset!ExecuteOp \/ OneStepReset!ExecuteOpImm
<1>1. AsIf(CPU_out, 0)' = AsIf(CPU_out, 0)
  BY DEF AsItIs, Sequential!ExecuteOp, Sequential!ExecuteOpImm
<1>2. CASE Sequential!ExecuteOp
  BY <1>1, <1>2, SameView, SameWrite, SameTables, OneStepTables, SameBranches
     DEF Sequential!ExecuteOp, OneStepReset!ExecuteOp, Sequential!Op, OneStepReset!Op
<1>3. CASE Sequential!ExecuteOpImm
  BY <1>1, <1>3, SameView, SameWrite, SameTables, OneStepTables, SameBranches
     DEF Sequential!ExecuteOpImm, OneStepReset!ExecuteOpImm, Sequential!OpImm,
         OneStepReset!OpImm
<1>4. QED
  BY <1>2, <1>3

LEMMA SameJump ==
    ASSUME AsItIs, AsItIs',
           Sequential!ExecuteLui \/ Sequential!ExecuteJal \/ Sequential!ExecuteJalr
    PROVE  OneStepReset!ExecuteLui \/ OneStepReset!ExecuteJal \/ OneStepReset!ExecuteJalr
<1>1. AsIf(CPU_out, 0)' = AsIf(CPU_out, 0)
  BY DEF AsItIs, Sequential!ExecuteLui, Sequential!ExecuteJal, Sequential!ExecuteJalr
<1>2. AsIf(NextInstruction, 0) = NextInstruction
  BY DEF AsItIs
<1>3. CASE Sequential!ExecuteLui
  BY <1>1, <1>3, SameView, SameWrite
     DEF Sequential!ExecuteLui, OneStepReset!ExecuteLui, Sequential!Lui, OneStepReset!Lui
<1>4. CASE Sequential!ExecuteJal
  BY <1>1, <1>2, <1>4, SameView, SameWrite
     DEF Sequential!ExecuteJal, OneStepReset!ExecuteJal, Sequential!Jal, OneStepReset!Jal
<1>5. CASE Sequential!ExecuteJalr
  BY <1>1, <1>5, SameView, SameWrite
     DEF Sequential!ExecuteJalr, OneStepReset!ExecuteJalr, Sequential!Jalr, OneStepReset!Jalr
<1>6. QED
  BY <1>3, <1>4, <1>5

LEMMA SameBranch ==
    ASSUME AsItIs, AsItIs', Sequential!ExecuteBranch
    PROVE  OneStepReset!ExecuteBranch
<1>1. AsIf(CPU_out, 0)' = AsIf(CPU_out, 0) /\ AsIf(NextInstruction, 0) = NextInstruction
  BY DEF AsItIs, Sequential!ExecuteBranch
<1>2. QED
  BY <1>1, SameView, SameWrite, SameTables, OneStepTables, SameBranches
     DEF Sequential!ExecuteBranch, OneStepReset!ExecuteBranch, Sequential!Branch,
         OneStepReset!Branch

LEMMA SameCsr ==
    ASSUME AsItIs, AsItIs', Sequential!ExecuteCsrWrite \/ Sequential!ExecuteCsrRead
    PROVE  OneStepReset!ExecuteCsrWrite \/ OneStepReset!ExecuteCsrRead
<1>1. CASE Sequential!ExecuteCsrWrite
  BY <1>1, SameView
     DEF AsItIs, Sequential!ExecuteCsrWrite, OneStepReset!ExecuteCsrWrite, Sequential!System,
         OneStepReset!System, Sequential!HexCsr, OneStepReset!HexCsr
<1>2. CASE Sequential!ExecuteCsrRead
  <2>1. AsIf(CPU_out, 0)' = AsIf(CPU_out, 0)
    BY <1>2 DEF AsItIs, Sequential!ExecuteCsrRead
  <2>2. QED
    BY <1>2, <2>1, SameView, SameWrite
       DEF Sequential!ExecuteCsrRead, OneStepReset!ExecuteCsrRead, Sequential!System,
           OneStepReset!System, Sequential!HexCsr, OneStepReset!HexCsr
<1>3. QED
  BY <1>1, <1>2

LEMMA SameUnknown ==
    ASSUME AsItIs, AsItIs', Sequential!ExecuteUnknown
    PROVE  OneStepReset!ExecuteUnknown
  BY SameView DEF AsItIs, Sequential!ExecuteUnknown, OneStepReset!ExecuteUnknown

LEMMA SameExecute ==
    ASSUME AsItIs, AsItIs', Sequential!Execute
    PROVE  OneStepReset!Execute
<1>1. AsIf(rst_n, 0) = 1
  BY DEF AsItIs, Sequential!Execute
<1>2. \/ Sequential!ExecuteOp \/ Sequential!ExecuteOpImm
      \/ Sequential!ExecuteLui \/ Sequential!ExecuteJal \/ Sequential!ExecuteJalr
      \/ Sequential!ExecuteBranch
      \/ Sequential!ExecuteCsrWrite \/ Sequential!ExecuteCsrRead
      \/ Sequential!ExecuteUnknown
  BY DEF Sequential!Execute
<1>3. QED
  BY <1>1, <1>2, SameCompute, SameJump, SameBranch, SameCsr, SameUnknown
     DEF OneStepReset!Execute

LEMMA SameStep ==
    ASSUME AsItIs, AsItIs', [Sequential!Next]_(Sequential!vars)
    PROVE  [OneStepReset!Next]_Machine
<1>1. CASE Sequential!Execute
  BY <1>1, SameExecute DEF OneStepReset!Next
<1>2. CASE Sequential!Settle
  BY <1>2 DEF AsItIs, Sequential!Settle, OneStepReset!Settle, OneStepReset!Next
<1>3. CASE Sequential!Reset
  BY <1>3 DEF AsItIs, Sequential!Reset, OneStepReset!Reset, OneStepReset!Next
<1>4. CASE Sequential!Key
  BY <1>4 DEF AsItIs, Sequential!Key, OneStepReset!Key, OneStepReset!Next
<1>5. CASE UNCHANGED Sequential!vars
  BY <1>5 DEF AsItIs, Sequential!vars, Machine
<1>6. QED
  BY <1>1, <1>2, <1>3, <1>4, <1>5 DEF Sequential!Next

-----------------------------------------------------------------------------
(* The steps of the simulators. *)

(* The machine starts with zeroed registers, and may do so again. *)
CanStartOver == Zeros \in {[m EXCEPT ![0] = 0] : m \in PowerOnMem}

HostInv == HostPipelineInv /\ Resetting /\ CanStartOver

(* Unobserved: what happens during a call that starts the machine over.    *)
LEMMA StillStartingOver ==
    ASSUME StartingOver, StartingOver', inst_ram' = inst_ram
    PROVE  UNCHANGED Machine
  BY DEF Machine, AsIf, Zeros

LEMMA StartsOver ==
    ASSUME StartingOver', inst_ram' \in Programs, CanStartOver
    PROVE  OneStepReset!Init'
  BY DEF OneStepReset!Init, AsIf, CanStartOver, Zeros

(* When the call is over, the processor is where the machine already was.  *)
LEMMA StartedOver ==
    ASSUME Resetting, ~ Delaying, StartingOver, ~ StartingOver', UNCHANGED vars
    PROVE  UNCHANGED Machine
<1>1. mem = Zeros /\ Emptied
  BY DEF Resetting, Delaying, ResetCycles
<1>2. Registers = Zeros /\ NextInstruction = 0 /\ CPU_out = 0 /\ rst_n = 0
  BY <1>1 DEF Registers, Zeros, Emptied, NextInstruction
<1>3. Registers' = Zeros /\ NextInstruction' = 0 /\ CPU_out' = 0 /\ rst_n' = 0 /\ mem' = Zeros
      /\ inst_ram' = inst_ram
  BY <1>1, <1>2 DEF vars, Registers, NextInstruction, writedata_WB
<1>4. QED
  BY <1>3 DEF Machine, AsIf, Zeros

LEMMA SameProcessorSameMachine ==
    ASSUME UNCHANGED vars, ~ StartingOver, ~ StartingOver'
    PROVE  UNCHANGED Machine
  BY DEF Machine, AsIf, vars, Registers, NextInstruction, writedata_WB

LEMMA LibraryRefines ==
    ASSUME XResolves = {0}, HostInv, Settle \/ RisingClock
    PROVE  [OneStepReset!Next]_Machine
<1>1. [Next]_vars /\ inst_ram' = inst_ram /\ call' = call
  BY DEF Settle, RisingClock, hostVars, Next, Clock, ClockReset, ClockRun, KeyPress, KeyRelease
<1>2. CASE StartingOver
  BY <1>1, <1>2, StillStartingOver DEF StartingOver
<1>3. CASE ~ StartingOver
  <2>1. PipelineInv
    BY <1>3 DEF HostInv, HostPipelineInv, PipelineInv, Poked
  <2>2. AsItIs /\ AsItIs'
    BY <1>1, <1>3, SameMachine DEF StartingOver, AsIf, AsItIs
  <2>3. QED
    BY <1>1, <2>1, <2>2, StepRefines, SameStep
<1>4. QED
  BY <1>2, <1>3

LEMMA LoadRefines ==
    ASSUME HostInv, CliLoad \/ GuiLoad \/ OnReset \/ loadRomDialog
    PROVE  StartingOver' /\ OneStepReset!Init'
<1>1. StartingOver' /\ inst_ram' \in Programs
  BY LoadedType DEF CliLoad, GuiLoad, OnReset, loadRomDialog, Reset, StartingOver, HostInv,
     HostPipelineInv
<1>2. QED
  BY <1>1, StartsOver DEF HostInv

LEMMA ReturnRefines ==
    ASSUME HostInv, CliRun \/ GuiPanic \/ GuiStart \/ ResetDone \/ LoadDone
    PROVE  UNCHANGED Machine
<1>1. UNCHANGED vars /\ ~ Delaying /\ StartingOver /\ ~ StartingOver'
  BY DEF CliRun, GuiPanic, GuiStart, ResetDone, LoadDone, Returns, StartingOver
<1>2. QED
  BY <1>1, StartedOver DEF HostInv

LEMMA CallbackRefines ==
    ASSUME \/ CliPrint \/ TickDone \/ FinalTickDone
           \/ OnKEY \/ OnSW \/ OnTick("tick") \/ OnTick("final tick")
    PROVE  UNCHANGED Machine
<1>1. UNCHANGED vars
  BY DEF CliPrint, TickDone, FinalTickDone, OnKEY, OnSW, OnTick
<1>2. ~ StartingOver /\ ~ StartingOver'
  BY DEF CliPrint, TickDone, FinalTickDone, OnKEY, OnSW, OnTick, Returns, Waiting, StartingOver
<1>3. QED
  BY <1>1, <1>2, SameProcessorSameMachine

(* A reset, a load and the start-up are, to the program, one step each     *)
(* after which it begins anew with every register and display 0; between   *)
(* them the simulators run one instruction after the other.  Holds for     *)
(* every file, every order of keys, switches, ticks, resets and loads, and *)
(* whatever the pipeline holds when the library begins to reset.           *)
THEOREM SimulatorsStartOverAtOnce ==
    ASSUME XResolves = {0}
    PROVE  HarnessSpec => StartsOverAtOnce
<1>1. HarnessInit => CanStartOver
  BY DEF HarnessInit, Init, CanStartOver
<1>2. HarnessInit => OneStepReset!Init
  <2> SUFFICES ASSUME HarnessInit PROVE OneStepReset!Init
    OBVIOUS
  <2>1. CanStartOver /\ StartingOver /\ inst_ram \in Programs
    BY <1>1 DEF HarnessInit, Init, StartingOver
  <2>2. QED
    BY <2>1 DEF OneStepReset!Init, AsIf, CanStartOver
<1>3. CanStartOver /\ [HarnessNext]_harnessVars => CanStartOver'
  BY DEF CanStartOver, Zeros
<1>4. HostInv /\ [HarnessNext]_harnessVars =>
        [OneStepReset!Next \/ (StartingOver' /\ OneStepReset!Init')]_Machine
  <2> SUFFICES ASSUME HostInv, [HarnessNext]_harnessVars
               PROVE  [OneStepReset!Next \/ (StartingOver' /\ OneStepReset!Init')]_Machine
    OBVIOUS
  <2>1. CASE Settle \/ RisingClock
    BY <2>1, LibraryRefines
  <2>2. CASE CliLoad \/ GuiLoad \/ OnReset \/ loadRomDialog
    BY <2>2, LoadRefines
  <2>3. CASE CliRun \/ GuiPanic \/ GuiStart \/ ResetDone \/ LoadDone
    BY <2>3, ReturnRefines
  <2>4. CASE \/ CliPrint \/ TickDone \/ FinalTickDone
             \/ OnKEY \/ OnSW \/ OnTick("tick") \/ OnTick("final tick")
    BY <2>4, CallbackRefines
  <2>5. CASE UNCHANGED harnessVars
    <3>1. UNCHANGED vars /\ (StartingOver' <=> StartingOver) /\ inst_ram' = inst_ram
      BY <2>5 DEF harnessVars, hostVars, vars, StartingOver
    <3>2. UNCHANGED Machine
      BY <3>1, StillStartingOver, SameProcessorSameMachine
    <3>3. QED
      BY <3>2
  <2>6. QED
    BY <2>1, <2>2, <2>3, <2>4, <2>5 DEF HarnessNext, Cli, Gui, Callback, Done
<1>5. QED
  BY <1>1, <1>2, <1>3, <1>4, HostInvariant, PTL DEF HarnessSpec, HostInv, StartsOverAtOnce
=============================================================================
