SPECIFICATION HarnessSpec
CONSTANTS
    WordMod = 4
    PcMod = 4
    Reg = {0, 1}
    X = X
    XResolves = {0}
    Alu <- MCAlu
    GpioIn = {0, 2}
    Programs <- MCPrograms
    PowerOnMem <- MCMem
    Files <- MCFiles
    NCycles = 9
    Base = 2
    Last = 1
INVARIANTS HarnessTypeOK FreshMachine LoadersAgree CyclesAreSpent
PROPERTIES StartsOverAtOnce WindowInputsSeen DisplayCatchesUp TicksExecute
CHECK_DEADLOCK FALSE
