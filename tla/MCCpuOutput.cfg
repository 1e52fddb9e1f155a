SPECIFICATION Spec
CONSTANTS
    WordMod = 4
    PcMod = 4
    Reg = {0, 1, 2}
    X = X
    XResolves = {0, 1}
    Alu <- MCAlu
    GpioIn = {0, 3}
    Programs <- JumpPrograms
    PowerOnMem <- MCMem
PROPERTIES OutputOnlyByCsr
