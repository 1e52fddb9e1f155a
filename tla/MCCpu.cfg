SPECIFICATION FairSpec
CONSTANTS
    WordMod = 4
    PcMod = 4
    Reg = {0, 1, 2}
    X = X
    XResolves = {0}
    Alu <- MCAlu
    GpioIn = {0, 3}
    Programs <- DataOrJumpPrograms
    PowerOnMem <- MCMem
INVARIANTS TypeOK WiresSettled ZeroRegister SlotMatchesPc FetchFollowsSlot
PROPERTIES RunsSequentially Progress ResetTakesHold
