SPECIFICATION Spec
CONSTANTS
    X = X
    Alu <- MCAlu
    Slots <- MCSlots
INVARIANTS RestsOnSolution
PROPERTIES Settles OperationStands
