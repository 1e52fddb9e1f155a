SPECIFICATION Spec
CONSTANTS
    Width = 4
    ShiftBits = 2
INVARIANTS NoErrors BranchesDecidable
CHECK_DEADLOCK FALSE
