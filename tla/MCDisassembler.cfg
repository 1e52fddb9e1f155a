SPECIFICATION Spec
CONSTANTS
    Calls <- MCCalls
    X = X
    MaxOnes = 3
    MaxOdd = 3
INVARIANTS TypeOK AlwaysExpanded CompressedImmediates ExpandsToItself EveryBitCounts ShownIsExecuted ExecutedIsShown OffsetsInWords ImmediatesWidened
PROPERTY LiftKeepsOperands
