SPECIFICATION FairSpec
CONSTANTS
    One = 16
    FirstStep = 8
    Scale = 100
    Tenth = 410
    Digits = 3
    Inputs <- SomeInputs
INVARIANTS SearchAccurate DigitsExact
PROPERTIES DisplayFollowsSwitches
