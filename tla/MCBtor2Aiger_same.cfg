SPECIFICATION Spec
CONSTANTS
    MaxBitWidth = 4
    WordBits = 15
    Models <- AllModels
    IgnoreErrors = FALSE
    MaxFrames = 4
INVARIANTS
    SameBehavior
CHECK_DEADLOCK FALSE
