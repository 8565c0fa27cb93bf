SPECIFICATION Spec
CONSTANTS
    MaxBitWidth = 4
    WordBits = 15
    Models <- AllModels
    Modes = {"check", "random"}
    Token <- MCToken
    Seeds = {0, 1}
    RandomSteps = 5
    MaxFrames = 3
    Orderly = TRUE
    Claims = {0, 1}
    Positions = {0, 1}
    Headers = {0, 1, 2}
    Indices <- AnyIndex
    Noise = {"comment", "unsat"}
INVARIANTS
    TypeOK
    CacheCoherent
    FrameComplete
    NextStateHandover
    ReachedExact
    RandomNeverFails
    AcceptedIsWitnessed
PROPERTIES
    Implements
    Termination
