SPECIFICATION Spec
CONSTANTS
    MaxBitWidth = 4
    WordBits = 15
    Models <- BitModels
    Modes = {"check"}
    Token <- MCToken
    Seeds = {0}
    RandomSteps = 0
    MaxFrames = 2
    Orderly = FALSE
    Claims = {0}
    Positions = {0, 1}
    Headers = {0, 1}
    Indices <- NoIndices
    Noise = {"comment"}
INVARIANTS
    InitialStatesRespected
