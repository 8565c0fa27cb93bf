SPECIFICATION MCSpec
CONSTANTS
    MaxBitWidth = 4
    Statement <- MCStatement
    Profiles = {"links", "bits", "memories", "initial"}
INVARIANTS
    TypeOK
    ReferencesResolved
    StateLinks
    InitConesOrdered
    IterationExact
    LinesWellSorted
    OutputReadsBack
PROPERTIES
    LinesStable
