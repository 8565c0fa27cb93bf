SPECIFICATION MCSpec
CONSTANTS
    MaxBitWidth = 4
    Statement <- MCStatement
    Profiles = {"bits", "memories", "initial"}
INVARIANTS
    OperatorTables
