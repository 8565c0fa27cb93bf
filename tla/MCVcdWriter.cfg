SPECIFICATION Spec
CONSTANTS
    Vectors = {3, 6, 7, 8}
    Arrays = {4}
    Outputs = {5}
    Clocks <- MCClocks
    VectorValues = {0, 1}
    ArrayValues <- MCArrayValues
    ElementWidth = 1
    IdChars = 2
    Modes = {"sat", "unknown", "random"}
    MaxFrames = 3
INVARIANTS
    TypeOK
    IdentifiersUnique
    TimesAscend
    ValuesShown
    ChangesOnEdges
