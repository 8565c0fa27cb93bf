SPECIFICATION Spec
CONSTANTS
    MaxBitWidth = 4
    WordBits = 15
    Directories <- MCDirectories
    Arguments <- MCArguments
INVARIANTS
    OutputsSound
PROPERTIES
    NothingOverwritten
