SPECIFICATION Spec
CONSTANTS
    IndexWidth = 2
    ElementWidth = 1
    Seeds = {0, 1, 2}
INVARIANTS
    ReadsAsMemory
