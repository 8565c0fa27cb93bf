SPECIFICATION Spec
CONSTANTS
    WordBits = 15
    LimbBits = 2
    MaxWidth = 6
INVARIANTS
    ResultsFit
    SignedDivision
    SignedOrderAndParts
    RotationBelowWidth
    LimbArithmetic
    LimbBitsAndOrder
    LimbShiftsAndParts
    ConstantsReadAndPrinted
