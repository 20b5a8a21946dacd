\* Expressions over vectors of one size and of different sizes.
SPECIFICATION Spec
CONSTANTS
    Programs <- MCPrograms
    Elements <- MCElements
    Vectors <- MCVectors
    TSize = 4
    Behind = "A"
    VlMax = 2
    WordMod = 31
INVARIANTS ChainsRight InBounds
PROPERTIES OperandsKept
\* The program ends.
CHECK_DEADLOCK FALSE
