\* Programs that ask realloc for lengths it is made for.
SPECIFICATION Spec
CONSTANTS
    W = 2
    SizeMod = 64
    HeapStart = 4
    Limits <- MCLimits
    Lens <- MCLens
    ReLens <- MCReLens
    Arrays <- MCArrays
INVARIANTS TypeOK Tiled Coalesced FailsOnlyWhenFull AllGivenBack
PROPERTIES KeepsBlocks
