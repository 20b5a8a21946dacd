\* Programs that shrink blocks to less than the size of a pointer.
SPECIFICATION Spec
CONSTANTS
    W = 2
    SizeMod = 64
    HeapStart = 4
    Limits <- MCLimits
    Lens <- MCLens
    ReLens <- MCReAny
    Arrays <- MCArrays
INVARIANT RoomForLink
