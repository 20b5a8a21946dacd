\* Every supported conversion on its own, and three in a row up to the end of
\* the buffer.
SPECIFICATION Spec
CONSTANTS
    Formats <- MCFormats
    BufLength = 9
    IntMod = 256
    LongMod = 1024
INVARIANTS TypeOK Rendered
\* printf returns.
CHECK_DEADLOCK FALSE
