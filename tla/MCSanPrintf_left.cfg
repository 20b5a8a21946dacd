\* The statement that numbers can be left justified.
SPECIFICATION Spec
CONSTANTS
    Formats <- MCFormats
    BufLength = 9
    IntMod = 256
    LongMod = 1024
INVARIANT LeftJustified
\* printf returns.
CHECK_DEADLOCK FALSE
