\* filterhex and dishex as two processes with a pipe between them.
SPECIFICATION Spec
CONSTANTS
    Listings <- MCListings
    PipeMax = 2
INVARIANTS AllInOrder FormatAccepted
PROPERTIES BothEnd
\* Both processes exit.
CHECK_DEADLOCK FALSE
