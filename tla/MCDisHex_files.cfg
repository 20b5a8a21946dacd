\* All pairs of small files, with and without a last newline, and a missing file.
SPECIFICATION Spec
CONSTANT CommandLines <- MCCommandLines
INVARIANT OutputRight
PROPERTIES Terminates
\* dishex exits.
CHECK_DEADLOCK FALSE
