\* Every well-formed layout of text, data and a tail section in one file, and of
\* two files of which the second finds the symbols of the first.
SPECIFICATION FairSpec
CONSTANTS
    Inputs <- MCFiles
    Top = 64
    TextBase = 20
    StackJunk <- MCJunk
INVARIANTS TypeOK InStep ImageRight NothingLost NoAbort
PROPERTIES Terminates LoadSpec
\* The program ends.
CHECK_DEADLOCK FALSE
