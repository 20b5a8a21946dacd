\* The programs of the repository, and programs that devices interrupt, on
\* processors of either kind: with and without a mask in the handler.
SPECIFICATION FairSpec
CONSTANTS
    Programs <- MCPrograms
    Regs <- MCRegs
    MaxRaise = 4
INVARIANTS TypeOK Transparent EpcInMain OnlyOthersStranded ExpectedOutput NoSpurious
PROPERTIES ProgramEnds HandlerEnds
\* The program ends.
CHECK_DEADLOCK FALSE
