\* Layouts that violate the tool's assumptions.
SPECIFICATION FairSpec
CONSTANTS
    Inputs <- MCAny
    Top = 64
    TextBase = 20
    StackJunk <- MCJunk
INVARIANTS WholeWords DataInOnePiece LabelsAtSymbols
CHECK_DEADLOCK FALSE
