SPECIFICATION Spec
CONSTANTS
    Inputs <- MCStale
    Top = 48
    TextBase = 20
    StackJunk <- MCJunk
INVARIANTS NoSymbolsWholeSection
CHECK_DEADLOCK FALSE
