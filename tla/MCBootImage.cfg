\* Branches on both sides of the reach of 24 bits, both byte orders.
SPECIFICATION Spec
CONSTANT Objects <- MCObjects
INVARIANTS TypeOK BranchesLand OpcodesKept AddressFormed
PROPERTIES VectorsLead ResetCalls
\* The processor leaves the words that are modelled.
CHECK_DEADLOCK FALSE
