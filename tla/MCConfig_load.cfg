CONSTANTS
  MaxSet = 3
  Whole = 2
  MaxInt = 50
  Amounts <- Halves
SPECIFICATION ConfigSpec
INVARIANTS ProductionSecretIsStrong RunningCanServe
