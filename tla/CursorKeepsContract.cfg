SPECIFICATION AdapterSpec
CONSTANTS
  a1 = a1
  k1 = k1
  k2 = k2
  NoKey = NoKey
  Attempts = {a1}
  Keys = {k1, k2}
  MaxRuns = 3
  WritesFail = TRUE
  Crashes = TRUE
  Aborts = TRUE
SYMMETRY Symmetry
INVARIANTS
  OneLiveRun
  CancelOnce
  LedgerTellsTruth
PROPERTIES
  DeletesIdle
  ImplementsProvider
