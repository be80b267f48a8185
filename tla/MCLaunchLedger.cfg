SPECIFICATION Spec
CONSTANTS
  a = a
  b = b
  c = c
  d = d
  k1 = k1
  k2 = k2
  k3 = k3
  k4 = k4
  r1 = r1
  NoKey = NoKey
  NoRequest = NoRequest
  Ids = {a, b, c, d}
  Keys = {k1, k2, k3, k4}
  Requests = {r1}
  MaxPending = 1
  MaxRecords = 2
  MaxRetirements = 1
  MaxCleanups = 2
  LegacyRecords <- MCLegacyRecords
INVARIANTS
  FileReopens
  FileTellsMemory
  PendingBounded
PROPERTY
  DurableLifecycle
SYMMETRY Symmetry
