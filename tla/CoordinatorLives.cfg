SPECIFICATION CoordinatorSpec
CONSTANTS
  a = a
  b = b
  k1 = k1
  k2 = k2
  k3 = k3
  k4 = k4
  r1 = r1
  r2 = r2
  p1 = p1
  p2 = p2
  NoKey = NoKey
  NoRequest = NoRequest
  NoId = NoId
  Ids = {a, b}
  Keys = {k1, k3}
  Requests = {r1, r2}
  Providers = {p1, p2}
  Supporting = {p1}
  MaxActive = 2
  Prompt = {p1, p2}
  SubmitKeys = {k1, k3}
  WritesFail = TRUE
  AfterRename = TRUE
  Crashes = TRUE
  Stops = TRUE
  Restarts = TRUE
  MaxPending = 2
  MaxRecords = 2
  MaxRetirements = 1
  MaxCleanups = 1
  ProviderOf <- TwoProviders
  LegacyRecords <- NoLegacy
  RetireKeys <- OneKey
INVARIANTS
  CreateAtMostOnce
  CallsHoldLanes
  FailedIsNothing
  DeletesFenced
  VisibleIsOwned
PROPERTIES
  LedgerSpec
SYMMETRY AlikeIds
