SPECIFICATION FairSpec
CONSTANTS
  a = a
  b = b
  k1 = k1
  k2 = k2
  k3 = k3
  k4 = k4
  r1 = r1
  r2 = r2
  p1 = p1
  p2 = p2
  NoKey = NoKey
  NoRequest = NoRequest
  NoId = NoId
  Ids = {a, b}
  Keys = {k1, k2, k3}
  Requests = {r1, r2}
  Providers = {p1, p2}
  Supporting = {p1}
  MaxActive = 2
  Prompt = {p1}
  SubmitKeys = {k2}
  WritesFail = FALSE
  AfterRename = FALSE
  Crashes = FALSE
  Stops = TRUE
  Restarts = FALSE
  MaxPending = 1
  MaxRecords = 2
  MaxRetirements = 1
  MaxCleanups = 1
  ProviderOf <- TwoProviders
  LegacyRecords <- OneOwned
  RetireKeys <- OneRetirement
PROPERTIES
  
  RetirementsAnswered
  StopReleases
CHECK_DEADLOCK FALSE
