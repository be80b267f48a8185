SPECIFICATION HeedingRegistrySpec
CONSTANTS
  sdk = sdk
  Adapters = {app, desk}
  LaunchAdapters = {}
  Transports = {app}
  Launches = {}
  AdapterOf <- AllOfSdk
  Clients = {c}
  Threshold = 1
INVARIANTS
  DownIsNotLive
PROPERTIES
  PassEnds
  ExplicitServed
  AdapterAskedAgain
CHECK_DEADLOCK FALSE
