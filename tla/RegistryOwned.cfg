SPECIFICATION RegistrySpec
CONSTANTS
  sdk = sdk
  Adapters = {sdk}
  LaunchAdapters = {sdk}
  Transports = {}
  Launches = {l1, l2}
  AdapterOf <- AllOfSdk
  Clients = {c}
  Threshold = 3
INVARIANTS
  ShownIsOwned
  HidingIsSeen
PROPERTIES
  OwnedStaysShown
SYMMETRY LaunchSymmetry
CHECK_DEADLOCK FALSE
