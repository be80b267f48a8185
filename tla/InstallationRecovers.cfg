SPECIFICATION InstallationSpec
CONSTANTS
  p1 = p1
  p2 = p2
  p3 = p3
  p4 = p4
  v1 = v1
  v2 = v2
  Procs <- FourProcs
  Nobody = Nobody
  Inodes <- MCInodes
  NoInode = 0
  Reuse = FALSE
  LeaverDies = FALSE
  Versions <- TwoVersions
  None = None
  Fails = TRUE
  UninstallDies = FALSE
SYMMETRY Symmetry
\* Every process runs one command and is gone.
CHECK_DEADLOCK FALSE
INVARIANTS
  
  ReferencesRun
  Settled
  
PROPERTIES
  TellsTheTruth
