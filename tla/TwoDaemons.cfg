SPECIFICATION LockSpec
CONSTANTS
  p1 = p1
  p2 = p2
  p3 = p3
  Procs <- ThreeProcs
  Nobody = Nobody
  Inodes <- MCInodes
  NoInode = 0
  Reuse = FALSE
SYMMETRY Symmetry
\* Every process runs one command and is gone.
CHECK_DEADLOCK FALSE
INVARIANTS
  OneDaemon
