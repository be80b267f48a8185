---------------------------- MODULE MCInstanceLock ----------------------------
\* A small instance of InstanceLock for TLC: see README.md.
EXTENDS InstanceLock, TLC

CONSTANTS p1, p2, p3

ThreeProcs == {p1, p2, p3}
MCInodes == 1..4
Symmetry == Permutations(Procs)
=============================================================================
