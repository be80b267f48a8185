------------------------- MODULE MCReleaseInstallation -------------------------
(* A small instance of ReleaseInstallation for TLC: see README.md.          *)
EXTENDS ReleaseInstallation, TLC

CONSTANTS p1, p2, p3, p4, v1, v2

TwoVersions == {v1, v2}
ThreeProcs == {p1, p2, p3}
FourProcs == {p1, p2, p3, p4}
MCInodes == 1..4
Symmetry == Permutations(Procs) \cup Permutations(Versions)
=============================================================================
