--------------------------- MODULE MCCursorAdapter ---------------------------
(* A small instance of CursorAdapter for TLC: see README.md for the bounds. *)
EXTENDS CursorAdapter, TLC

CONSTANTS a1, k1, k2

MCKeys == {k1, k2}
\* The two keys differ in nothing.
Symmetry == Permutations(MCKeys)
=============================================================================
