----------------------------- MODULE MCCodexAdapter -----------------------------
(* A small instance of CodexAdapter for TLC: see README.md.                 *)
EXTENDS CodexAdapter, TLC

CONSTANTS c1, c2, t1, t2, x1, x2

OneCall == {c1}
TwoCalls == {c1, c2}
OneThread == {t1}
TwoThreads == {t1, t2}
OneContext == {x1}
TwoContexts == {x1, x2}
Symmetry == Permutations(Contexts)
=============================================================================
