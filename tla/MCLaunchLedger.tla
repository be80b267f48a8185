--------------------------- MODULE MCLaunchLedger ---------------------------
(***************************************************************************)
(* A small ledger for TLC: four launches, four keys, one tombstone kept,    *)
(* so that the second retirement evicts the first one's.  One version-1    *)
(* file with an owned and an uncertain launch.                                  *)
(***************************************************************************)
EXTENDS LaunchLedger, TLC

CONSTANTS a, b, c, d, k1, k2, k3, k4, r1

MCLegacyRecords ==
  {[i \in Ids |->
      CASE i = a -> [state |-> "owned", key |-> k1, retireKey |-> NoKey, request |-> r1]
        [] i = b -> [state |-> "uncertain", key |-> k2, retireKey |-> NoKey, request |-> r1]
        [] OTHER -> Absent]}

\* The launches and keys the version-1 file does not use are interchangeable.
Symmetry == Permutations({c, d}) \cup Permutations({k3, k4})
=============================================================================
