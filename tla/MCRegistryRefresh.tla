-------------------------- MODULE MCRegistryRefresh --------------------------
(***************************************************************************)
(* Every launch of a run is of the one launch adapter.                     *)
(***************************************************************************)
EXTENDS RegistryRefresh, TLC

CONSTANT sdk

AllOfSdk == [l \in Launches |-> sdk]
LaunchSymmetry == Permutations(Launches)
=============================================================================
