------------------------------ MODULE CursorRuns ------------------------------
(* Launch attempts, each with its agent, and the runs of an agent: what the  *)
(* provenance file and the bridge both speak of.                             *)
EXTENDS Naturals, FiniteSets

CONSTANTS
  Attempts,   \* launch attempts, and so agents
  MaxRuns     \* runs an agent is ever prompted to (a bound)

ASSUME RunsAssumption == MaxRuns \in Nat \ {0}

Runs == 1..MaxRuns
NoRun == 0
=============================================================================
