-------------------------- MODULE MCActionExecutor --------------------------
(***************************************************************************)
(* Two agents, one with two different requests; three items alive at once.  *)
(***************************************************************************)
EXTENDS ActionExecutor

CONSTANTS x, y, r1, r3

AgentsOf == [r \in Requests |-> IF r = r3 THEN y ELSE x]
=============================================================================
