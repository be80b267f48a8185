------------------------ MODULE MCLaunchCoordinator ------------------------
(***************************************************************************)
(* Small coordinators for TLC.                                              *)
(***************************************************************************)
EXTENDS LaunchCoordinator, TLC

CONSTANTS a, b, k1, k2, k3, k4, r1, r2, p1, p2

Record(state, key, r) ==
  [state |-> state, key |-> key, retireKey |-> NoKey, request |-> r]
Table(f) == [i \in Ids |-> IF i \in DOMAIN f THEN f[i] ELSE Absent]

\* Two owned launches of one provider.
OwnedPair ==
  Table(a :> Record("owned", k1, r1) @@ b :> Record("owned", k2, r1))

NoLegacy == {}
LegacyOfOne == {OwnedPair}
OneOwned == {Table(a :> Record("owned", k1, r1))}
OneProvider == [r \in Requests |-> p1]
TwoProviders == r1 :> p1 @@ r2 :> p2

OneKey == [i \in Ids |-> {k3}]
OneRetirement == [i \in Ids |-> IF i = a THEN {k3} ELSE {}]
OwnKeys == [i \in Ids |-> IF i = a THEN {k3} ELSE IF i = b THEN {k4} ELSE {}]

\* Without a version-1 file the launches are interchangeable.
AlikeIds == Permutations(Ids)
=============================================================================
