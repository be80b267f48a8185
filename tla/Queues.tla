--------------------------------- MODULE Queues ---------------------------------
(* What a queue keeps when some of its items are taken out of it, wherever in it *)
(* they stand: the splice of launch-coordinator.js and of action-executor.js, and *)
(* the answers that codex-rpc.js drops of the ones on their way.                 *)
EXTENDS Naturals, Sequences, FiniteSets

Elems(q) == {q[n] : n \in DOMAIN q}

\* The positions kept, the place a position gets among them, and back.
KeptAt(q, S) == {n \in DOMAIN q : q[n] \notin S}
Rank(I, n) == Cardinality({m \in I : m <= n})
Ranked(I, k) == CHOOSE n \in I : Rank(I, n) = k

Without(q, S) ==
  LET I == KeptAt(q, S) IN [k \in 1..Cardinality(I) |-> q[Ranked(I, k)]]
=============================================================================
