---------------------------- MODULE ActionExecutor ----------------------------
(***************************************************************************)
(* http/action-executor.js: one queue of actions per agent, a cache that    *)
(* answers a retry under the same Idempotency-Key with the first answer,    *)
(* deadlines, and shutdown with its grace period.                           *)
(*                                                                         *)
(* An action is what runs between two awaits.  Starting an item (#pump),    *)
(* calling the registry (a microtask later), its answer, and the release of *)
(* its place in the queue (the finally after it) are steps of their own, so *)
(* a request or the shutdown may come between any two.                      *)
(*                                                                         *)
(* Registry and adapter are external: a call may answer, or hang, and may   *)
(* go on after the deadline or the abort has answered for it.               *)
(***************************************************************************)
EXTENDS Queues

CONSTANTS
  Agents,
  Keys,          \* idempotency keys
  Requests,      \* agent, action and payload: what the signature tells apart
  AgentOf,       \* the agent each request is for
  Items,         \* bound: accepted requests alive at one time
  NoItem,
  PerAgentLimit, \* MAX_ACTIONS_PER_AGENT
  GlobalLimit,   \* MAX_ACTIONS_GLOBAL
  MaxEntries     \* MAX_IDEMPOTENCY_ENTRIES

ASSUME ExecutorAssumption ==
  /\ AgentOf \in [Requests -> Agents]
  /\ IsFiniteSet(Items) /\ NoItem \notin Items
  /\ {PerAgentLimit, GlobalLimit, MaxEntries} \subseteq Nat \ {0}

VARIABLES
  phase,    \* "up", "draining" (the grace period), "aborted" or "stopped"
  cache,    \* per key: the item and whether its promise "settled", or for
            \* so long that the entry has "expired"
  queue,    \* #queues
  queued,   \* #queued
  stage,    \* per item, how far it is
  request,  \* per item: its request
  keyed,    \* per item: the key it was accepted under
  calls     \* items whose adapter call is outstanding

executorVars == <<phase, cache, queue, queued, stage, request, keyed, calls>>

Stages == {"free", "queued", "started", "called", "answered", "done"}
Active == {"started", "called", "answered"}   \* #active
NoEntry == [item |-> NoItem, state |-> "none"]

ExecutorInit ==
  /\ phase = "up"
  /\ cache = [k \in Keys |-> NoEntry]
  /\ queue = [a \in Agents |-> <<>>] /\ queued = 0
  /\ stage = [i \in Items |-> "free"]
  /\ request = [i \in Items |-> CHOOSE r \in Requests : TRUE]
  /\ keyed = [i \in Items |-> CHOOSE k \in Keys : TRUE]
  /\ calls = {}

In(st, S) == {i \in Items : st[i] \in S}

\* Variant: what joins a queue is started at once.
PumpedAtOnce(st, q, a) ==
  IF q[a] # <<>> /\ st[q[a][Len(q[a])]] = "queued"
  THEN [st EXCEPT ![q[a][Len(q[a])]] = "started"] ELSE st

\* #pump: the head of the queue is started, unless it is already.
Pumped(st, q, a) ==
  IF q[a] # <<>> /\ st[Head(q[a])] = "queued"
  THEN [st EXCEPT ![Head(q[a])] = "started"] ELSE st

-----------------------------------------------------------------------------
(* execute().  Whatever becomes of a request, expired entries go first.     *)

\* Variant: an entry expires by its age alone, settled or not.
ExpirableUnsettled(k) == cache[k].state \in {"pending", "settled"}
Expirable(k) == cache[k].state = "settled"

Purged == [k \in Keys |-> IF cache[k].state = "expired" THEN NoEntry ELSE cache[k]]

\* An item nothing refers to any more.
Unused(i) ==
  /\ stage[i] \in {"free", "done"} /\ i \notin calls
  /\ \A k \in Keys : Purged[k].item # i

Accept(k, r) ==
  LET a == AgentOf[r]
  IN  /\ phase = "up"
      /\ Purged[k] = NoEntry
      /\ Cardinality({x \in Keys : Purged[x] # NoEntry}) < MaxEntries
      /\ Len(queue[a]) < PerAgentLimit /\ queued < GlobalLimit
      /\ \E i \in Items :
           /\ Unused(i) /\ i = CHOOSE j \in Items : Unused(j)
           /\ queue' = [queue EXCEPT ![a] = Append(@, i)]
           /\ queued' = queued + 1
           /\ cache' = [Purged EXCEPT ![k] = [item |-> i, state |-> "pending"]]
           /\ stage' = Pumped([stage EXCEPT ![i] = "queued"], queue', a)
           /\ request' = [request EXCEPT ![i] = r]
           /\ keyed' = [keyed EXCEPT ![i] = k]
      /\ UNCHANGED <<phase, calls>>

\* A replay, a conflict or a refusal.
Purge ==
  /\ Purged # cache
  /\ cache' = Purged
  /\ UNCHANGED <<phase, queue, queued, stage, request, keyed, calls>>

\* The clock passes the expiry of a settled entry.
Expire(k) ==
  /\ Expirable(k)
  /\ cache' = [cache EXCEPT ![k].state = "expired"]
  /\ UNCHANGED <<phase, queue, queued, stage, request, keyed, calls>>

-----------------------------------------------------------------------------
(* The life of an item. *)

\* A promise settles: its entry may expire from now on.
SettledEntries(S) ==
  [k \in Keys |-> IF cache[k].item \in S THEN [cache[k] EXCEPT !.state = "settled"]
                  ELSE cache[k]]
Answered(i) ==
  /\ stage' = [stage EXCEPT ![i] = "answered"]
  /\ cache' = SettledEntries({i})
  /\ UNCHANGED <<phase, queue, queued, request, keyed>>

\* registry.action asks the adapter.
Invoke(i) ==
  /\ stage[i] = "started" /\ phase # "aborted"
  /\ stage' = [stage EXCEPT ![i] = "called"]
  /\ calls' = calls \cup {i}
  /\ UNCHANGED <<phase, cache, queue, queued, request, keyed>>

\* Or refuses: no such agent, capability or approval, or already aborted.
Refuse(i) == stage[i] = "started" /\ Answered(i) /\ UNCHANGED calls

\* The adapter's promise settles, in time or not.
AdapterSettles(i) ==
  /\ i \in calls
  /\ calls' = calls \ {i}
  /\ IF stage[i] = "called" THEN Answered(i)
     ELSE UNCHANGED <<phase, cache, queue, queued, stage, request, keyed>>

\* The deadline answers and aborts; the adapter may not listen.
Deadline(i) == stage[i] = "called" /\ Answered(i) /\ UNCHANGED calls

\* Variant: the next item of the agent is not started.
ReleaseUnpumped(i) ==
  /\ stage[i] = "answered"
  /\ LET a == AgentOf[request[i]]
     IN  queue' = [queue EXCEPT ![a] = IF @ # <<>> /\ Head(@) = i THEN Tail(@) ELSE @]
  /\ stage' = [stage EXCEPT ![i] = "done"]
  /\ queued' = queued - 1
  /\ UNCHANGED <<phase, cache, request, keyed, calls>>

Release(i) ==
  /\ stage[i] = "answered"
  /\ LET a == AgentOf[request[i]]
     IN  /\ queue' = [queue EXCEPT ![a] = IF @ # <<>> /\ Head(@) = i THEN Tail(@) ELSE @]
         /\ stage' = Pumped([stage EXCEPT ![i] = "done"], queue', a)
  /\ queued' = queued - 1
  /\ UNCHANGED <<phase, cache, request, keyed, calls>>

-----------------------------------------------------------------------------
(* shutdown(). *)

\* Variant: the counter is set to zero, though active items will come off it.
ShutdownResettingCount ==
  /\ phase = "up" /\ phase' = "draining"
  /\ LET rejected == In(stage, {"queued"})
     IN  /\ queue' = [a \in Agents |-> Without(queue[a], rejected)]
         /\ queued' = 0
         /\ stage' = [i \in Items |-> IF i \in rejected THEN "done" ELSE stage[i]]
         /\ cache' = SettledEntries(rejected)
  /\ UNCHANGED <<request, keyed, calls>>

\* What was not started is rejected.
Shutdown ==
  /\ phase = "up" /\ phase' = "draining"
  /\ LET rejected == In(stage, {"queued"})
     IN  /\ queue' = [a \in Agents |-> Without(queue[a], rejected)]
         /\ queued' = queued - Cardinality(rejected)
         /\ stage' = [i \in Items |-> IF i \in rejected THEN "done" ELSE stage[i]]
         /\ cache' = SettledEntries(rejected)
  /\ UNCHANGED <<request, keyed, calls>>

\* The active items are done, or the grace period is over and they are
\* aborted: that too answers for their calls.
ShutdownEnds ==
  /\ phase = "draining"
  /\ phase' = IF In(stage, Active) = {} THEN "stopped" ELSE "aborted"
  /\ UNCHANGED <<cache, queue, queued, stage, request, keyed, calls>>

-----------------------------------------------------------------------------
Works(i) == Invoke(i) \/ Refuse(i) \/ Deadline(i) \/ Release(i)

ExecutorNext ==
  \/ \E k \in Keys : (\E r \in Requests : Accept(k, r)) \/ Expire(k)
  \/ Purge \/ Shutdown \/ ShutdownEnds
  \/ \E i \in Items : Works(i) \/ AdapterSettles(i)

\* Timers fire and microtasks run; no adapter has to answer, no client to
\* retry and nobody to stop the service.
ExecutorSpec ==
  /\ ExecutorInit /\ [][ExecutorNext]_executorVars
  /\ \A i \in Items : WF_executorVars(Works(i))

-----------------------------------------------------------------------------
(* Properties. *)

\* The shape of the executor's memory.
ExecutorTypeOK ==
  /\ phase \in {"up", "draining", "aborted", "stopped"}
  /\ cache \in [Keys -> [item: Items, state: {"pending", "settled", "expired"}]
                        \cup {NoEntry}]
  /\ queue \in [Agents -> Seq(Items)] /\ queued \in Nat
  /\ stage \in [Items -> Stages] /\ request \in [Items -> Requests]
  /\ keyed \in [Items -> Keys] /\ calls \subseteq Items

\* The counter that admits requests counts those that are waiting or active:
\* if it ran ahead the service would refuse work for good, if it fell behind
\* the global limit would not hold.
QueuedIsCounted ==
  /\ queued = Cardinality(In(stage, {"queued"} \cup Active))
  /\ \A a \in Agents :
       {queue[a][n] : n \in DOMAIN queue[a]} =
         {i \in In(stage, {"queued"} \cup Active) : AgentOf[request[i]] = a}

\* An agent's requests have their turns one by one in the order they were
\* accepted, and shutdown and answers in between do not change that.
OneTurnPerAgent ==
  \A i \in In(stage, Active) : Head(queue[AgentOf[request[i]]]) = i

\* A request that has not been answered is found under its key by every
\* retry, however long it takes: it is not run a second time.
RetriesJoin ==
  \A i \in In(stage, {"queued", "started", "called"}) : cache[keyed[i]].item = i

\* Every accepted request is answered, though its adapter hangs, or the
\* adapter of the request before it.
RequestsAnswered ==
  \A i \in Items :
    stage[i] \in {"queued", "started", "called"} ~> stage[i] \in {"answered", "done"}
=============================================================================
