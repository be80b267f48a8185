-------------------------- MODULE ActionExecutorProofs --------------------------
\* The queues of the action executor, for any number of agents, keys and items.
\*
\* The invariant relates three views of the same requests: the stage each one is
\* in, the queue of its agent, and the entry of the cache under its key.
EXTENDS ActionExecutor, QueuesProofs

Live == {"queued"} \cup Active
Unanswered == {"queued", "started", "called"}

\* A queue holds the live requests of its agent, each once, and only the one
\* at its head may have been started.
Lined(st, q, rq) ==
  /\ st \in [Items -> Stages] /\ q \in [Agents -> Seq(Items)]
  /\ \A i \in Items : st[i] \in Live =>
       rq[i] \in Requests /\ i \in Elems(q[AgentOf[rq[i]]])
  /\ \A a \in Agents :
       /\ Once(q[a])
       /\ \A n \in DOMAIN q[a] : /\ st[q[a][n]] \in Live /\ AgentOf[rq[q[a][n]]] = a
                                 /\ n # 1 => st[q[a][n]] = "queued"

\* A retry under the key of a request that is not answered finds it.
Found(st, ky, ca) ==
  \A i \in Items : st[i] \in Unanswered =>
    ky[i] \in Keys /\ ca[ky[i]] = [item |-> i, state |-> "pending"]

ExecutorInv ==
  /\ request = [i \in Items |-> request[i]] /\ keyed = [i \in Items |-> keyed[i]]
  /\ cache = [k \in Keys |-> cache[k]]
  /\ Lined(stage, queue, request)
  /\ Found(stage, keyed, cache)
  /\ queued = Cardinality(In(stage, Live))

-----------------------------------------------------------------------------
(* Queues and stages. *)

\* The sets of stages, by their members.
LEMMA StageSets ==
  /\ Active = {"started", "called", "answered"}
  /\ Live = {"queued", "started", "called", "answered"}
  /\ Stages = {"free", "queued", "started", "called", "answered", "done"}
  BY DEF Active, Live, Stages

\* The head of a queue is its first item.
LEMMA HeadFirst ==
  ASSUME NEW q \in Seq(Items), q # <<>>
  PROVE  1 \in DOMAIN q /\ Head(q) = q[1] /\ Head(q) \in Items
  OBVIOUS

\* A started request is the head of its queue.
LEMMA ActiveHead ==
  ASSUME NEW st, NEW q, NEW rq, Lined(st, q, rq), NEW i \in Items, st[i] \in Active
  PROVE  /\ rq[i] \in Requests /\ AgentOf[rq[i]] \in Agents
         /\ q[AgentOf[rq[i]]] # <<>> /\ Head(q[AgentOf[rq[i]]]) = i
<1> DEFINE a == AgentOf[rq[i]]
<1>1. rq[i] \in Requests /\ i \in Elems(q[a])
  BY StageSets DEF Lined
<1>2. a \in Agents
  BY <1>1, ExecutorAssumption
<1>3. PICK n \in DOMAIN q[a] : q[a][n] = i
  BY <1>1 DEF Elems
<1>4. n = 1
  BY <1>2, <1>3, StageSets DEF Lined
<1>5. q[a] \in Seq(Items)
  BY <1>2 DEF Lined
<1> QED
  BY <1>1, <1>2, <1>3, <1>4, <1>5

\* Starting the head keeps the queues lined and counts the same.
LEMMA PumpedLined ==
  ASSUME NEW st, NEW q, NEW rq, Lined(st, q, rq), NEW a \in Agents
  PROVE  /\ Lined(Pumped(st, q, a), q, rq)
         /\ In(Pumped(st, q, a), Live) = In(st, Live)
         /\ In(Pumped(st, q, a), Unanswered) = In(st, Unanswered)
<1>1. CASE q[a] # <<>> /\ st[Head(q[a])] = "queued"
  <2> DEFINE h == Head(q[a])  new == [st EXCEPT ![h] = "started"]
  <2>1. h \in Items /\ 1 \in DOMAIN q[a] /\ h = q[a][1]
    BY <1>1, HeadFirst DEF Lined
  <2>2. Pumped(st, q, a) = new
    BY <1>1 DEF Pumped
  <2>3. new \in [Items -> Stages] /\ \A i \in Items : new[i] = IF i = h THEN "started" ELSE st[i]
    BY <2>1, StageSets DEF Lined
  <2>4. In(new, Live) = In(st, Live) /\ In(new, Unanswered) = In(st, Unanswered)
    BY <1>1, <2>1, <2>3, StageSets DEF In, Unanswered
  <2>5. ASSUME NEW b \in Agents, NEW n \in DOMAIN q[b]
        PROVE  /\ new[q[b][n]] \in Live
               /\ n # 1 => new[q[b][n]] = "queued"
    <3>1. q[b][n] \in Items
      BY DEF Lined
    <3>2. q[b][n] = h => n = 1
      <4> SUFFICES ASSUME q[b][n] = h PROVE n = 1
        OBVIOUS
      <4>1. b = a
        BY <2>1 DEF Lined
      <4> QED
        BY <2>1, <4>1 DEF Lined, Once
    <3> QED
      BY <2>3, <3>1, <3>2, StageSets DEF Lined
  <2>6. Lined(new, q, rq)
    <3>1. \A i \in Items : new[i] \in Live => st[i] \in Live
      BY <1>1, <2>3, StageSets
    <3> HIDE DEF new
    <3> QED
      BY <2>3, <2>5, <3>1 DEF Lined
  <2> QED
    BY <2>2, <2>4, <2>6
<1>2. CASE ~(q[a] # <<>> /\ st[Head(q[a])] = "queued")
  BY <1>2 DEF Pumped
<1> QED
  BY <1>1, <1>2

\* A request joins the queue of its agent.
LEMMA JoinsLined ==
  ASSUME NEW st, NEW q, NEW rq, Lined(st, q, rq), rq = [i \in Items |-> rq[i]],
         NEW i \in Items, st[i] \notin Live, NEW r \in Requests
  PROVE  Lined([st EXCEPT ![i] = "queued"],
               [q EXCEPT ![AgentOf[r]] = Append(@, i)], [rq EXCEPT ![i] = r])
<1> DEFINE a == AgentOf[r]  old == q[a]
           new == [st EXCEPT ![i] = "queued"]
           more == Append(old, i)  nq == [q EXCEPT ![a] = more]
           nr == [rq EXCEPT ![i] = r]
<1>1. a \in Agents /\ old \in Seq(Items)
  BY ExecutorAssumption DEF Lined
<1>2. /\ more \in Seq(Items)
      /\ DOMAIN more = DOMAIN old \cup {Len(old) + 1}
      /\ more[Len(old) + 1] = i /\ Len(old) + 1 \notin DOMAIN old
      /\ \A n \in DOMAIN old : more[n] = old[n]
  BY <1>1
<1>3. \A b \in Agents : nq[b] = IF b = a THEN more ELSE q[b]
  BY <1>1 DEF Lined
<1>4. nq \in [Agents -> Seq(Items)]
  BY <1>1, <1>2 DEF Lined
<1>5. \A j \in Items : /\ new[j] = IF j = i THEN "queued" ELSE st[j]
                       /\ nr[j] = IF j = i THEN r ELSE rq[j]
  BY DEF Lined
<1>6. new \in [Items -> Stages]
  BY StageSets DEF Lined
<1>7. ASSUME NEW b \in Agents, NEW n \in DOMAIN q[b]
      PROVE  q[b][n] \in Items /\ q[b][n] # i
  <2>1. q[b] \in Seq(Items) /\ st[q[b][n]] \in Live
    BY DEF Lined
  <2> QED
    BY <2>1
<1>11. old = q[a]
  OBVIOUS
<1>12. a = AgentOf[r]
  OBVIOUS
<1> HIDE DEF new, nq, nr, old, a, more
<1>8. ASSUME NEW j \in Items, new[j] \in Live
      PROVE  nr[j] \in Requests /\ j \in Elems(nq[AgentOf[nr[j]]])
  <2>1. CASE j = i
    BY <1>1, <1>2, <1>3, <1>5, <1>12, <2>1 DEF Elems
  <2>2. CASE j # i
    <3>1. rq[j] \in Requests /\ j \in Elems(q[AgentOf[rq[j]]]) /\ AgentOf[rq[j]] \in Agents
      BY <1>5, <1>8, <2>2, ExecutorAssumption DEF Lined
    <3> QED
      BY <1>2, <1>3, <1>5, <1>11, <2>2, <3>1 DEF Elems
  <2> QED
    BY <2>1, <2>2
<1>9. ASSUME NEW b \in Agents, NEW n \in DOMAIN nq[b]
      PROVE  /\ new[nq[b][n]] \in Live /\ AgentOf[nr[nq[b][n]]] = b
             /\ n # 1 => new[nq[b][n]] = "queued"
  <2>1. CASE n \in DOMAIN q[b] /\ nq[b][n] = q[b][n]
    <3>1. /\ st[q[b][n]] \in Live /\ AgentOf[rq[q[b][n]]] = b
          /\ n # 1 => st[q[b][n]] = "queued"
      BY <2>1 DEF Lined
    <3>2. q[b][n] \in Items /\ q[b][n] # i
      BY <1>7, <2>1
    <3> QED
      BY <1>5, <2>1, <3>1, <3>2
  <2>2. CASE b = a /\ nq[b][n] = i
    BY <1>5, <1>12, <2>2, StageSets
  <2> QED
    BY <1>2, <1>3, <1>11, <2>1, <2>2
<1>10. ASSUME NEW b \in Agents
       PROVE  Once(nq[b])
  <2>1. Once(q[b])
    BY DEF Lined
  <2>2. CASE b = a
    <3>1. \A n \in DOMAIN old : old[n] # i
      BY <1>1, <1>7, <1>11
    <3> QED
      BY <1>2, <1>3, <1>11, <2>1, <2>2, <3>1 DEF Once
  <2> QED
    BY <1>3, <2>1, <2>2
<1> QED
  BY <1>4, <1>6, <1>8, <1>9, <1>10 DEF Lined, new, nq, nr, old, a, more

\* An answered request leaves the head of its queue.
LEMMA LeavesLined ==
  ASSUME NEW st, NEW q, NEW rq, Lined(st, q, rq), NEW i \in Items, st[i] \in Active
  PROVE  Lined([st EXCEPT ![i] = "done"], [q EXCEPT ![AgentOf[rq[i]]] = Tail(@)], rq)
<1> DEFINE a == AgentOf[rq[i]]  old == q[a]
           new == [st EXCEPT ![i] = "done"]  rest == Tail(old)
           nq == [q EXCEPT ![a] = rest]
<1>1. a \in Agents /\ old # <<>> /\ Head(old) = i /\ old \in Seq(Items)
  BY ActiveHead DEF Lined
<1>2. /\ rest \in Seq(Items)
      /\ \A n \in DOMAIN rest : n \in Nat \ {0} /\ n + 1 \in DOMAIN old /\ rest[n] = old[n + 1]
      /\ \A m \in DOMAIN old : m # 1 => m - 1 \in DOMAIN rest /\ m \in Nat /\ rest[m - 1] = old[m]
      /\ 1 \in DOMAIN old /\ old[1] = i
  BY SMTT(30), <1>1
<1>3. \A b \in Agents : nq[b] = IF b = a THEN rest ELSE q[b]
  BY <1>1 DEF Lined
<1>4. nq \in [Agents -> Seq(Items)]
  BY <1>1, <1>2 DEF Lined
<1>5. /\ new \in [Items -> Stages]
      /\ \A j \in Items : new[j] = IF j = i THEN "done" ELSE st[j]
  BY StageSets DEF Lined
<1>10. old = q[a] /\ a = AgentOf[rq[i]]
  OBVIOUS
<1> HIDE DEF new, nq, old, a, rest
<1>6. ASSUME NEW b \in Agents, NEW n \in DOMAIN nq[b]
      PROVE  \E m \in DOMAIN q[b] : /\ q[b][m] = nq[b][n] /\ q[b][m] # i
                                    /\ b = a => m = n + 1
                                    /\ b # a => m = n
  <2>1. CASE b = a
    <3>1. n + 1 \in DOMAIN old /\ nq[b][n] = old[n + 1] /\ n + 1 # 1 /\ 1 \in DOMAIN old
      BY <1>2, <1>3, <2>1
    <3>2. old[n + 1] # i
      <4>1. Once(old)
        BY <1>1, <1>10 DEF Lined
      <4> QED
        BY <1>2, <3>1, <4>1 DEF Once
    <3> QED
      BY <1>10, <2>1, <3>1, <3>2
  <2>2. CASE b # a
    <3>1. n \in DOMAIN q[b] /\ AgentOf[rq[q[b][n]]] = b
      BY <1>3, <2>2 DEF Lined
    <3> QED
      BY <1>3, <1>10, <2>2, <3>1
  <2> QED
    BY <2>1, <2>2
<1>7. ASSUME NEW b \in Agents, NEW n \in DOMAIN nq[b]
      PROVE  /\ new[nq[b][n]] \in Live /\ AgentOf[rq[nq[b][n]]] = b
             /\ n # 1 => new[nq[b][n]] = "queued"
  <2>1. PICK m \in DOMAIN q[b] : /\ q[b][m] = nq[b][n] /\ q[b][m] # i
                                 /\ b = a => m = n + 1
                                 /\ b # a => m = n
    BY <1>6
  <2>2. q[b][m] \in Items /\ st[q[b][m]] \in Live /\ AgentOf[rq[q[b][m]]] = b
    BY DEF Lined
  <2>3. n # 1 => m # 1
    <3>1. CASE b = a
      BY <1>2, <1>3, <2>1, <3>1
    <3> QED
      BY <2>1, <3>1
  <2> QED
    BY <1>5, <2>1, <2>2, <2>3 DEF Lined
<1>8. ASSUME NEW j \in Items, new[j] \in Live
      PROVE  rq[j] \in Requests /\ j \in Elems(nq[AgentOf[rq[j]]])
  <2>1. j # i /\ st[j] \in Live
    BY <1>5, <1>8, StageSets
  <2>2. rq[j] \in Requests /\ AgentOf[rq[j]] \in Agents /\ j \in Elems(q[AgentOf[rq[j]]])
    BY <2>1, ExecutorAssumption DEF Lined
  <2>3. CASE AgentOf[rq[j]] = a
    <3>1. PICK m \in DOMAIN old : old[m] = j
      BY <1>10, <2>2, <2>3 DEF Elems
    <3>2. m - 1 \in DOMAIN rest /\ rest[m - 1] = j
      BY <1>2, <2>1, <3>1
    <3> QED
      BY <1>3, <2>2, <2>3, <3>2 DEF Elems
  <2> QED
    BY <1>3, <2>2, <2>3
<1>9. ASSUME NEW b \in Agents
      PROVE  Once(nq[b])
  <2>1. Once(q[b])
    BY DEF Lined
  <2>2. CASE b = a
    <3>1. ASSUME NEW m \in DOMAIN rest, NEW n \in DOMAIN rest, rest[m] = rest[n]
          PROVE  m = n
      <4>1. m + 1 = n + 1
        BY <1>2, <1>10, <2>1, <2>2, <3>1 DEF Once
      <4> QED
        BY <1>2, <4>1
    <3> QED
      BY <1>3, <2>2, <3>1 DEF Once
  <2> QED
    BY <1>3, <2>1, <2>2
<1> QED
  BY <1>4, <1>5, <1>7, <1>8, <1>9 DEF Lined, new, nq, old, a, rest

\* A started request that goes on without leaving the queue.
LEMMA MovesLined ==
  ASSUME NEW st, NEW q, NEW rq, Lined(st, q, rq), NEW i \in Items, st[i] \in Active,
         NEW to \in Active
  PROVE  /\ Lined([st EXCEPT ![i] = to], q, rq)
         /\ In([st EXCEPT ![i] = to], Live) = In(st, Live)
<1> DEFINE new == [st EXCEPT ![i] = to]
<1>1. /\ new \in [Items -> Stages]
      /\ \A j \in Items : new[j] = IF j = i THEN to ELSE st[j]
  BY StageSets DEF Lined
<1>2. In(new, Live) = In(st, Live)
  BY <1>1, StageSets DEF In
<1> HIDE DEF new
<1>3. ASSUME NEW a \in Agents, NEW n \in DOMAIN q[a]
      PROVE  new[q[a][n]] \in Live /\ (n # 1 => new[q[a][n]] = "queued")
  <2>1. q[a] \in Seq(Items) /\ st[q[a][n]] \in Live /\ (n # 1 => st[q[a][n]] = "queued")
    BY DEF Lined
  <2>2. q[a][n] \in Items
    BY <2>1
  <2> QED
    BY <1>1, <2>1, <2>2, StageSets
<1>4. \A j \in Items : new[j] \in Live => st[j] \in Live
  BY <1>1, StageSets
<1> QED
  BY <1>1, <1>2, <1>3, <1>4 DEF Lined, new

\* What was not started leaves its queue.
LEMMA RejectsLined ==
  ASSUME NEW st, NEW q, NEW rq, Lined(st, q, rq)
  PROVE  Lined([i \in Items |-> IF i \in In(st, {"queued"}) THEN "done" ELSE st[i]],
               [a \in Agents |-> Without(q[a], In(st, {"queued"}))], rq)
<1> DEFINE S == In(st, {"queued"})
           new == [i \in Items |-> IF i \in S THEN "done" ELSE st[i]]
           nq == [a \in Agents |-> Without(q[a], S)]
<1>1. /\ new \in [Items -> Stages]
      /\ \A j \in Items : /\ j \notin S => new[j] = st[j]
                          /\ j \in S <=> st[j] = "queued"
                          /\ new[j] \in Live => j \notin S
  BY StageSets DEF Lined, In
<1>2. ASSUME NEW a \in Agents
      PROVE  /\ nq[a] \in Seq(Items) /\ Elems(nq[a]) = Elems(q[a]) \ S
             /\ Once(nq[a]) /\ InOrder(nq[a], q[a])
  <2>1. q[a] \in Seq(Items) /\ Once(q[a])
    BY DEF Lined
  <2> HIDE DEF S
  <2> QED
    BY <2>1, WithoutItems
<1>3. nq \in [Agents -> Seq(Items)]
  BY <1>2
<1> HIDE DEF new, nq, S
<1>4. ASSUME NEW j \in Items, new[j] \in Live
      PROVE  rq[j] \in Requests /\ j \in Elems(nq[AgentOf[rq[j]]])
  <2>1. j \notin S /\ st[j] \in Live
    BY <1>1, <1>4
  <2>2. rq[j] \in Requests /\ AgentOf[rq[j]] \in Agents /\ j \in Elems(q[AgentOf[rq[j]]])
    BY <2>1, ExecutorAssumption DEF Lined
  <2> QED
    BY <1>2, <2>1, <2>2
<1>5. ASSUME NEW a \in Agents, NEW n \in DOMAIN nq[a]
      PROVE  nq[a][n] \in Items /\ nq[a][n] \notin S
             /\ \E m \in DOMAIN q[a] : q[a][m] = nq[a][n]
  <2>1. nq[a][n] \in Elems(q[a]) \ S
    BY <1>2 DEF Elems
  <2>2. nq[a] \in Seq(Items)
    BY <1>2
  <2> QED
    BY <2>1, <2>2 DEF Elems
<1>6. ASSUME NEW a \in Agents, NEW n \in DOMAIN nq[a]
      PROVE  /\ new[nq[a][n]] \in Live /\ AgentOf[rq[nq[a][n]]] = a
             /\ n = 1
  <2>1. PICK m \in DOMAIN q[a] : q[a][m] = nq[a][n]
    BY <1>5
  <2>2. /\ st[q[a][m]] \in Live /\ AgentOf[rq[q[a][m]]] = a
        /\ m # 1 => st[q[a][m]] = "queued"
    BY DEF Lined
  <2>3. m = 1 /\ new[nq[a][n]] \in Live
    BY <1>1, <1>5, <2>1, <2>2
  <2>4. n = 1
    <3> SUFFICES ASSUME n # 1 PROVE FALSE
      OBVIOUS
    <3>1. 1 \in DOMAIN nq[a] /\ 1 < n
      <4>1. nq[a] \in Seq(Items)
        BY <1>2
      <4> QED
        BY <4>1
    <3>2. PICK k \in DOMAIN q[a], l \in DOMAIN q[a] : k < l /\ q[a][l] = nq[a][n]
      BY <1>2, <3>1 DEF InOrder
    <3>3. l # 1
      <4>1. q[a] \in Seq(Items)
        BY DEF Lined
      <4> QED
        BY <3>2, <4>1
    <3>4. st[q[a][l]] = "queued"
      BY <3>3 DEF Lined
    <3> QED
      BY <1>1, <1>5, <3>2, <3>4
  <2> QED
    BY <2>1, <2>2, <2>3, <2>4
<1>7. Lined(new, nq, rq)
  BY <1>1, <1>2, <1>3, <1>4, <1>6 DEF Lined
<1> QED
  BY <1>7 DEF new, nq, S

-----------------------------------------------------------------------------
(* The cache. *)

\* The promise of one request settles; the other entries stay.
LEMMA AnsweredFound ==
  ASSUME NEW st, NEW nst, NEW ky, NEW S, cache = [k \in Keys |-> cache[k]],
         Found(st, ky, cache),
         \A i \in Items : nst[i] \in Unanswered => i \notin S /\ st[i] \in Unanswered
  PROVE  /\ Found(nst, ky, SettledEntries(S))
         /\ SettledEntries(S) = [k \in Keys |-> SettledEntries(S)[k]]
  BY DEF Found, SettledEntries

\* Only what has expired is dropped, and nothing that is awaited.
LEMMA PurgedFound ==
  ASSUME NEW st, NEW ky, Found(st, ky, cache)
  PROVE  Found(st, ky, Purged) /\ Purged = [k \in Keys |-> Purged[k]]
  BY DEF Found, Purged

-----------------------------------------------------------------------------
(* The steps. *)

\* The items of some stages can be counted.
LEMMA FiniteStages == \A st, S : IsFiniteSet(In(st, S)) /\ Cardinality(In(st, S)) \in Nat
<1>1. \A st, S : In(st, S) \in SUBSET Items
  BY DEF In
<1> QED
  BY <1>1, ExecutorAssumption, FS_Subset, FS_CardinalityType

\* An executor that has just begun has nothing to do.
LEMMA ExecutorInitInv == ExecutorInit => ExecutorInv
<1> SUFFICES ASSUME ExecutorInit PROVE ExecutorInv
  OBVIOUS
<1>1. In(stage, Live) = {}
  BY StageSets DEF ExecutorInit, In
<1>2. queued = Cardinality(In(stage, Live))
  BY <1>1, FS_EmptySet DEF ExecutorInit
<1>3. Lined(stage, queue, request)
  BY StageSets DEF ExecutorInit, Lined, Once
<1>4. Found(stage, keyed, cache)
  BY DEF ExecutorInit, Found, Unanswered
<1> QED
  BY <1>2, <1>3, <1>4 DEF ExecutorInit, ExecutorInv

\* A request is accepted at the end of its queue.
LEMMA AcceptInv ==
  ASSUME ExecutorInv, NEW k \in Keys, NEW r \in Requests, Accept(k, r)
  PROVE  ExecutorInv'
<1> DEFINE a == AgentOf[r]
<1>1. PICK i \in Items :
        /\ Unused(i)
        /\ queue' = [queue EXCEPT ![a] = Append(@, i)]
        /\ queued' = queued + 1
        /\ cache' = [Purged EXCEPT ![k] = [item |-> i, state |-> "pending"]]
        /\ stage' = Pumped([stage EXCEPT ![i] = "queued"], queue', a)
        /\ request' = [request EXCEPT ![i] = r]
        /\ keyed' = [keyed EXCEPT ![i] = k]
  BY DEF Accept
<1> DEFINE mid == [stage EXCEPT ![i] = "queued"]
<1>2. a \in Agents
  BY ExecutorAssumption
<1>3. stage[i] \notin Live /\ stage \in [Items -> Stages]
  BY <1>1, StageSets DEF Unused, ExecutorInv, Lined
<1>4. Lined(mid, queue', request')
  BY <1>1, <1>3, JoinsLined DEF ExecutorInv
<1>5. \A j \in Items : mid[j] = IF j = i THEN "queued" ELSE stage[j]
  BY <1>3
<1> HIDE DEF mid
<1>6. /\ Lined(stage', queue', request') /\ In(stage', Live) = In(mid, Live)
      /\ In(stage', Unanswered) = In(mid, Unanswered)
  BY <1>1, <1>2, <1>4, PumpedLined DEF mid
<1>7. queued' = Cardinality(In(stage', Live))
  <2>1. In(mid, Live) = In(stage, Live) \cup {i} /\ i \notin In(stage, Live)
    BY <1>3, <1>5, StageSets DEF In
  <2>2. Cardinality(In(stage, Live) \cup {i}) = Cardinality(In(stage, Live)) + 1
    BY <2>1, FiniteStages, FS_AddElement
  <2> QED
    BY <1>1, <1>6, <2>1, <2>2 DEF ExecutorInv
<1>8. Purged[k] = NoEntry
  BY DEF Accept
<1>9. Found(stage, keyed, Purged) /\ Purged = [x \in Keys |-> Purged[x]]
  BY PurgedFound DEF ExecutorInv
<1>10. Found(stage', keyed', cache')
  <2> SUFFICES ASSUME NEW j \in Items, stage'[j] \in Unanswered
               PROVE  /\ keyed'[j] \in Keys
                      /\ cache'[keyed'[j]] = [item |-> j, state |-> "pending"]
    BY DEF Found
  <2>1. mid[j] \in Unanswered
    BY <1>6 DEF In
  <2>2. \A x \in Items : keyed'[x] = IF x = i THEN k ELSE keyed[x]
    BY <1>1 DEF ExecutorInv
  <2>3. \A x \in Keys : cache'[x] = IF x = k THEN [item |-> i, state |-> "pending"]
                                     ELSE Purged[x]
    BY <1>1, <1>9
  <2>4. CASE j = i
    BY <2>2, <2>3, <2>4
  <2>5. CASE j # i
    <3>1. keyed[j] \in Keys /\ Purged[keyed[j]] = [item |-> j, state |-> "pending"]
      BY <1>5, <1>9, <2>1, <2>5 DEF Found
    <3>2. keyed[j] # k
      BY <1>8, <3>1 DEF NoEntry
    <3> QED
      BY <2>2, <2>3, <2>5, <3>1, <3>2
  <2> QED
    BY <2>4, <2>5
<1> QED
  BY <1>1, <1>6, <1>7, <1>9, <1>10 DEF ExecutorInv

\* Entries expire and are dropped.
LEMMA PurgeInv ==
  ASSUME ExecutorInv, Purge \/ \E k \in Keys : Expire(k)
  PROVE  ExecutorInv'
<1>1. CASE Purge
  BY <1>1, PurgedFound DEF Purge, ExecutorInv
<1>2. ASSUME NEW k \in Keys, Expire(k)
      PROVE  ExecutorInv'
  <2>1. cache' = [cache EXCEPT ![k].state = "expired"] /\ cache[k].state = "settled"
    BY <1>2 DEF Expire, Expirable
  <2>2. Found(stage, keyed, cache') /\ cache' = [x \in Keys |-> cache'[x]]
    BY <2>1 DEF ExecutorInv, Found
  <2> QED
    BY <1>2, <2>2 DEF Expire, ExecutorInv
<1> QED
  BY <1>1, <1>2

\* A request that was started is called or answered.
LEMMA AnsweredInv ==
  ASSUME ExecutorInv, NEW i \in Items, stage[i] \in {"started", "called"}, Answered(i)
  PROVE  ExecutorInv'
<1>1. stage' = [stage EXCEPT ![i] = "answered"] /\ stage \in [Items -> Stages]
  BY DEF Answered, ExecutorInv, Lined
<1>2. Lined(stage', queue, request) /\ In(stage', Live) = In(stage, Live)
  BY <1>1, MovesLined, StageSets DEF ExecutorInv
<1>3. \A j \in Items : stage'[j] \in Unanswered => j \notin {i} /\ stage[j] \in Unanswered
  BY <1>1 DEF Unanswered
<1>4. cache' = SettledEntries({i}) /\ Found(stage, keyed, cache)
  BY DEF Answered, ExecutorInv
<1>5. Found(stage', keyed, SettledEntries({i}))
  BY <1>3, <1>4, AnsweredFound DEF ExecutorInv
<1>6. cache' = [k \in Keys |-> cache'[k]]
  BY <1>4 DEF SettledEntries
<1> QED
  BY <1>2, <1>4, <1>5, <1>6 DEF Answered, ExecutorInv

\* An item goes through its stages, and its adapter answers.
LEMMA WorksInv ==
  ASSUME ExecutorInv, NEW i \in Items, Works(i) \/ AdapterSettles(i)
  PROVE  ExecutorInv'
<1>1. CASE Invoke(i)
  <2>1. stage' = [stage EXCEPT ![i] = "called"] /\ stage[i] = "started"
        /\ stage \in [Items -> Stages]
    BY <1>1 DEF Invoke, ExecutorInv, Lined
  <2>2. Lined(stage', queue, request) /\ In(stage', Live) = In(stage, Live)
    BY <2>1, MovesLined, StageSets DEF ExecutorInv
  <2>3. Found(stage', keyed, cache)
    BY <2>1 DEF Found, ExecutorInv, Unanswered
  <2> QED
    BY <1>1, <2>2, <2>3 DEF Invoke, ExecutorInv
<1>2. CASE Refuse(i) \/ Deadline(i) \/ (AdapterSettles(i) /\ stage[i] = "called")
  BY <1>2, AnsweredInv DEF Refuse, Deadline, AdapterSettles
<1>3. CASE AdapterSettles(i) /\ stage[i] # "called"
  BY <1>3 DEF AdapterSettles, ExecutorInv
<1>4. CASE Release(i)
  <2> DEFINE a == AgentOf[request[i]]  mid == [stage EXCEPT ![i] = "done"]
  <2>1. stage[i] = "answered" /\ stage \in [Items -> Stages] /\ queue \in [Agents -> Seq(Items)]
    BY <1>4 DEF Release, ExecutorInv, Lined
  <2>2. a \in Agents /\ queue[a] # <<>> /\ Head(queue[a]) = i
    BY <2>1, ActiveHead, StageSets DEF ExecutorInv
  <2>3. queue' = [queue EXCEPT ![a] = Tail(@)] /\ stage' = Pumped(mid, queue', a)
    BY <1>4, <2>2 DEF Release
  <2>4. Lined(mid, queue', request)
    BY <2>1, <2>3, LeavesLined, StageSets DEF ExecutorInv
  <2>5. \A j \in Items : mid[j] = IF j = i THEN "done" ELSE stage[j]
    BY <2>1
  <2> HIDE DEF mid
  <2>6. /\ Lined(stage', queue', request) /\ In(stage', Live) = In(mid, Live)
        /\ In(stage', Unanswered) = In(mid, Unanswered)
    BY <2>2, <2>3, <2>4, PumpedLined
  <2>7. queued' = Cardinality(In(stage', Live))
    <3>1. In(mid, Live) = In(stage, Live) \ {i} /\ i \in In(stage, Live)
      BY <2>1, <2>5, StageSets DEF In
    <3>2. Cardinality(In(stage, Live) \ {i}) = Cardinality(In(stage, Live)) - 1
      BY <3>1, FiniteStages, FS_RemoveElement
    <3> QED
      BY <1>4, <2>6, <3>1, <3>2 DEF Release, ExecutorInv
  <2>8. Found(stage', keyed, cache)
    <3>1. \A j \in Items : stage'[j] \in Unanswered => stage[j] \in Unanswered
      BY <2>5, <2>6 DEF In, Unanswered
    <3> QED
      BY <3>1 DEF Found, ExecutorInv
  <2> QED
    BY <1>4, <2>6, <2>7, <2>8 DEF Release, ExecutorInv
<1> QED
  BY <1>1, <1>2, <1>3, <1>4 DEF Works

\* Shutdown rejects what was not started.
LEMMA ShutdownInv ==
  ASSUME ExecutorInv, Shutdown \/ ShutdownEnds
  PROVE  ExecutorInv'
<1>1. CASE Shutdown
  <2> DEFINE S == In(stage, {"queued"})
  <2>1. /\ queue' = [a \in Agents |-> Without(queue[a], S)]
        /\ queued' = queued - Cardinality(S)
        /\ stage' = [i \in Items |-> IF i \in S THEN "done" ELSE stage[i]]
        /\ cache' = SettledEntries(S)
    BY <1>1 DEF Shutdown
  <2>2. Lined(stage', queue', request)
    BY <2>1, RejectsLined DEF ExecutorInv
  <2>3. stage \in [Items -> Stages]
    BY DEF ExecutorInv, Lined
  <2>4. queued' = Cardinality(In(stage', Live))
    <3>1. In(stage', Live) = In(stage, Live) \ S /\ In(stage, Live) \cap S = S
      BY <2>1, StageSets DEF In
    <3>2. Cardinality(In(stage, Live) \ S) = Cardinality(In(stage, Live)) - Cardinality(S)
      BY ZenonT(60), <3>1, FiniteStages, FS_Difference
    <3> QED
      BY <2>1, <3>1, <3>2 DEF ExecutorInv
  <2>5. \A j \in Items : stage'[j] \in Unanswered => j \notin S /\ stage[j] \in Unanswered
    BY <2>1 DEF Unanswered
  <2>6. Found(stage', keyed, cache') /\ cache' = [k \in Keys |-> cache'[k]]
    BY <2>1, <2>5, AnsweredFound DEF ExecutorInv
  <2> QED
    BY <1>1, <2>2, <2>4, <2>6 DEF Shutdown, ExecutorInv
<1>2. CASE ShutdownEnds
  BY <1>2 DEF ShutdownEnds, ExecutorInv
<1> QED
  BY <1>1, <1>2

\* Every step of the executor keeps its invariant.
LEMMA ExecutorNextInv == ExecutorInv /\ [ExecutorNext]_executorVars => ExecutorInv'
<1> SUFFICES ASSUME ExecutorInv, [ExecutorNext]_executorVars PROVE ExecutorInv'
  OBVIOUS
<1>1. CASE UNCHANGED executorVars
  BY <1>1 DEF executorVars, ExecutorInv, In
<1>2. CASE ExecutorNext
  BY <1>2, AcceptInv, PurgeInv, ShutdownInv, WorksInv DEF ExecutorNext
<1> QED
  BY <1>1, <1>2

-----------------------------------------------------------------------------
(* The theorems. *)

\* The three views of the requests agree, whatever clients, adapters, timers
\* and the shutdown do.
THEOREM ExecutorInvariant == ExecutorSpec => []ExecutorInv
  BY ExecutorInitInv, ExecutorNextInv, PTL DEF ExecutorSpec

\* The counter that admits requests counts those that wait or are active, and
\* every queue holds its agent's.
THEOREM CountsQueued == ExecutorSpec => []QueuedIsCounted
<1>1. ExecutorInv => QueuedIsCounted
  <2> SUFFICES ASSUME ExecutorInv PROVE QueuedIsCounted
    OBVIOUS
  <2>1. {"queued"} \cup Active = Live
    BY DEF Live
  <2>2. ASSUME NEW a \in Agents
        PROVE  Elems(queue[a]) = {i \in In(stage, Live) : AgentOf[request[i]] = a}
    <3>1. Elems(queue[a]) \subseteq Items
      <4>1. queue[a] \in Seq(Items)
        BY DEF ExecutorInv, Lined
      <4> QED
        BY <4>1 DEF Elems
    <3>2. ASSUME NEW i \in Elems(queue[a])
          PROVE  i \in In(stage, Live) /\ AgentOf[request[i]] = a
      <4>1. PICK n \in DOMAIN queue[a] : queue[a][n] = i
        BY DEF Elems
      <4> QED
        BY <3>1, <4>1 DEF ExecutorInv, Lined, In
    <3>3. ASSUME NEW i \in In(stage, Live), AgentOf[request[i]] = a
          PROVE  i \in Elems(queue[a])
      BY <3>3 DEF ExecutorInv, Lined, In
    <3> QED
      BY <3>2, <3>3
  <2> QED
    BY <2>1, <2>2 DEF QueuedIsCounted, Elems, ExecutorInv
<1> QED
  BY <1>1, ExecutorInvariant, PTL

\* An agent has one turn at a time, and has it for the request at the head of
\* its queue.
THEOREM TurnsAlternate == ExecutorSpec => []OneTurnPerAgent
<1>1. ExecutorInv => OneTurnPerAgent
  BY ActiveHead DEF OneTurnPerAgent, ExecutorInv, In
<1> QED
  BY <1>1, ExecutorInvariant, PTL

\* A retry of a request that is not answered finds it, so it does not run it
\* again, however long the adapter takes.
THEOREM RetriesFind == ExecutorSpec => []RetriesJoin
<1>1. ExecutorInv => RetriesJoin
  <2> SUFFICES ASSUME ExecutorInv, NEW i \in Items, stage[i] \in Unanswered
               PROVE  cache[keyed[i]].item = i
    BY DEF RetriesJoin, In, Unanswered
  <2>1. cache[keyed[i]] = [item |-> i, state |-> "pending"]
    BY DEF ExecutorInv, Found
  <2> QED
    BY <2>1
<1> QED
  BY <1>1, ExecutorInvariant, PTL
=============================================================================
