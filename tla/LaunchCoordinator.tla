-------------------------- MODULE LaunchCoordinator --------------------------
(***************************************************************************)
(* core/launch-coordinator.js over the ledger of LaunchLedger: the queue of *)
(* creations and reconciliations, the queue of retirements, the provider    *)
(* lanes they share, the deadlines, the answers that come after them, the   *)
(* cleanup worker, shutdown, crashes and restarts.                          *)
(*                                                                         *)
(* An action is what runs between two awaits.  A ledger mutation takes two: *)
(* its turn (#exclusive lets one run at a time) changes the Maps, and the   *)
(* end of its write resumes the caller; everyone else reads the Maps in     *)
(* between.  A provider call takes an action when it is made and one when   *)
(* its promise settles; its deadline, or the abort at shutdown, may resume  *)
(* the caller first and leaves the call outstanding.                        *)
(*                                                                         *)
(* The provider (an adapter and what it drives) is external: agent says     *)
(* what exists out there, reserved what is set aside for a retirement.      *)
(* It obeys the contract of README "Launch adapters are trusted host code": *)
(* failed only when no side effect exists, blocked only when nothing was    *)
(* deleted, and calls for one agent one after another.                      *)
(***************************************************************************)
EXTENDS LaunchLedger, Queues

CONSTANTS
  Providers,
  ProviderOf,   \* the provider each request names
  Supporting,   \* providers whose adapter implements retirement
  MaxActive,    \* MAX_ACTIVE_GLOBAL; MAX_ACTIVE_PER_PROVIDER is 1
  SubmitKeys,   \* keys clients submit launches with
  RetireKeys,   \* keys clients retire each launch with
  WritesFail,   \* may ledger writes fail?
  AfterRename,  \* may a mutation's fail after the rename?
  Crashes,      \* may the process die?
  Stops,        \* may the service be stopped?
  Restarts,     \* and its process end, to be started again?
  Prompt,       \* providers whose promises always settle
  NoId          \* no launch

ASSUME CoordinatorAssumption ==
  /\ ProviderOf \in [Requests -> Providers]
  /\ Supporting \subseteq Providers /\ Prompt \subseteq Providers
  /\ MaxActive \in Nat \ {0}
  /\ SubmitKeys \subseteq Keys /\ RetireKeys \in [Ids -> SUBSET Keys]
  /\ {WritesFail, AfterRename, Crashes, Stops, Restarts} \subseteq BOOLEAN
  /\ NoId \notin Ids

VARIABLES
  phase,     \* "down", "starting", "up", "draining" or "closed"
  host,      \* the coordinator's own memory, a Host
  writer,    \* whom the end of the write in progress resumes
  agent,     \* per launch: "none", "live", "gone" (deleted, but the provider
             \* keeps a record of it) or "forgotten"
  reserved,  \* per launch: the key the provider reserved a retirement for
  launches   \* per launch: how often provider.launch was called (history)

ledgerVars == <<status, mem, compact, undo, disk, ahead, issued>>
world == <<agent, reserved>>
coordinatorVars ==
  <<ledgerVars, phase, host, writer, world, launches>>

Answers == {"owned", "failed", "uncertain"}
TaskPc == {"none", "mark", "call", "lane"} \cup Answers
RetirePc == {"none", "queued", "prepare", "begin", "release", "refresh",
             "retire", "cancel", "complete", "republish", "over"}
Seen == {"none", "prepared", "unsupported", "uncertain"}

Host == [
  queue: Seq(Ids), retq: Seq(Ids),            \* #queue, #retirementQueue
  task: [Ids -> TaskPc],                      \* #active, and where #run is
  ret: [Ids -> RetirePc],                     \* #retirements, and where
  key: [Ids -> Keys \cup {NoKey}],            \*   #runRetirement is; its key,
  recovered: [Ids -> BOOLEAN],                \*   record.state was "retiring",
  seen: [Ids -> Seen],                        \*   the preparation's result
  lane: [Providers -> Ids \cup {NoId}],       \* #activeProviders
  call: [Ids -> {"none", "launch", "reconcile", "release", "retire"}],
  preparing: [Providers -> Ids \cup {NoId}],  \* #retirementPreparations
  fence: [Keys -> Ids \cup {NoId}],           \* #retirementAdmissionFences
  late: [Ids -> {"none", "armed", "rolling", "refresh"}],
  visible: SUBSET Ids,   \* the registry's owned launches
  waiting: [Keys -> Requests \cup {NoRequest}],  \* submits before reserve
  cleanQ: Seq(Ids),      \* #cleanupQueue
  worker: {"idle", "finalize", "record"}, cleaning: Ids \cup {NoId},
  paused: BOOLEAN ]

Idle == [queue |-> <<>>, retq |-> <<>>,
         task |-> [i \in Ids |-> "none"], ret |-> [i \in Ids |-> "none"],
         key |-> [i \in Ids |-> NoKey], recovered |-> [i \in Ids |-> FALSE],
         seen |-> [i \in Ids |-> "none"], lane |-> [p \in Providers |-> NoId],
         call |-> [i \in Ids |-> "none"],
         preparing |-> [p \in Providers |-> NoId],
         fence |-> [k \in Keys |-> NoId], late |-> [i \in Ids |-> "none"],
         visible |-> {},
         waiting |-> [k \in Keys |-> NoRequest], cleanQ |-> <<>>,
         worker |-> "idle", cleaning |-> NoId, paused |-> FALSE]

AgentStates == {"none", "live", "gone", "forgotten"}

Nobody == [op |-> "nobody", id |-> NoId]
Writers == [op: {"submit", "interrupt", "mark", "settle", "begin", "cancel",
                 "complete", "rollback", "record"}, id: Ids] \cup {Nobody}

\* The initial provider states that fit a ledger file.
AgentsFor(f) ==
  {w \in [Ids -> {"none", "live"}] :
     \A i \in Ids :
       /\ f.rec[i].state = "owned" => w[i] = "live"
       /\ f.rec[i].state \in {"absent", "requested", "failed"} => w[i] = "none"}

CoordinatorInit ==
  /\ Init
  /\ phase = "down" /\ host = Idle /\ writer = Nobody
  /\ agent \in AgentsFor(disk)
  /\ reserved = [i \in Ids |-> NoKey]
  /\ launches = [i \in Ids |-> 0]

-----------------------------------------------------------------------------
(* Lanes and pumping.  A pump starts, in queue order, every item whose      *)
(* provider has a free lane, while fewer than MaxActive lanes are held.     *)

Of(d, i) == ProviderOf[d.rec[i].request]
HeldLanes(h) == {p \in Providers : h.lane[p] # NoId}

Startable(h, d, q) ==
  {n \in DOMAIN q : /\ h.lane[Of(d, q[n])] = NoId
                    /\ \A m \in 1..(n - 1) : Of(d, q[m]) # Of(d, q[n])}
Started(h, d, q) ==
  LET S == Startable(h, d, q)
      free == MaxActive - Cardinality(HeldLanes(h))
  IN  {q[n] : n \in {m \in S : Cardinality({l \in S : l <= m}) <= free}}
Occupied(h, d, S) ==
  [p \in Providers |->
     IF \E i \in S : Of(d, i) = p THEN CHOOSE i \in S : Of(d, i) = p
     ELSE h.lane[p]]

\* #pump: a creation asks the ledger first, a reconciliation the provider.
Pump(h, d) ==
  LET S == Started(h, d, h.queue)
      create == {i \in S : d.rec[i].state = "requested"}
  IN  [h EXCEPT
         !.queue = Without(h.queue, S),
         !.lane = Occupied(h, d, S),
         !.task = [i \in Ids |-> IF i \in create THEN "mark"
                                 ELSE IF i \in S THEN "call" ELSE h.task[i]],
         !.call = [i \in Ids |-> IF i \in S \ create THEN "reconcile"
                                 ELSE h.call[i]]]

\* #pumpRetirements, and #runRetirement up to its first await.
PumpRetirements(h, d) ==
  LET S == {i \in Started(h, d, h.retq) : h.ret[i] = "queued"}
      refused == {i \in S : h.preparing[Of(d, i)] # NoId}
      resumed == {i \in S \ refused : h.recovered[i]}
      fresh == S \ (refused \cup resumed)
  IN  [h EXCEPT
         !.retq = Without(h.retq, S),
         !.lane = Occupied(h, d, S),
         !.ret = [i \in Ids |-> IF i \in refused THEN "over"
                                ELSE IF i \in resumed THEN "refresh"
                                ELSE IF i \in fresh THEN "prepare"
                                ELSE h.ret[i]],
         !.preparing = [p \in Providers |->
                          IF \E i \in fresh : Of(d, i) = p
                          THEN CHOOSE i \in fresh : Of(d, i) = p
                          ELSE h.preparing[p]],
         !.visible = h.visible \ resumed]

Freed(h, i) ==
  [h EXCEPT !.lane = [p \in Providers |-> IF h.lane[p] = i THEN NoId
                                          ELSE h.lane[p]]]

\* Variant: a cleanup is recorded without the provider having finalized it.
NextCleanupRecording(h) ==
  IF h.cleanQ = <<>> THEN [h EXCEPT !.worker = "idle", !.cleaning = NoId]
  ELSE [h EXCEPT !.worker = "record", !.cleaning = Head(h.cleanQ),
                 !.cleanQ = Tail(h.cleanQ)]

\* #pumpRetirementCleanup and the loop of its worker.
NextCleanup(h) ==
  IF h.cleanQ = <<>> THEN [h EXCEPT !.worker = "idle", !.cleaning = NoId]
  ELSE [h EXCEPT !.worker = "finalize", !.cleaning = Head(h.cleanQ),
                 !.cleanQ = Tail(h.cleanQ)]
PumpCleanup(h) == IF h.paused \/ h.worker # "idle" THEN h ELSE NextCleanup(h)

Up == phase = "up"
Serving == phase \in {"starting", "up"}   \* not #draining

\* Steps that leave the ledger alone, and what a pump in them reads.
LedgerIdle == UNCHANGED ledgerVars /\ UNCHANGED writer
InMemory == LedgerIdle /\ UNCHANGED <<phase, world, launches>>

\* A ledger mutation takes its turn for a caller; the write ends well or not.
Turn(op, i) == writer' = [op |-> op, id |-> i] /\ UNCHANGED <<phase, world, launches>>
Ends(op, i) == writer = [op |-> op, id |-> i] /\ writer' = Nobody
Written(op, i) == Ends(op, i) /\ PersistOk
Fails(op, i) ==
  Ends(op, i) /\ WritesFail /\ PersistFails /\ (ahead' => AfterRename)

-----------------------------------------------------------------------------
(* start(), stop() and the end of the process.                              *)

Fresh(S) == {q \in [1..Cardinality(S) -> S] :
               \A m, n \in DOMAIN q : m # n => q[m] # q[n]}

\* What start() makes of the records: owned launches become visible, the
\* others are queued for what they need, in the order of the file.
Loaded(d, cq, q, r) ==
  LET retiring == InState(d, {"retiring"})
  IN  [Idle EXCEPT
         !.visible = InState(d, {"owned"}), !.cleanQ = cq, !.queue = q, !.retq = r,
         !.ret = [i \in Ids |-> IF i \in retiring THEN "queued" ELSE "none"],
         !.key = [i \in Ids |-> d.rec[i].retireKey],
         !.recovered = [i \in Ids |-> i \in retiring]]

\* open(), recovery of the reservations of owned launches, and the loop of
\* start() but for the records it has to write.
Start ==
  /\ phase = "down"
  /\ Open
  /\ phase' = "starting"
  /\ reserved' = [i \in Ids |-> IF mem'.rec[i].state = "owned" THEN NoKey
                                ELSE reserved[i]]
  /\ \E cq \in Fresh(Owing(mem')),
        q \in Fresh(InState(mem', {"requested", "uncertain"})),
        r \in Fresh(InState(mem', {"retiring"})) :
       host' = PumpCleanup(PumpRetirements(Loaded(mem', cq, q, r), mem'))
  /\ UNCHANGED <<writer, agent, launches>>

\* The migration of a version-1 file fails late, and start() with it.
StartFails ==
  /\ phase = "down" /\ WritesFail
  /\ OpenFailsMigrated
  /\ UNCHANGED <<phase, host, writer, world, launches>>

\* A call in flight when the process ends has its effect or has not.
Outstanding(i) == host.call[i] # "none" \/ \E p \in Providers : host.preparing[p] = i
LostEffects ==
  /\ agent' \in {w \in [Ids -> AgentStates] :
       \A i \in Ids :
         \/ w[i] = agent[i]
         \/ host.call[i] = "launch" /\ w[i] = "live"
         \/ host.call[i] = "retire" /\ agent[i] = "live" /\ w[i] = "gone"
         \/ host.cleaning = i /\ agent[i] = "gone" /\ w[i] = "forgotten"}
  /\ reserved' \in {w \in [Ids -> Keys \cup {NoKey}] :
       \A i \in Ids :
         IF agent'[i] = "gone" THEN w[i] = NoKey
         ELSE \/ w[i] = reserved[i]
              \/ Outstanding(i) /\ {w[i], reserved[i]} = {NoKey, host.key[i]}}

ProcessEnds ==
  /\ Crash /\ LostEffects
  /\ phase' = "down" /\ host' = Idle
  /\ UNCHANGED launches

\* Variant: an interrupted creation is queued as if it had not begun.
InterruptAsRequested(i) ==
  /\ phase = "starting" /\ host.task[i] = "none"
  /\ mem.rec[i].state = "creating"
  /\ Mutate([mem EXCEPT !.rec[i].state = "requested"])
  /\ UNCHANGED issued
  /\ Turn("interrupt", i) /\ UNCHANGED host

\* A creation the last process left in flight becomes uncertain.
Interrupt(i) ==
  /\ phase = "starting" /\ host.task[i] = "none"
  /\ Transition(i, {"creating"}, "uncertain")
  /\ Turn("interrupt", i) /\ UNCHANGED host

Interrupted(i) ==
  /\ Written("interrupt", i)
  /\ host' = [host EXCEPT !.queue = Append(@, i)]
  /\ UNCHANGED <<phase, world, launches>>

\* The write fails and start() with it: the process ends.
InterruptFails(i) ==
  /\ writer = [op |-> "interrupt", id |-> i] /\ WritesFail
  /\ Ends("interrupt", i) /\ ProcessEnds

StartEnds ==
  /\ phase = "starting" /\ writer.op # "interrupt"
  /\ \A i \in InState(mem, {"creating"}) : host.task[i] # "none"
  /\ phase' = "up"
  /\ host' = PumpCleanup(Pump(host, mem))
  /\ LedgerIdle /\ UNCHANGED <<world, launches>>

\* Variant: the queued retirements are dropped without being rejected.
StopForgettingQueued ==
  /\ Stops /\ Up
  /\ phase' = "draining"
  /\ host' = [host EXCEPT !.queue = <<>>, !.retq = <<>>]
  /\ LedgerIdle /\ UNCHANGED <<world, launches>>

\* stop(): the queues are dropped and every wait on a provider is aborted.
Stop ==
  /\ Stops /\ Up
  /\ phase' = "draining"
  /\ host' = [host EXCEPT !.queue = <<>>, !.retq = <<>>,
                          !.ret = [i \in Ids |-> IF host.ret[i] = "queued"
                                                 THEN "none" ELSE host.ret[i]]]
  /\ LedgerIdle /\ UNCHANGED <<world, launches>>

\* The retirements are decided, the worker is done, no task is active: the
\* ledger and its lease are released.
Released ==
  /\ phase = "draining"
  /\ \A i \in Ids : host.task[i] = "none" /\ host.ret[i] \in {"none", "over"}
  /\ host.worker = "idle"
  /\ Close
  /\ phase' = "closed"
  /\ host' = [host EXCEPT !.waiting = Idle.waiting, !.late = Idle.late]
  /\ UNCHANGED <<writer, world, launches>>

\* The process dies.
Dies ==
  /\ Crashes /\ phase \in {"starting", "up", "draining"}
  /\ ProcessEnds /\ writer' = Nobody

\* After the ledger is closed the process ends, whatever is outstanding.
Exits ==
  /\ Restarts /\ phase = "closed"
  /\ phase' = "down" /\ host' = Idle
  /\ LostEffects
  /\ LedgerIdle /\ UNCHANGED launches

-----------------------------------------------------------------------------
(* submit(): the checks, then reserve in its turn.                          *)

\* A key the ledger or a fence knows is a replay or a conflict: no change.
Submit(k, r) ==
  /\ Up /\ host.waiting[k] = NoRequest
  /\ host.fence[k] = NoId /\ KeyIsFresh(mem, k)
  /\ host' = [host EXCEPT !.waiting[k] = r]
  /\ InMemory

SubmitTurn(k) ==
  /\ host.waiting[k] # NoRequest
  /\ Reserve(k, host.waiting[k])
  /\ Turn("submit", CHOOSE i \in issued' \ issued : TRUE)
  /\ host' = [host EXCEPT !.waiting[k] = NoRequest]

\* reserve finds the key taken meanwhile, or the ledger full.
SubmitRefused(k) ==
  /\ host.waiting[k] # NoRequest /\ status = "open"
  /\ ~(HasRoom(mem) /\ KeyIsFresh(mem, k))
  /\ host' = [host EXCEPT !.waiting[k] = NoRequest]
  /\ InMemory

Submitted(i) ==
  /\ Written("submit", i)
  /\ host' = IF Serving THEN Pump([host EXCEPT !.queue = Append(@, i)], mem) ELSE host
  /\ UNCHANGED <<phase, world, launches>>

SubmitFails(i) ==
  /\ Fails("submit", i)
  /\ UNCHANGED <<phase, host, world, launches>>

-----------------------------------------------------------------------------
(* #run: #create, #reconcile, #settle and the end of the task.              *)

MarkTurn(i) ==
  /\ host.task[i] = "mark"
  /\ Transition(i, {"requested"}, "creating")
  /\ Turn("mark", i) /\ UNCHANGED host

\* The record is durably creating: only now is the provider asked.
Marked(i) ==
  /\ Written("mark", i)
  /\ launches' = [launches EXCEPT ![i] = @ + 1]
  /\ host' = [host EXCEPT !.task[i] = "call", !.call[i] = "launch"]
  /\ UNCHANGED <<phase, world>>

MarkFails(i) ==
  /\ Fails("mark", i)
  /\ host' = [host EXCEPT !.task[i] = "lane"]
  /\ UNCHANGED <<phase, world, launches>>

\* The promise settles; in time, its answer resumes the task.
Resumed(i, answer) ==
  [host EXCEPT !.call[i] = "none",
               !.task[i] = IF @ = "call" THEN answer ELSE @]

LaunchSettles(i) ==
  /\ host.call[i] = "launch"
  /\ \/ agent' = [agent EXCEPT ![i] = "live"] /\ host' = Resumed(i, "owned")
     \/ agent[i] = "none" /\ host' = Resumed(i, "failed") /\ UNCHANGED agent
     \/ /\ agent' \in {agent, [agent EXCEPT ![i] = "live"]}
        /\ host' = Resumed(i, "uncertain")
  /\ LedgerIdle /\ UNCHANGED <<phase, reserved, launches>>

ReconcileSettles(i) ==
  /\ host.call[i] = "reconcile"
  /\ \/ agent[i] = "live" /\ host' = Resumed(i, "owned")
     \/ agent[i] = "none" /\ host' = Resumed(i, "failed")
     \/ host' = Resumed(i, "uncertain")
     \/ host' = Resumed(i, "lane")
  /\ InMemory

\* Variant: a deadline counts as a failure.
DeadlineAsFailure(i) ==
  /\ host.task[i] = "call" /\ host.call[i] # "none"
  /\ host' = [host EXCEPT !.task[i] = "failed"]
  /\ InMemory

\* The deadline, or the abort of stop(), comes first.
Deadline(i) ==
  /\ host.task[i] = "call" /\ host.call[i] # "none"
  /\ host' = [host EXCEPT !.task[i] = "uncertain"]
  /\ InMemory

SettleTurn(i) ==
  /\ host.task[i] \in Answers
  /\ Transition(i, {"creating", "uncertain"}, host.task[i])
  /\ Turn("settle", i) /\ UNCHANGED host

SettleWritten(i) ==
  /\ Written("settle", i)
  /\ host' = [host EXCEPT !.task[i] = "lane",
                          !.visible = IF mem.rec[i].state = "owned"
                                      THEN @ \cup {i} ELSE @]
  /\ UNCHANGED <<phase, world, launches>>

SettleFails(i) ==
  /\ Fails("settle", i)
  /\ host' = [host EXCEPT !.task[i] = "lane"]
  /\ UNCHANGED <<phase, world, launches>>

\* Variant: the lane is given up at the deadline.
TaskEndsEarly(i) ==
  /\ host.task[i] = "lane"
  /\ LET h == Freed([host EXCEPT !.task[i] = "none"], i)
     IN  host' = IF Serving THEN Pump(PumpRetirements(h, mem), mem) ELSE h
  /\ InMemory

\* Variant: the retirements that wait for the lane are not pumped.
TaskEndsPumpingTasks(i) ==
  /\ host.task[i] = "lane" /\ host.call[i] = "none"
  /\ LET h == Freed([host EXCEPT !.task[i] = "none"], i)
     IN  host' = IF Serving THEN Pump(h, mem) ELSE h
  /\ InMemory

\* The lane is kept until the provider's promise has settled.
TaskEnds(i) ==
  /\ host.task[i] = "lane" /\ host.call[i] = "none"
  /\ LET h == Freed([host EXCEPT !.task[i] = "none"], i)
     IN  host' = IF Serving THEN Pump(PumpRetirements(h, mem), mem) ELSE h
  /\ InMemory

-----------------------------------------------------------------------------
(* retire(): a request that is neither replay, conflict nor refused joins   *)
(* the retirement queue.                                                    *)

KeyRetires(i, k) ==
  /\ k \notin CreationKeys(mem) \cup TombCreationKeys(mem) \cup TombRetirementKeys(mem)
  /\ \A j \in InState(mem, {"retiring"}) : (mem.rec[j].retireKey = k) <=> (j = i)

\* Variant: a rollback that is under way is not looked at.
RetireDuringRollback(i, k) ==
  /\ Up
  /\ host.fence[k] \in {NoId, i}
  /\ mem.rec[i].state \in {"owned", "retiring"}
  /\ KeyRetires(i, k)
  /\ host.ret[i] = "none"
  /\ mem.rec[i].state = "retiring" => host.preparing[Of(mem, i)] = NoId
  /\ host' = PumpRetirements(
       [host EXCEPT !.retq = Append(@, i), !.ret[i] = "queued", !.key[i] = k,
                    !.recovered[i] = (mem.rec[i].state = "retiring"),
                    !.seen[i] = "none"], mem)
  /\ InMemory

Retire(i, k) ==
  /\ Up
  /\ host.fence[k] \in {NoId, i}
  /\ mem.rec[i].state \in {"owned", "retiring"}
  /\ KeyRetires(i, k)
  /\ host.ret[i] = "none"
  /\ host.late[i] \notin {"rolling", "refresh"}
  /\ mem.rec[i].state = "retiring" => host.preparing[Of(mem, i)] = NoId
  /\ host' = PumpRetirements(
       [host EXCEPT !.retq = Append(@, i), !.ret[i] = "queued", !.key[i] = k,
                    !.recovered[i] = (mem.rec[i].state = "retiring"),
                    !.seen[i] = "none"], mem)
  /\ InMemory

-----------------------------------------------------------------------------
(* #runRetirement: the provider prepares, then the ledger fences.           *)

Prepares(p, i) == i \in Ids /\ host.preparing[p] = i

\* #reconcileLatePreparation: the answer came after the deadline.
LatePreparation(h, i, answer) ==
  LET rolls == Serving /\ h.late[i] = "armed" /\ answer = "blocked"
                  /\ h.ret[i] = "none" /\ mem.rec[i].state = "retiring"
  IN  [h EXCEPT !.late[i] = IF rolls THEN "rolling" ELSE "none"]

Prepared(p, i, answer) ==
  LET h == [host EXCEPT !.preparing[p] = NoId]
  IN  host' = IF h.ret[i] # "prepare" THEN LatePreparation(h, i, answer)
              ELSE IF answer = "blocked" THEN [h EXCEPT !.ret[i] = "over"]
              ELSE [h EXCEPT !.ret[i] = "begin", !.seen[i] = answer]

ReservedFor(i, k) == [reserved EXCEPT ![i] = IF @ = NoKey THEN k ELSE @]
ReleasedFor(i, k) == [reserved EXCEPT ![i] = IF @ = k THEN NoKey ELSE @]

PreparationSettles(p, i) ==
  /\ Prepares(p, i)
  /\ \/ /\ p \in Supporting /\ reserved[i] \in {NoKey, host.key[i]}
        /\ reserved' = ReservedFor(i, host.key[i])
        /\ Prepared(p, i, "prepared")
     \/ /\ p \in Supporting /\ reserved[i] # host.key[i]
        /\ UNCHANGED reserved
        /\ Prepared(p, i, "blocked")
     \/ /\ p \in Supporting
        /\ reserved' \in {reserved, ReservedFor(i, host.key[i])}
        /\ Prepared(p, i, "uncertain")
     \/ /\ p \notin Supporting /\ UNCHANGED reserved
        /\ Prepared(p, i, "unsupported")
  /\ LedgerIdle /\ UNCHANGED <<phase, agent, launches>>

PreparationDeadline(i) ==
  /\ host.ret[i] = "prepare"
  /\ host' = [host EXCEPT !.ret[i] = "begin", !.seen[i] = "uncertain"]
  /\ InMemory

\* Variant: the provider is told to delete before the fence is in the file.
BeginTurnDeleting(i) ==
  /\ host.ret[i] = "begin"
  /\ BeginRetirement(i, host.key[i])
  /\ Turn("begin", i)
  /\ host' = [host EXCEPT !.call[i] = "retire"]

BeginTurn(i) ==
  /\ host.ret[i] = "begin"
  /\ BeginRetirement(i, host.key[i])
  /\ Turn("begin", i) /\ UNCHANGED host

\* Variant: the admission fence is not raised.
AfterBeginFailsUnfenced(h, i) ==
  IF h.seen[i] \in {"prepared", "uncertain"}
  THEN [h EXCEPT !.ret[i] = "release", !.call[i] = "release"]
  ELSE [h EXCEPT !.ret[i] = "over"]

\* Without a fence in the ledger, what the provider may have prepared is
\* given back, and the key is kept from launches until it is.
AfterBeginFails(h, i) ==
  IF h.seen[i] \in {"prepared", "uncertain"}
  THEN [h EXCEPT !.ret[i] = "release", !.call[i] = "release",
                 !.fence[h.key[i]] = i]
  ELSE [h EXCEPT !.ret[i] = "over"]

BeginRefused(i) ==
  /\ host.ret[i] = "begin" /\ status = "open"
  /\ \/ mem.rec[i].state # "owned"
     \/ ~CleanupRoom(mem)
     \/ ~KeyIsFresh(mem, host.key[i])
  /\ host' = AfterBeginFails(host, i)
  /\ InMemory

BeginFails(i) ==
  /\ Fails("begin", i)
  /\ host' = AfterBeginFails(host, i)
  /\ UNCHANGED <<phase, world, launches>>

Unfenced(h, k, i) == IF h.fence[k] = i THEN [h.fence EXCEPT ![k] = NoId] ELSE h.fence

\* The fence is durable: hide the agent and go on, or stop here and wait for
\* the late answer of the preparation.
Begun(i) ==
  /\ Written("begin", i)
  /\ LET h == [host EXCEPT !.fence = Unfenced(host, host.key[i], i)]
     IN  host' = IF h.seen[i] = "uncertain"
                 THEN [h EXCEPT !.ret[i] = "over", !.visible = @ \ {i},
                                !.late[i] = IF h.preparing[Of(mem, i)] = i
                                            THEN "armed" ELSE "none"]
                 ELSE IF ~Serving THEN [h EXCEPT !.ret[i] = "over"]
                 ELSE [h EXCEPT !.ret[i] = "refresh", !.visible = @ \ {i}]
  /\ UNCHANGED <<phase, world, launches>>

\* The adapter runs calls for one agent in turn: a release follows the
\* preparation it undoes.  In time or late, success lowers the fence.
ReleaseSettles(i) ==
  /\ host.call[i] = "release"
  /\ \A p \in Providers : host.preparing[p] # i
  /\ LET h == [host EXCEPT !.call[i] = "none",
                           !.ret[i] = IF @ = "release" THEN "over" ELSE @]
         freed == ReleasedFor(i, host.key[i])
     IN  \/ /\ host' = [h EXCEPT !.fence = Unfenced(h, h.key[i], i)]
            /\ reserved' = freed
         \/ host' = h /\ reserved' \in {reserved, freed}
  /\ LedgerIdle /\ UNCHANGED <<phase, agent, launches>>

ReleaseDeadline(i) ==
  /\ host.ret[i] = "release"
  /\ host' = [host EXCEPT !.ret[i] = "over"]
  /\ InMemory

-----------------------------------------------------------------------------
(* #finishRetirement: discovery is refreshed, the provider deletes, the     *)
(* ledger records what came of it.                                          *)

\* Even while draining the refresh may win against the abort.
Refreshed(i) ==
  /\ host.ret[i] = "refresh"
  /\ host' = [host EXCEPT !.ret[i] = "retire", !.call[i] = "retire"]
  /\ InMemory

RefreshAborted(i) ==
  /\ host.ret[i] = "refresh" /\ phase = "draining"
  /\ host' = [host EXCEPT !.ret[i] = "over"]
  /\ InMemory

\* #reconcileLateRetirement, when the deadline came first.
LateRetirement(h, i, answer) ==
  LET rolls == Serving /\ h.late[i] = "armed" /\ answer = "blocked"
                  /\ mem.rec[i].state = "retiring"
  IN  [h EXCEPT !.late[i] = IF rolls THEN "rolling" ELSE "none"]

Retired(i, answer) ==
  LET h == [host EXCEPT !.call[i] = "none"]
  IN  host' = IF h.ret[i] # "retire" THEN LateRetirement(h, i, answer)
              ELSE [h EXCEPT !.ret[i] =
                      CASE answer = "retired" -> "complete"
                        [] answer = "blocked" -> "cancel"
                        [] answer = "unsupported" /\ ~h.recovered[i] -> "cancel"
                        [] OTHER -> "over"]

Supported(i) == \E p \in Supporting : host.lane[p] = i
Deleted(i) ==
  /\ reserved[i] \in {NoKey, host.key[i]}
  /\ agent' = [agent EXCEPT ![i] = "gone"]
  /\ reserved' = [reserved EXCEPT ![i] = NoKey]

RetireSettles(i) ==
  /\ host.call[i] = "retire"
  /\ \/ Supported(i) /\ Deleted(i) /\ Retired(i, "retired")
     \/ /\ Supported(i) /\ agent[i] = "live"
        /\ reserved[i] \in {NoKey, host.key[i]}
        /\ reserved' = ReleasedFor(i, host.key[i]) /\ UNCHANGED agent
        /\ Retired(i, "blocked")
     \/ /\ Supported(i)
        /\ \/ Deleted(i)
           \/ /\ agent[i] = "live" /\ UNCHANGED agent
              /\ reserved' \in {reserved, ReservedFor(i, host.key[i])}
           \/ UNCHANGED world
        /\ Retired(i, "uncertain")
     \/ ~Supported(i) /\ UNCHANGED world /\ Retired(i, "unsupported")
  /\ LedgerIdle /\ UNCHANGED <<phase, launches>>

RetireDeadline(i) ==
  /\ host.ret[i] = "retire"
  /\ host' = [host EXCEPT !.ret[i] = "over", !.late[i] = "armed"]
  /\ InMemory

CancelTurn(i) ==
  /\ host.ret[i] = "cancel"
  /\ CancelRetirement(i)
  /\ Turn("cancel", i) /\ UNCHANGED host

Canceled(i) ==
  /\ Written("cancel", i)
  /\ host' = [host EXCEPT !.ret[i] = "republish", !.visible = @ \cup {i}]
  /\ UNCHANGED <<phase, world, launches>>

CompleteTurn(i) ==
  /\ host.ret[i] = "complete"
  /\ CompleteRetirement(i, TRUE)
  /\ Turn("complete", i) /\ UNCHANGED host

Completed(i) ==
  /\ Written("complete", i)
  /\ host' = [host EXCEPT !.ret[i] = "republish", !.visible = @ \ {i}]
  /\ UNCHANGED <<phase, world, launches>>

\* Neither is recorded: the launch stays retiring and hidden.
FinishFails(i) ==
  /\ Fails("cancel", i) \/ Fails("complete", i)
  /\ host' = [host EXCEPT !.ret[i] = "over"]
  /\ UNCHANGED <<phase, world, launches>>

\* The refresh after the decision; a completed retirement queues its cleanup.
Republished(i) ==
  /\ host.ret[i] = "republish"
  /\ LET h == [host EXCEPT !.ret[i] = "over"]
     IN  host' = IF Serving /\ mem.cleanups[i] # NoKey
                 THEN PumpCleanup([h EXCEPT !.cleanQ = Append(@, i)]) ELSE h
  /\ InMemory

\* Variant: the creations that wait for the lane are not pumped.
RetirementEndsPumpingRetirements(i) ==
  /\ host.ret[i] = "over" /\ host.call[i] = "none"
  /\ LET h == Freed([host EXCEPT !.ret[i] = "none"], i)
     IN  host' = IF Serving THEN PumpRetirements(h, mem) ELSE h
  /\ InMemory

\* The lane is kept until the release or deletion has settled.
RetirementEnds(i) ==
  /\ host.ret[i] = "over" /\ host.call[i] = "none"
  /\ LET h == Freed([host EXCEPT !.ret[i] = "none"], i)
     IN  host' = IF Serving THEN PumpRetirements(Pump(h, mem), mem) ELSE h
  /\ InMemory

-----------------------------------------------------------------------------
(* The rollback after a late "blocked".                                     *)

RollbackTurn(i) ==
  /\ host.late[i] = "rolling"
  /\ CancelRetirement(i)
  /\ Turn("rollback", i) /\ UNCHANGED host

\* Variant: the launch is not activated again.
RolledBackHidden(i) ==
  /\ Written("rollback", i)
  /\ host' = [host EXCEPT !.late[i] = "refresh"]
  /\ UNCHANGED <<phase, world, launches>>

RolledBack(i) ==
  /\ Written("rollback", i)
  /\ host' = [host EXCEPT !.late[i] = "refresh", !.visible = @ \cup {i}]
  /\ UNCHANGED <<phase, world, launches>>

RollbackFails(i) ==
  /\ Fails("rollback", i)
  /\ host' = [host EXCEPT !.late[i] = "none"]
  /\ UNCHANGED <<phase, world, launches>>

RollbackEnds(i) ==
  /\ host.late[i] = "refresh"
  /\ host' = [host EXCEPT !.late[i] = "none"]
  /\ InMemory

-----------------------------------------------------------------------------
(* The cleanup worker.                                                      *)

LoopCleanup(h) ==
  IF Serving THEN NextCleanup(h) ELSE [h EXCEPT !.worker = "idle", !.cleaning = NoId]
PausedCleanup(h) == [h EXCEPT !.worker = "idle", !.cleaning = NoId, !.paused = TRUE]

\* finalizeLaunchRetirement answers true, answers false, or throws or is cut
\* off by its deadline with the provider's state removed or not.
Finalized(i) ==
  /\ host.worker = "finalize" /\ host.cleaning = i
  /\ LET cleared == [agent EXCEPT ![i] = IF @ = "gone" THEN "forgotten" ELSE @]
     IN  \/ host' = [host EXCEPT !.worker = "record"] /\ agent' = cleared
         \/ host' = LoopCleanup(host) /\ UNCHANGED agent
         \/ host' = PausedCleanup(host) /\ agent' \in {agent, cleared}
  /\ LedgerIdle /\ UNCHANGED <<phase, reserved, launches>>

RecordTurn(i) ==
  /\ host.worker = "record" /\ host.cleaning = i
  /\ CompleteRetirementCleanup(i)
  /\ Turn("record", i) /\ UNCHANGED host

CleanupRecorded(i) ==
  /\ Written("record", i)
  /\ host' = LoopCleanup(host)
  /\ UNCHANGED <<phase, world, launches>>

RecordFails(i) ==
  /\ Fails("record", i)
  /\ host' = PausedCleanup(host)
  /\ UNCHANGED <<phase, world, launches>>

-----------------------------------------------------------------------------
(* The whole. *)

Clients ==
  \/ \E k \in SubmitKeys, r \in Requests : Submit(k, r)
  \/ \E i \in Ids : \E k \in RetireKeys[i] : Retire(i, k)
Operator == StartFails \/ Stop \/ Dies \/ Exits
Creation(i) ==
  \/ MarkTurn(i) \/ Marked(i) \/ MarkFails(i) \/ Deadline(i)
  \/ SettleTurn(i) \/ SettleWritten(i) \/ SettleFails(i) \/ TaskEnds(i)
Retirement(i) ==
  \/ PreparationDeadline(i)
  \/ BeginTurn(i) \/ BeginRefused(i) \/ Begun(i) \/ BeginFails(i)
  \/ ReleaseDeadline(i)
  \/ Refreshed(i) \/ RefreshAborted(i) \/ RetireDeadline(i)
  \/ CancelTurn(i) \/ Canceled(i) \/ CompleteTurn(i) \/ Completed(i)
  \/ FinishFails(i) \/ Republished(i) \/ RetirementEnds(i)
  \/ RollbackTurn(i) \/ RolledBack(i) \/ RollbackFails(i) \/ RollbackEnds(i)
Cleanup(i) ==
  Finalized(i) \/ RecordTurn(i) \/ CleanupRecorded(i) \/ RecordFails(i)
Starting ==
  \/ \E i \in Ids : Interrupt(i) \/ Interrupted(i) \/ InterruptFails(i)
  \/ StartEnds
Admission ==
  \/ \E k \in SubmitKeys : SubmitTurn(k) \/ SubmitRefused(k)
  \/ \E i \in Ids : Submitted(i) \/ SubmitFails(i)
\* A promise of the adapter of provider p settles.
Settles(p) ==
  \E i \in Ids :
    \/ PreparationSettles(p, i)
    \/ /\ host.lane[p] = i
       /\ LaunchSettles(i) \/ ReconcileSettles(i) \/ ReleaseSettles(i)
          \/ RetireSettles(i)

Internal ==
  \/ Start \/ Starting \/ Admission \/ Released
  \/ \E i \in Ids : Creation(i) \/ Retirement(i) \/ Cleanup(i)

CoordinatorNext ==
  \/ Clients \/ Operator \/ Internal
  \/ \E p \in Providers : Settles(p)

CoordinatorSpec == CoordinatorInit /\ [][CoordinatorNext]_coordinatorVars

\* The event loop does not stop while a continuation is ready, a write or a
\* deadline is due; mutations take their turns first come first served, so
\* retirements asked for again and again do not keep a launch from its own;
\* and the promises of the Prompt providers settle.  Nobody has to submit,
\* retire, stop or crash, and the other providers may hang forever.
Fairness ==
  /\ WF_coordinatorVars(Internal)
  /\ SF_coordinatorVars(Admission)
  /\ \A i \in Ids : SF_coordinatorVars(Creation(i))
  /\ WF_coordinatorVars(\E p \in Prompt : Settles(p))

FairSpec == CoordinatorSpec /\ Fairness

-----------------------------------------------------------------------------
(* Properties. *)

\* The shape of the coordinator's memory and of the world outside.
CoordinatorTypeOK ==
  /\ phase \in {"down", "starting", "up", "draining", "closed"}
  /\ host \in Host /\ writer \in Writers
  /\ agent \in [Ids -> AgentStates]
  /\ reserved \in [Ids -> Keys \cup {NoKey}]
  /\ launches \in [Ids -> Nat]

\* The coordinator never writes a file the ledger alone would not: every
\* step of the whole is a step of LaunchLedger or leaves the ledger alone.
LedgerSpec == Spec

\* However the process dies, restarts, times out or fails to write, the
\* provider is asked to create a launch at most once.
CreateAtMostOnce == \A i \in Ids : launches[i] <= 1

\* A call to the provider, answered or given up on by the coordinator, keeps
\* its provider's only lane until the promise settles: no two creations,
\* reconciliations, releases or deletions of one provider overlap.
CallsHoldLanes ==
  /\ \A i \in Ids : host.call[i] # "none" => \E p \in Providers : host.lane[p] = i
  /\ Cardinality(HeldLanes(host)) <= MaxActive

\* A launch the file says has failed has no agent at the provider, and no
\* call under way that could still make one.
FailedIsNothing ==
  \A i \in Ids : disk.rec[i].state = "failed" =>
    agent[i] = "none" /\ host.call[i] = "none"

\* A launch the file says is owned has its agent: nothing is deleted unless
\* the retirement is in the file, whenever the process dies.
OwnedIsLive == \A i \in Ids : disk.rec[i].state = "owned" => agent[i] = "live"

\* While an agent is being deleted it is hidden from discovery and the fence
\* is in the ledger, and in the file unless a write threw after its rename.
DeletesFenced ==
  \A i \in Ids : host.call[i] = "retire" /\ status # "closed" =>
    /\ i \notin host.visible
    /\ mem.rec[i].state = "retiring"
    /\ ~ahead => disk.rec[i].state = "retiring"

\* Between mutations, the registry discovers the agents of the owned launches
\* and no others.
VisibleIsOwned ==
  Up /\ status = "open" => host.visible = InState(mem, {"owned"})

\* Capacity the provider reserved for a retirement is never forgotten while
\* the service is up: the retirement is in the ledger or on its way there, a
\* call about it is outstanding, or an admission fence keeps its key.
Settling(i) == mem.rec[i].state = "retiring" \/ host.ret[i] # "none" \/ Outstanding(i)
ReservedKeyIsFenced ==
  \A i \in Ids : Up /\ reserved[i] # NoKey =>
    Settling(i) \/ host.fence[reserved[i]] # NoId

\* What the provider keeps of a deleted agent is never forgotten: the file
\* has the launch retiring, or its cleanup owed.
CleanupTracked ==
  \A i \in Ids : ~ahead /\ agent[i] = "gone" =>
    disk.rec[i].state = "retiring" \/ Decoded(disk).cleanups[i] # NoKey

\* README "A timed-out non-cooperative provider keeps ... the ledger's
\* single-writer lease until the original promise really settles": when the
\* lease is released no call to a provider is outstanding.
LeaseOutlivesCalls == phase = "closed" => \A i \in Ids : ~Outstanding(i)

\* A launch of a provider that answers is decided, or at least tried and
\* found uncertain, though another provider hangs with its lane held.
LaunchesDecided ==
  \A i \in Ids :
    Up /\ mem.rec[i].state \in {"requested", "creating"} /\ Of(mem, i) \in Prompt
      ~> (mem.rec[i].state \notin {"requested", "creating"} \/ ~Up)

\* Every client that asked for a retirement gets an answer: no retirement
\* waits on a provider beyond the deadline, unless its lane is held by a
\* call that never settles.
RetirementsAnswered ==
  \A i \in Ids :
    host.ret[i] # "none" /\ mem.rec[i].state # "absent" /\ Of(mem, i) \in Prompt
      ~> (host.ret[i] \in {"none", "over"} \/ phase \in {"closed", "down"})

\* stop() releases the ledger, unless a task waits for a provider that hangs.
StopReleases ==
  phase = "draining" /\ (\A p \in Providers \ Prompt : host.lane[p] = NoId)
    ~> phase \in {"closed", "down"}

=============================================================================
