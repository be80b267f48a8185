-------------------------- MODULE LaunchControlProofs --------------------------
(***************************************************************************)
(* The launch coordinator, for any number of launches, keys and providers.  *)
(*                                                                         *)
(* First, every step of it is a step of the ledger or leaves the ledger     *)
(* alone, so that what LaunchLedgerProofs shows of every ledger holds of    *)
(* the one the coordinator drives.  The ledger takes a request of Requests  *)
(* and a key of Keys.  The coordinator remembers both across awaits, and    *)
(* "no request" and "no key" besides: the invariant Keyed says that whoever *)
(* is waiting for reserve or beginRetirement remembers a real one.          *)
(*                                                                         *)
(* Then what it keeps true itself: whoever works for a launch, or waits to, *)
(* and what it may assume of the record, of the provider's lanes and of the *)
(* agent.  Control is the part about the coordinator.  It is stated of a    *)
(* memory h, the Maps d, the writer w, so that it can be followed through   *)
(* the pumps, which run inside a step.  Asked says of which launches the    *)
(* provider was asked, and Agents what is true of their agents.             *)
(***************************************************************************)
EXTENDS LaunchCoordinator, LaunchLedgerProofs, QueuesProofs

Fields == {"queue", "retq", "task", "ret", "key", "recovered", "seen", "lane",
           "call", "preparing", "fence", "late", "visible",
           "waiting", "cleanQ", "worker", "cleaning", "paused"}
Keyed(h) ==
  /\ h = [f \in Fields |-> h[f]]
  /\ h.waiting \in [Keys -> Requests \cup {NoRequest}]
  /\ h.key \in [Ids -> Keys \cup {NoKey}]
  /\ h.ret \in [Ids -> RetirePc]
  /\ \A i \in Ids :
       h.ret[i] \in {"queued", "prepare", "begin"} => h.key[i] \in Keys

-----------------------------------------------------------------------------
(* What the coordinator does to its memory keeps it keyed. *)

\* Starting a process with an empty memory.
LEMMA IdleKeyed == Keyed(Idle)
  BY DEF Keyed, Idle, Fields, RetirePc

\* #pump starts tasks only.
LEMMA PumpKeyed ==
  ASSUME NEW h, NEW d, Keyed(h)
  PROVE  Keyed(Pump(h, d))
  BY DEF Keyed, Pump, Fields

\* #pumpRetirements moves retirements on that were queued with their keys.
LEMMA PumpRetirementsKeyed ==
  ASSUME NEW h, NEW d, Keyed(h)
  PROVE  Keyed(PumpRetirements(h, d))
  BY ZenonT(60) DEF Keyed, PumpRetirements, Fields, RetirePc

\* Giving up a lane.
LEMMA FreedKeyed ==
  ASSUME NEW h, NEW i, Keyed(h)
  PROVE  Keyed(Freed(h, i))
  BY DEF Keyed, Freed, Fields

\* The cleanup queue and its worker.
LEMMA CleanupKeyed ==
  ASSUME NEW h, Keyed(h)
  PROVE  /\ Keyed(NextCleanup(h)) /\ Keyed(PumpCleanup(h))
         /\ Keyed(LoopCleanup(h)) /\ Keyed(PausedCleanup(h))
  BY ZenonT(60) DEF Keyed, NextCleanup, PumpCleanup, LoopCleanup, PausedCleanup, Fields

\* A retirement that moves on to where it needs no key any more.
LEMMA MovedKeyed ==
  ASSUME NEW h, NEW g, NEW i, NEW pc \in RetirePc, Keyed(h),
         g = [f \in Fields |-> g[f]], g.waiting = h.waiting, g.key = h.key,
         g.ret = [h.ret EXCEPT ![i] = pc], pc \notin {"queued", "prepare", "begin"}
  PROVE  Keyed(g)
  BY DEF Keyed

\* A retirement the ledger refused goes on to release its reservation.
LEMMA AfterBeginKeyed ==
  ASSUME NEW h, NEW i \in Ids, Keyed(h)
  PROVE  Keyed(AfterBeginFails(h, i))
  BY DEF Keyed, AfterBeginFails, Fields, RetirePc

\* A late answer arms or disarms a rollback, which is no retirement.
LEMMA LateKeyed ==
  ASSUME NEW h, NEW i \in Ids, NEW answer, Keyed(h)
  PROVE  /\ Keyed(LatePreparation(h, i, answer))
         /\ Keyed(LateRetirement(h, i, answer))
  BY DEF Keyed, LatePreparation, LateRetirement, Fields

\* Start: what is queued as a retirement has its key in the file.
LEMMA LoadedKeyed ==
  ASSUME NEW d \in Document, RecordsCoherent(d), NEW cq, NEW q, NEW r
  PROVE  Keyed(Loaded(d, cq, q, r))
<1>1. \A i \in Ids : /\ d.rec[i].retireKey \in Keys \cup {NoKey}
                     /\ d.rec[i].state = "retiring" => d.rec[i].retireKey \in Keys
  BY DEF Document, Entry, RecordsCoherent
<1> DEFINE h == Loaded(d, cq, q, r)
<1>2. /\ h.ret = [i \in Ids |-> IF i \in InState(d, {"retiring"})
                               THEN "queued" ELSE "none"]
      /\ h.key = [i \in Ids |-> d.rec[i].retireKey]
      /\ h.waiting = Idle.waiting
      /\ h = [f \in Fields |-> h[f]]
  BY ZenonT(60) DEF Loaded, Idle, Fields
<1>3. h.waiting \in [Keys -> Requests \cup {NoRequest}]
  BY <1>2 DEF Idle
<1> HIDE DEF h
<1>4. h.key \in [Ids -> Keys \cup {NoKey}] /\ h.ret \in [Ids -> RetirePc]
  BY <1>1, <1>2 DEF RetirePc
<1>5. \A i \in Ids : h.ret[i] \in {"queued", "prepare", "begin"} => h.key[i] \in Keys
  BY <1>1, <1>2 DEF InState
<1> QED
  BY <1>2, <1>3, <1>4, <1>5 DEF Keyed, h

\* The steps of start().
LEMMA StartingKeyed ==
  ASSUME IInv, Keyed(host), Start \/ StartFails \/ Starting
  PROVE  Keyed(host')
<1>1. CASE Start
  <2>1. mem' \in Document /\ RecordsCoherent(mem')
    BY <1>1 DEF Start, Open, Acceptable, Sound, IInv, Fit
  <2>2. PICK cq, q, r :
          host' = PumpCleanup(PumpRetirements(Loaded(mem', cq, q, r), mem'))
    BY <1>1 DEF Start
  <2> QED
    BY <2>1, <2>2, LoadedKeyed, PumpRetirementsKeyed, CleanupKeyed
<1>2. CASE StartFails
  BY <1>2 DEF StartFails
<1>3. ASSUME NEW i \in Ids, Interrupt(i) \/ Interrupted(i) PROVE Keyed(host')
  BY <1>3 DEF Interrupt, Interrupted, Keyed, Fields
<1>4. ASSUME NEW i \in Ids, InterruptFails(i) PROVE Keyed(host')
  BY <1>4, IdleKeyed DEF InterruptFails, ProcessEnds
<1>5. CASE StartEnds
  BY <1>5, PumpKeyed, CleanupKeyed DEF StartEnds
<1> QED
  BY <1>1, <1>2, <1>3, <1>4, <1>5 DEF Starting

\* The steps of the end of the process.
LEMMA OperatorKeyed ==
  ASSUME Keyed(host), Stop \/ Dies \/ Exits \/ Released
  PROVE  Keyed(host')
<1>1. CASE Stop
  BY <1>1 DEF Stop, Keyed, Fields, RetirePc
<1>2. CASE Dies \/ Exits
  BY <1>2, IdleKeyed DEF Dies, ProcessEnds, Exits
<1>3. CASE Released
  BY <1>3 DEF Released, Idle, Keyed, Fields
<1> QED
  BY <1>1, <1>2, <1>3

\* The steps of submit() and retire().
LEMMA ClientsKeyed ==
  ASSUME Keyed(host), Clients \/ Admission
  PROVE  Keyed(host')
<1> SubmitKeys \subseteq Keys /\ \A i \in Ids : RetireKeys[i] \subseteq Keys
  BY CoordinatorAssumption
<1>1. ASSUME NEW k \in SubmitKeys, NEW r \in Requests, Submit(k, r)
      PROVE  Keyed(host')
  BY <1>1 DEF Submit, Keyed, Fields
<1>2. ASSUME NEW i \in Ids, NEW k \in RetireKeys[i], Retire(i, k)
      PROVE  Keyed(host')
  <2> DEFINE h == [host EXCEPT
                     !.retq = Append(@, i), !.ret[i] = "queued", !.key[i] = k,
                     !.recovered[i] = (mem.rec[i].state = "retiring"),
                     !.seen[i] = "none"]
  <2>1. Keyed(h)
    BY ZenonT(60) DEF Keyed, Fields, RetirePc
  <2> QED
    BY <1>2, <2>1, PumpRetirementsKeyed DEF Retire
<1>3. ASSUME NEW k \in SubmitKeys, SubmitTurn(k) \/ SubmitRefused(k)
      PROVE  Keyed(host')
  BY <1>3 DEF SubmitTurn, SubmitRefused, Keyed, Fields
<1>4. ASSUME NEW i \in Ids, Submitted(i) \/ SubmitFails(i) PROVE Keyed(host')
  <2>1. Keyed([host EXCEPT !.queue = Append(@, i)])
    BY DEF Keyed, Fields
  <2> QED
    BY <1>4, <2>1, PumpKeyed DEF Submitted, SubmitFails
<1> QED
  BY <1>1, <1>2, <1>3, <1>4 DEF Clients, Admission


\* The steps of a creation.
LEMMA CreationKeyed ==
  ASSUME Keyed(host), NEW i \in Ids, Creation(i)
  PROVE  Keyed(host')
<1>1. CASE TaskEnds(i)
  <2> DEFINE h == Freed([host EXCEPT !.task[i] = "none"], i)
  <2>1. Keyed([host EXCEPT !.task[i] = "none"])
    BY DEF Keyed, Fields
  <2>2. Keyed(h)
    BY <2>1, FreedKeyed
  <2> QED
    BY <1>1, <2>2, PumpKeyed, PumpRetirementsKeyed DEF TaskEnds
<1>2. CASE ~TaskEnds(i)
  BY <1>2 DEF Creation, MarkTurn, Marked, MarkFails, Deadline, SettleTurn,
     SettleWritten, SettleFails, Keyed, Fields
<1> QED
  BY <1>1, <1>2

\* The steps of a retirement.
LEMMA RetirementKeyed ==
  ASSUME Keyed(host), NEW i \in Ids, Retirement(i)
  PROVE  Keyed(host')
<1>1. CASE RetirementEnds(i)
  <2> DEFINE h == Freed([host EXCEPT !.ret[i] = "none"], i)
  <2>1. Keyed([host EXCEPT !.ret[i] = "none"])
    BY DEF Keyed, Fields, RetirePc
  <2>2. Keyed(h)
    BY <2>1, FreedKeyed
  <2> QED
    BY <1>1, <2>2, PumpKeyed, PumpRetirementsKeyed DEF RetirementEnds
<1>2. CASE BeginRefused(i) \/ BeginFails(i)
  BY <1>2, AfterBeginKeyed DEF BeginRefused, BeginFails
<1>3. CASE Begun(i)
  BY <1>3 DEF Begun, Keyed, Fields, RetirePc
<1>4. CASE Republished(i)
  <2> DEFINE h == [host EXCEPT !.ret[i] = "over"]
  <2>1. Keyed(h) /\ Keyed([h EXCEPT !.cleanQ = Append(@, i)])
    BY DEF Keyed, Fields, RetirePc
  <2> QED
    BY <1>4, <2>1, CleanupKeyed DEF Republished
<1>5. CASE BeginTurn(i) \/ CancelTurn(i) \/ CompleteTurn(i) \/ RollbackTurn(i)
  BY <1>5 DEF BeginTurn, CancelTurn, CompleteTurn, RollbackTurn
<1>6. CASE PreparationDeadline(i)
  BY <1>6 DEF PreparationDeadline, Keyed, Fields, RetirePc
<1>7. CASE ReleaseDeadline(i) \/ RefreshAborted(i)
  BY <1>7 DEF ReleaseDeadline, RefreshAborted, Keyed, Fields, RetirePc
<1>8. CASE Refreshed(i) \/ RetireDeadline(i)
  <2>1. /\ host' = [f \in Fields |-> host'[f]]
        /\ host'.waiting = host.waiting /\ host'.key = host.key
        /\ \/ host'.ret = [host.ret EXCEPT ![i] = "retire"]
           \/ host'.ret = [host.ret EXCEPT ![i] = "over"]
    BY <1>8 DEF Refreshed, RetireDeadline, Keyed, Fields
  <2> QED
    BY <2>1, MovedKeyed DEF RetirePc
<1>9. CASE Canceled(i) \/ Completed(i)
  <2>1. /\ host' = [f \in Fields |-> host'[f]]
        /\ host'.waiting = host.waiting /\ host'.key = host.key
        /\ host'.ret = [host.ret EXCEPT ![i] = "republish"]
    BY <1>9 DEF Canceled, Completed, Keyed, Fields
  <2> QED
    BY <2>1, MovedKeyed DEF RetirePc
<1>10. CASE FinishFails(i)
  BY <1>10 DEF FinishFails, Keyed, Fields, RetirePc
<1>11. CASE RolledBack(i) \/ RollbackFails(i) \/ RollbackEnds(i)
  BY <1>11 DEF RolledBack, RollbackFails, RollbackEnds, Keyed, Fields
<1> QED
  BY <1>1, <1>2, <1>3, <1>4, <1>5, <1>6, <1>7, <1>8, <1>9, <1>10, <1>11
  DEF Retirement

\* The steps of the cleanup worker.
LEMMA CleaningKeyed ==
  ASSUME Keyed(host), NEW i \in Ids, Cleanup(i)
  PROVE  Keyed(host')
<1>1. Keyed([host EXCEPT !.worker = "record"])
  BY DEF Keyed, Fields
<1> QED
  BY <1>1, CleanupKeyed DEF Cleanup, Finalized, RecordTurn, CleanupRecorded,
     RecordFails

\* A promise of the provider settles, in time or late.
LEMMA SettlesKeyed ==
  ASSUME Keyed(host), NEW p \in Providers, Settles(p)
  PROVE  Keyed(host')
<1>1. ASSUME NEW i \in Ids, LaunchSettles(i) \/ ReconcileSettles(i)
      PROVE  Keyed(host')
  <2>1. \A answer : Keyed(Resumed(i, answer))
    BY DEF Resumed, Keyed, Fields
  <2> QED
    BY <1>1, <2>1 DEF LaunchSettles, ReconcileSettles
<1>2. ASSUME NEW i \in Ids, PreparationSettles(p, i) PROVE Keyed(host')
  <2> DEFINE h == [host EXCEPT !.preparing[p] = NoId]
  <2>1. Keyed(h) /\ h.ret = host.ret /\ h.key = host.key
    BY DEF Keyed, Fields
  <2>2. PICK answer : Prepared(p, i, answer)
    BY <1>2 DEF PreparationSettles
  <2>3. CASE h.ret[i] # "prepare"
    <3>1. host' = LatePreparation(h, i, answer)
      BY <2>2, <2>3 DEF Prepared
    <3> QED
      BY <2>1, <3>1, LateKeyed
  <2>4. CASE h.ret[i] = "prepare"
    <3>1. \/ host' = [h EXCEPT !.ret[i] = "over"]
          \/ host' = [h EXCEPT !.ret[i] = "begin", !.seen[i] = answer]
      BY <2>2, <2>4 DEF Prepared
    <3> HIDE DEF h
    <3>2. CASE host' = [h EXCEPT !.ret[i] = "over"]
      BY <2>1, <3>2 DEF Keyed, Fields, RetirePc
    <3>3. CASE host' = [h EXCEPT !.ret[i] = "begin", !.seen[i] = answer]
      <4>1. h.key[i] \in Keys
        BY <2>1, <2>4 DEF Keyed
      <4>2. /\ host' = [f \in Fields |-> host'[f]]
            /\ host'.waiting = h.waiting /\ host'.key = h.key
            /\ host'.ret = [h.ret EXCEPT ![i] = "begin"]
        BY <2>1, <3>3 DEF Keyed, Fields
      <4> QED
        BY <2>1, <4>1, <4>2 DEF Keyed, RetirePc
    <3> QED
      BY <3>1, <3>2, <3>3
  <2> QED
    BY <2>3, <2>4
<1>3. ASSUME NEW i \in Ids, ReleaseSettles(i) PROVE Keyed(host')
  <2>1. PICK pc \in {host.ret[i], "over"} :
          /\ host' = [f \in Fields |-> host'[f]]
          /\ host'.waiting = host.waiting /\ host'.key = host.key
          /\ host'.ret = [host.ret EXCEPT ![i] = pc]
    BY <1>3 DEF ReleaseSettles, Keyed, Fields
  <2>2. host.ret = [host.ret EXCEPT ![i] = host.ret[i]]
    BY DEF Keyed
  <2>3. CASE pc = "over"
    BY <2>1, <2>3, MovedKeyed DEF RetirePc
  <2>4. CASE pc = host.ret[i]
    BY <2>1, <2>2, <2>4 DEF Keyed
  <2> QED
    BY <2>1, <2>3, <2>4
<1>4. ASSUME NEW i \in Ids, RetireSettles(i) PROVE Keyed(host')
  <2> DEFINE h == [host EXCEPT !.call[i] = "none"]
  <2>1. Keyed(h)
    BY DEF Keyed, Fields
  <2>2. PICK answer : Retired(i, answer)
    BY <1>4 DEF RetireSettles
  <2>3. CASE h.ret[i] # "retire"
    <3>1. host' = LateRetirement(h, i, answer)
      BY <2>2, <2>3 DEF Retired
    <3> QED
      BY <2>1, <3>1, LateKeyed
  <2>4. CASE h.ret[i] = "retire"
    <3>1. \E pc \in {"complete", "cancel", "over"} : host' = [h EXCEPT !.ret[i] = pc]
      BY <2>2, <2>4 DEF Retired
    <3> HIDE DEF h
    <3> QED
      BY <2>1, <3>1 DEF Keyed, Fields, RetirePc
  <2> QED
    BY <2>3, <2>4
<1> QED
  BY <1>1, <1>2, <1>3, <1>4 DEF Settles

-----------------------------------------------------------------------------
(* The refinement.                                                          *)

\* The first state of a coordinator.
LEMMA CoordinatorInitKeyed == CoordinatorInit => Init /\ Keyed(host)
  BY IdleKeyed DEF CoordinatorInit

\* A coordinator step that does not touch the ledger.
LEMMA Apart == LedgerIdle => UNCHANGED vars
  BY DEF LedgerIdle, ledgerVars, vars

\* Every mutation asked for by a task is one the ledger has.
LEMMA CreationLedger ==
  ASSUME NEW i \in Ids, Creation(i)
  PROVE  [Next]_vars
<1>1. CASE MarkTurn(i)
  BY <1>1 DEF MarkTurn, Next, CoordinatorTransition
<1>2. CASE SettleTurn(i)
  <2>1. PICK to \in Settled : Transition(i, {"creating", "uncertain"}, to)
    BY <1>2 DEF SettleTurn, Answers, Settled
  <2> QED
    BY <2>1 DEF Next, CoordinatorTransition
<1>3. CASE Marked(i) \/ MarkFails(i) \/ SettleWritten(i) \/ SettleFails(i)
  BY <1>3 DEF Marked, MarkFails, SettleWritten, SettleFails, Written, Fails, Next
<1>4. CASE Deadline(i) \/ TaskEnds(i)
  BY <1>4, Apart DEF Deadline, TaskEnds, InMemory
<1> QED
  BY <1>1, <1>2, <1>3, <1>4 DEF Creation

\* Every mutation asked for by a retirement: the fence is raised under the
\* key the client gave, which Keyed remembers.
LEMMA RetirementLedger ==
  ASSUME Keyed(host), NEW i \in Ids, Retirement(i)
  PROVE  [Next]_vars
<1>1. CASE BeginTurn(i)
  BY <1>1 DEF BeginTurn, Keyed, Next
<1>2. CASE CancelTurn(i) \/ CompleteTurn(i) \/ RollbackTurn(i)
  BY <1>2 DEF CancelTurn, CompleteTurn, RollbackTurn, Next
<1>3. CASE \/ Begun(i) \/ BeginFails(i) \/ Canceled(i) \/ Completed(i)
           \/ FinishFails(i) \/ RolledBack(i) \/ RollbackFails(i)
  BY <1>3 DEF Begun, BeginFails, Canceled, Completed, FinishFails, RolledBack,
     RollbackFails, Written, Fails, Next
<1>4. CASE \/ PreparationDeadline(i) \/ BeginRefused(i) \/ ReleaseDeadline(i)
           \/ Refreshed(i) \/ RefreshAborted(i) \/ RetireDeadline(i)
           \/ Republished(i) \/ RetirementEnds(i) \/ RollbackEnds(i)
  BY <1>4, Apart DEF PreparationDeadline, BeginRefused, ReleaseDeadline,
     Refreshed, RefreshAborted, RetireDeadline, Republished, RetirementEnds,
     RollbackEnds, InMemory
<1> QED
  BY <1>1, <1>2, <1>3, <1>4 DEF Retirement

\* Every mutation asked for by the cleanup worker.
LEMMA CleaningLedger ==
  ASSUME NEW i \in Ids, Cleanup(i)
  PROVE  [Next]_vars
<1>1. CASE Finalized(i)
  BY <1>1, Apart DEF Finalized
<1>2. CASE RecordTurn(i) \/ CleanupRecorded(i) \/ RecordFails(i)
  BY <1>2 DEF RecordTurn, CleanupRecorded, RecordFails, Written, Fails, Next
<1> QED
  BY <1>1, <1>2 DEF Cleanup

\* Admission reserves for the request that waited, which Keyed remembers.
LEMMA ClientsLedger ==
  ASSUME Keyed(host), Clients \/ Admission
  PROVE  [Next]_vars
<1> SubmitKeys \subseteq Keys
  BY CoordinatorAssumption
<1>1. CASE Clients
  BY <1>1, Apart DEF Clients, Submit, Retire, InMemory
<1>2. ASSUME NEW k \in SubmitKeys, SubmitTurn(k)
      PROVE  [Next]_vars
  <2>1. host.waiting[k] \in Requests /\ Reserve(k, host.waiting[k])
    BY <1>2 DEF SubmitTurn, Keyed
  <2> QED
    BY <2>1 DEF Next
<1>3. ASSUME NEW k \in SubmitKeys, SubmitRefused(k)
      PROVE  [Next]_vars
  BY <1>3, Apart DEF SubmitRefused, InMemory
<1>4. ASSUME NEW i \in Ids, Submitted(i) \/ SubmitFails(i)
      PROVE  [Next]_vars
  BY <1>4 DEF Submitted, SubmitFails, Written, Fails, Next
<1> QED
  BY <1>1, <1>2, <1>3, <1>4 DEF Admission

\* Starting and stopping open and close the ledger, or end its process.
LEMMA ProcessLedger ==
  ASSUME Start \/ Starting \/ Operator \/ Released
  PROVE  [Next]_vars
<1>1. CASE Start \/ StartFails \/ Released
  BY <1>1 DEF Start, StartFails, Released, Next
<1>2. CASE Dies
  BY <1>2 DEF Dies, ProcessEnds, Next
<1>3. CASE Stop \/ Exits \/ StartEnds
  BY <1>3, Apart DEF Stop, Exits, StartEnds
<1>4. ASSUME NEW i \in Ids, Interrupt(i) \/ Interrupted(i) \/ InterruptFails(i)
      PROVE  [Next]_vars
  BY <1>4 DEF Interrupt, Interrupted, InterruptFails, Written, ProcessEnds,
     Next, CoordinatorTransition
<1> QED
  BY <1>1, <1>2, <1>3, <1>4 DEF Starting, Operator

\* What the provider answers does not reach the ledger by itself.
LEMMA SettlesLedger ==
  ASSUME NEW p \in Providers, Settles(p)
  PROVE  UNCHANGED vars
  BY Apart DEF Settles, PreparationSettles, LaunchSettles, ReconcileSettles,
     ReleaseSettles, RetireSettles, InMemory

\* Every step of the coordinator keeps Keyed, and is a step of the ledger or
\* leaves it alone.
LEMMA CoordinatorStep ==
  IInv /\ Keyed(host) /\ [CoordinatorNext]_coordinatorVars
    => [Next]_vars /\ Keyed(host')
<1> SUFFICES ASSUME IInv, Keyed(host), [CoordinatorNext]_coordinatorVars
             PROVE  [Next]_vars /\ Keyed(host')
  OBVIOUS
<1>1. CASE Clients \/ Admission
  BY <1>1, ClientsLedger, ClientsKeyed
<1>2. CASE Start \/ Starting \/ Operator \/ Released
  <2>1. [Next]_vars
    BY <1>2, ProcessLedger
  <2>2. Keyed(host')
    BY <1>2, StartingKeyed, OperatorKeyed DEF Operator
  <2> QED
    BY <2>1, <2>2
<1>3. CASE \E i \in Ids : Creation(i) \/ Retirement(i) \/ Cleanup(i)
  BY <1>3, CreationLedger, RetirementLedger, CleaningLedger, CreationKeyed,
     RetirementKeyed, CleaningKeyed
<1>4. CASE \E p \in Providers : Settles(p)
  BY <1>4, SettlesLedger, SettlesKeyed
<1>5. CASE UNCHANGED coordinatorVars
  BY <1>5 DEF coordinatorVars, ledgerVars, vars
<1> QED
  BY <1>1, <1>2, <1>3, <1>4, <1>5 DEF CoordinatorNext, Internal

\* Whatever clients, provider, disk and process do, the coordinator drives
\* the ledger by its own operations alone: it implements LaunchLedger's Spec.
THEOREM Implements == CoordinatorSpec => LedgerSpec
<1> DEFINE CInv == IInv /\ Keyed(host)
<1>1. CoordinatorInit => Init /\ CInv
  BY CoordinatorInitKeyed, InitInv
<1>2. CInv /\ [CoordinatorNext]_coordinatorVars => [Next]_vars /\ CInv'
  BY CoordinatorStep, NextInv
<1> HIDE DEF CInv
<1> QED
  BY <1>1, <1>2, PTL DEF CoordinatorSpec, LedgerSpec, Spec

\* So the ledger file is one open() accepts at every step of the coordinator,
\* launches, retirements, late answers, failing writes and crashes together.
THEOREM CoordinatorReopens == CoordinatorSpec => []FileReopens
  BY Implements, AlwaysReopens, PTL DEF LedgerSpec

\* And durable records follow the launch lifecycle under the coordinator.
THEOREM CoordinatorLifecycle == CoordinatorSpec => DurableLifecycle
  BY Implements, LifecycleKept, PTL DEF LedgerSpec

-----------------------------------------------------------------------------
(* Whoever works for a launch. *)

\* What the write in progress is to launch i.
Op(w, i) == IF w.id = i THEN w.op ELSE "nobody"

\* The provider does not prepare the retirement of i.
NotPreparing(h, i) == \A p \in Providers : h.preparing[p] # i
Holds(h, i) == \E p \in Providers : h.lane[p] = i

\* The fields the proofs follow are functions on the launches, or queues.
Shaped(h) ==
  /\ Keyed(h)
  /\ h.queue \in Seq(Ids) /\ h.retq \in Seq(Ids)
  /\ h.task = [i \in Ids |-> h.task[i]] /\ h.call = [i \in Ids |-> h.call[i]]
  /\ h.recovered = [i \in Ids |-> h.recovered[i]]
  /\ h.seen = [i \in Ids |-> h.seen[i]] /\ h.late = [i \in Ids |-> h.late[i]]
  /\ h.lane = [p \in Providers |-> h.lane[p]]
  /\ h.preparing = [p \in Providers |-> h.preparing[p]]

\* A launch has one task or one retirement at a time, with its lane, and a
\* call only while one of them stands for it.
Laned(h, i) ==
  /\ h.task[i] # "none" \/ h.ret[i] \notin {"none", "queued"} => Holds(h, i)
  /\ h.task[i] # "none" => h.ret[i] \in {"none", "queued"}
  /\ \/ h.call[i] = "none"
     \/ h.call[i] \in {"launch", "reconcile"} /\ h.task[i] \notin {"none", "mark"}
     \/ h.call[i] = "release" /\ h.ret[i] \in {"release", "over"}
     \/ h.call[i] = "retire" /\ h.ret[i] \in {"retire", "over"}

Lanes(h) ==
  /\ IsFiniteSet(HeldLanes(h)) /\ Cardinality(HeldLanes(h)) <= MaxActive
  /\ Once(h.queue) /\ Once(h.retq)
  /\ \A i \in Ids : Laned(h, i)

\* A lane, or the preparation outside it, is that of the record's provider.
Placed(h, d) ==
  \A i \in Ids, p \in Providers :
    (h.lane[p] = i \/ h.preparing[p] = i) /\ d.rec[i].state # "absent" => Of(d, i) = p

\* Nobody knows of a launch that was not drawn yet.
Unborn(h, i) ==
  /\ h.task[i] = "none" /\ h.ret[i] = "none" /\ h.call[i] = "none"
  /\ h.late[i] # "rolling"
  /\ ~Holds(h, i) /\ NotPreparing(h, i)

\* What waits in a queue.
Waits(h, d, w, i) ==
  /\ i \in Elems(h.queue) =>
       /\ h.task[i] = "none" /\ h.ret[i] = "none"
       /\ d.rec[i].state \in {"requested", "uncertain"} /\ Op(w, i) = "nobody"
  /\ i \in Elems(h.retq) => h.ret[i] = "queued"
  /\ h.ret[i] = "queued" =>
       /\ d.rec[i].state \in {"creating", "uncertain", "owned", "retiring"}
       /\ h.recovered[i] => d.rec[i].state = "retiring" /\ Op(w, i) = "nobody"

\* What a task may assume of its record.
Tasked(h, d, w, i) ==
  /\ h.task[i] = "mark" =>
       /\ h.ret[i] = "none"
       /\ \/ d.rec[i].state = "requested" /\ Op(w, i) = "nobody"
          \/ Op(w, i) = "mark"
  /\ h.task[i] \in {"call"} \cup Answers =>
       \/ /\ h.ret[i] = "none" /\ Op(w, i) = "nobody"
          /\ d.rec[i].state \in {"creating", "uncertain"}
       \/ Op(w, i) = "settle"
  /\ Op(w, i) \in {"submit", "interrupt"} => h.task[i] = "none" /\ h.ret[i] = "none"
  /\ Op(w, i) = "mark" => h.task[i] = "mark"
  /\ Op(w, i) = "settle" => h.task[i] \in Answers

\* What a retirement, its late answer and its deletion may assume: while an
\* agent may be deleted its record is retiring and it is hidden.
Fenced(h, d, w, i) ==
  /\ d.rec[i].state = "retiring" /\ Op(w, i) = "nobody"
  /\ i \notin h.visible /\ NotPreparing(h, i)
Retires(h, d, w, i) ==
  /\ h.ret[i] \in {"refresh", "retire"} => Fenced(h, d, w, i)
  /\ h.call[i] = "retire" => Fenced(h, d, w, i) /\ h.late[i] # "rolling"
  /\ h.ret[i] = "begin" /\ h.seen[i] # "uncertain" /\ d.rec[i].state # "absent" =>
       NotPreparing(h, i)
  /\ h.ret[i] \in {"cancel", "complete"} =>
       \/ d.rec[i].state = "retiring" /\ Op(w, i) = "nobody"
       \/ Op(w, i) = h.ret[i]
  /\ h.late[i] = "rolling" =>
       /\ h.ret[i] \in {"none", "over"} /\ NotPreparing(h, i)
       /\ \/ d.rec[i].state = "retiring" /\ Op(w, i) = "nobody"
          \/ Op(w, i) = "rollback"
  /\ Op(w, i) \in {"begin", "cancel", "complete"} => h.ret[i] = Op(w, i)
  /\ Op(w, i) = "rollback" => h.late[i] = "rolling"
  /\ h.recovered[i] /\ h.ret[i] # "none" =>
       /\ d.rec[i].state \in {"owned", "retiring", "absent"}
       /\ Op(w, i) \notin {"submit", "interrupt", "mark", "settle"}

\* What the write in progress changes, from the Maps u to the Maps d.
Change(u, d, w, i) ==
  LET old == u.rec[i].state  new == d.rec[i].state  op == Op(w, i)
  IN  /\ op \in {"nobody", "submit", "interrupt", "mark", "settle", "begin", "cancel",
                 "complete", "rollback", "record"}
      /\ op \in {"nobody", "record"} => u.rec[i] = d.rec[i]
      /\ op = "record" => new = "absent"
      /\ op \notin {"submit", "complete"} => u.rec[i].request = d.rec[i].request
      /\ op = "submit" => old = "absent" /\ new = "requested"
      /\ op = "interrupt" => old = "creating" /\ new = "uncertain"
      /\ op = "mark" => old = "requested" /\ new = "creating"
      /\ op = "settle" => old \in {"creating", "uncertain"} /\ new \in Answers
      /\ op = "begin" => old = "owned" /\ new = "retiring"
      /\ op \in {"cancel", "rollback"} => old = "retiring" /\ new = "owned"
      /\ op = "complete" => old = "retiring" /\ new = "absent"

\* While the ledger is open.
Tended(h, d, w) ==
  \A i \in Ids : Waits(h, d, w, i) /\ Tasked(h, d, w, i) /\ Retires(h, d, w, i)

\* Nobody retires a launch before start() is done but start() itself.
Early(p, h) == p = "starting" => \A i \in Ids : h.ret[i] = "none" \/ h.recovered[i]

Current == IF status = "writing" THEN undo ELSE mem
Control ==
  /\ IInv /\ Shaped(host) /\ Lanes(host)
  /\ (status = "closed") <=> phase \in {"down", "closed"}
  /\ (status # "writing") <=> (writer = Nobody)
  /\ writer.op = "interrupt" => phase = "starting"
  /\ Early(phase, host)
  /\ \A i \in Ids \ issued : Unborn(host, i)
  /\ status = "writing" => /\ writer.id \in Ids
                           /\ \A i \in Ids : Change(undo, mem, writer, i)
                           /\ Placed(host, undo)
  /\ status # "closed" => Tended(host, mem, writer) /\ Placed(host, mem)
  /\ Serving => host.visible = InState(Current, {"owned"})
-----------------------------------------------------------------------------
(* The pumps. *)

\* What a pump starts waits in its queue for a lane that is free, one launch to
\* a lane.
LEMMA StartedItems ==
  ASSUME NEW h, NEW d, NEW q \in Seq(Ids)
  PROVE  /\ Started(h, d, q) \subseteq Elems(q) /\ Elems(q) \subseteq Ids
         /\ \A i \in Started(h, d, q) : h.lane[Of(d, i)] = NoId
         /\ \A i, j \in Started(h, d, q) : Of(d, i) = Of(d, j) => i = j
<1>1. \A i \in Started(h, d, q) : \E n \in Startable(h, d, q) : q[n] = i
  BY DEF Started
<1>2. \A n \in Startable(h, d, q) :
        /\ n \in DOMAIN q /\ n \in Nat /\ h.lane[Of(d, q[n])] = NoId
        /\ \A m \in DOMAIN q : m < n => Of(d, q[m]) # Of(d, q[n])
  BY DEF Startable
<1>3. Elems(q) \subseteq Ids
  BY DEF Elems
<1>4. ASSUME NEW i \in Started(h, d, q), NEW j \in Started(h, d, q),
             Of(d, i) = Of(d, j)
      PROVE  i = j
  <2>1. PICK m \in Startable(h, d, q), n \in Startable(h, d, q) : q[m] = i /\ q[n] = j
    BY <1>1
  <2>2. ~(m < n) /\ ~(n < m) /\ m \in Nat /\ n \in Nat
    BY <1>2, <1>4, <2>1
  <2>3. m = n
    BY <2>2
  <2> QED
    BY <2>1, <2>3
<1> QED
  BY <1>1, <1>2, <1>3, <1>4 DEF Elems

\* A pump starts no more than there is room for.
LEMMA RoomForStarted ==
  ASSUME NEW h, NEW d, NEW q \in Seq(Ids), NEW N,
         IsFiniteSet(HeldLanes(h)), Cardinality(HeldLanes(h)) <= MaxActive,
         \A p \in N : \E i \in Started(h, d, q) : Of(d, i) = p
  PROVE  /\ IsFiniteSet(HeldLanes(h) \cup N)
         /\ N \cap HeldLanes(h) = {} => Cardinality(HeldLanes(h) \cup N) <= MaxActive
<1> DEFINE I == Startable(h, d, q)  free == MaxActive - Cardinality(HeldLanes(h))
           M == {n \in I : Rank(I, n) <= free}
           At(p) == CHOOSE n \in M : Of(d, q[n]) = p
           f == [p \in N |-> Rank(I, At(p))]
<1>1. free \in Nat /\ Cardinality(HeldLanes(h)) \in Nat /\ MaxActive \in Nat
  BY CoordinatorAssumption, FS_CardinalityType
<1>2. Started(h, d, q) = {q[n] : n \in M}
  BY DEF Started, Rank
<1>3. \A p \in N : At(p) \in M /\ Of(d, q[At(p)]) = p
  BY <1>2
<1>4. Len(q) \in Nat /\ I \in SUBSET (1..Len(q))
  BY DEF Startable
<1> HIDE DEF I, free
<1>5. /\ Cardinality(I) \in Nat
      /\ \A n \in I : Rank(I, n) \in 1..Cardinality(I)
      /\ \A m, n \in I : m < n => Rank(I, m) < Rank(I, n)
  BY <1>4, Ranks
<1>6. \A n \in M : n \in I /\ Rank(I, n) \in 1..free
  BY <1>1, <1>5
<1>7. \A m, n \in M : Rank(I, m) = Rank(I, n) => m = n
  <2> SUFFICES ASSUME NEW m \in M, NEW n \in M, m # n
               PROVE  Rank(I, m) # Rank(I, n)
    OBVIOUS
  <2>1. m < n \/ n < m
    BY <1>4
  <2> QED
    BY <1>5, <2>1
<1> HIDE DEF M, At
<1>8. f \in [N -> 1..free]
  BY <1>3, <1>6
<1>9. \A x, y \in N : f[x] = f[y] => x = y
  <2> SUFFICES ASSUME NEW x \in N, NEW y \in N, f[x] = f[y]
               PROVE  x = y
    OBVIOUS
  <2>1. Rank(I, At(x)) = Rank(I, At(y))
    OBVIOUS
  <2>2. At(x) = At(y)
    BY <1>3, <1>7, <2>1
  <2> QED
    BY <1>3, <2>2
<1> HIDE DEF f
<1>10. f \in Injection(N, 1..free)
  BY <1>8, <1>9, Fun_IsInj
<1>11. IsFiniteSet(1..free) /\ Cardinality(1..free) = free
  <2>1. free \in Nat
    BY <1>1
  <2> QED
    BY <2>1, FS_Interval
<1>12. IsFiniteSet(N) /\ Cardinality(N) <= free /\ Cardinality(N) \in Nat
  BY <1>10, <1>11, FS_Injection, FS_CardinalityType
<1>13. free + Cardinality(HeldLanes(h)) = MaxActive
  BY <1>1 DEF free
<1>14. /\ IsFiniteSet(HeldLanes(h) \cup N)
       /\ Cardinality(HeldLanes(h) \cup N) =
            Cardinality(HeldLanes(h)) + Cardinality(N) - Cardinality(HeldLanes(h) \cap N)
  BY <1>12, FS_Union
<1>15. N \cap HeldLanes(h) = {} => Cardinality(HeldLanes(h) \cap N) = 0
  <2>1. N \cap HeldLanes(h) = HeldLanes(h) \cap N
    OBVIOUS
  <2> QED
    BY <2>1, FS_EmptySet
<1> QED
  BY <1>1, <1>12, <1>13, <1>14, <1>15

\* A pump takes lanes from nobody, and what it starts has its lane.
Takes(h, d, S, g) ==
  /\ IsFiniteSet(HeldLanes(g)) /\ Cardinality(HeldLanes(g)) <= MaxActive
  /\ g.lane = [p \in Providers |-> g.lane[p]]
  /\ \A i \in S : h.lane[Of(d, i)] = NoId /\ g.lane[Of(d, i)] = i
  /\ \A p \in Providers : \/ g.lane[p] = h.lane[p]
                          \/ g.lane[p] \in S /\ Of(d, g.lane[p]) = p
  /\ \A p \in Providers : h.lane[p] # NoId => g.lane[p] = h.lane[p]

\* What a pump starts takes the free lanes of its providers, never more than
\* MAX_ACTIVE_GLOBAL in all, and no lane that is held.
LEMMA OccupiedLanes ==
  ASSUME NEW h, NEW d, NEW q \in Seq(Ids), NEW S \in SUBSET Started(h, d, q), NEW g,
         g.lane = Occupied(h, d, S),
         \A i \in S : Of(d, i) \in Providers,
         IsFiniteSet(HeldLanes(h)), Cardinality(HeldLanes(h)) <= MaxActive
  PROVE  Takes(h, d, S, g)
<1>1. /\ S \subseteq Ids /\ \A i \in S : h.lane[Of(d, i)] = NoId
      /\ \A i, j \in S : Of(d, i) = Of(d, j) => i = j
  BY StartedItems
<1>2. \A p \in Providers :
        \/ g.lane[p] \in S /\ Of(d, g.lane[p]) = p
        \/ g.lane[p] = h.lane[p] /\ \A i \in S : Of(d, i) # p
  BY DEF Occupied
<1>3. \A i \in S : g.lane[Of(d, i)] = i
  BY <1>1, <1>2
<1>4. \A p \in Providers : h.lane[p] # NoId => g.lane[p] = h.lane[p]
  BY <1>1, <1>2
<1> DEFINE N == HeldLanes(g) \ HeldLanes(h)
<1>5. \A p \in N : \E i \in Started(h, d, q) : Of(d, i) = p
  BY <1>2 DEF HeldLanes
<1>6. HeldLanes(g) = HeldLanes(h) \cup N /\ N \cap HeldLanes(h) = {}
  BY <1>4 DEF HeldLanes
<1> HIDE DEF N
<1>7. IsFiniteSet(HeldLanes(g)) /\ Cardinality(HeldLanes(g)) <= MaxActive
  <2>1. IsFiniteSet(HeldLanes(h) \cup N) /\ Cardinality(HeldLanes(h) \cup N) <= MaxActive
    BY <1>5, <1>6, RoomForStarted
  <2> QED
    BY <1>6, <2>1
<1> QED
  BY <1>1, <1>2, <1>3, <1>4, <1>7 DEF Occupied, Takes

\* What the proofs carry through the pumps while the ledger is open.
Kept(h, d, w) == Shaped(h) /\ Lanes(h) /\ Tended(h, d, w) /\ Placed(h, d)

\* A pump gives nothing to a launch without a record.
NoneUnrecorded(h, g, d) ==
  \A i \in Ids, p \in Providers :
    d.rec[i].state = "absent" /\ (g.lane[p] = i \/ g.preparing[p] = i) =>
      h.lane[p] = i \/ h.preparing[p] = i

\* A record names a request, and the request a provider.
LEMMA OfProvider ==
  ASSUME NEW d, RecordsCoherent(d), NEW i \in Ids, d.rec[i].state # "absent"
  PROVE  Of(d, i) \in Providers
  BY CoordinatorAssumption DEF RecordsCoherent, Of

\* #pump.
LEMMA PumpKept ==
  ASSUME NEW h, NEW d, NEW w, RecordsCoherent(d), Kept(h, d, w)
  PROVE  /\ Kept(Pump(h, d), d, w)
         /\ Pump(h, d).visible = h.visible
         /\ Pump(h, d).ret = h.ret /\ Pump(h, d).recovered = h.recovered
         /\ \A i \in Ids : Unborn(h, i) /\ d.rec[i].state = "absent" => Unborn(Pump(h, d), i)
         /\ NoneUnrecorded(h, Pump(h, d), d)
<1> DEFINE g == Pump(h, d)
           S == Started(h, d, h.queue)
           create == {i \in S : d.rec[i].state = "requested"}
<1>1. Keyed(g) /\ h = [f \in Fields |-> h[f]] /\ h.queue \in Seq(Ids)
  BY PumpKeyed DEF Kept, Shaped, Keyed
<1>2. /\ g.queue = Without(h.queue, S) /\ g.lane = Occupied(h, d, S)
      /\ g.task = [i \in Ids |-> IF i \in create THEN "mark"
                                 ELSE IF i \in S THEN "call" ELSE h.task[i]]
      /\ g.call = [i \in Ids |-> IF i \in S \ create THEN "reconcile" ELSE h.call[i]]
  BY <1>1 DEF Pump, Fields
<1>3. /\ g.retq = h.retq /\ g.ret = h.ret /\ g.recovered = h.recovered
      /\ g.seen = h.seen /\ g.late = h.late /\ g.preparing = h.preparing
      /\ g.visible = h.visible
  BY <1>1 DEF Pump, Fields
<1>4. S \subseteq Elems(h.queue) /\ Elems(h.queue) \subseteq Ids
  BY <1>1, StartedItems
<1>5. \A i \in S : /\ h.task[i] = "none" /\ h.ret[i] = "none"
                   /\ d.rec[i].state \in {"requested", "uncertain"}
                   /\ Op(w, i) = "nobody" /\ Of(d, i) \in Providers
  BY <1>4, OfProvider DEF Kept, Tended, Waits
<1>6. /\ g.queue \in Seq(Ids) /\ Elems(g.queue) = Elems(h.queue) \ S
      /\ Once(g.queue)
  BY <1>1, <1>2, WithoutItems DEF Kept, Lanes
<1> HIDE DEF g, S
<1>7. /\ IsFiniteSet(HeldLanes(g)) /\ Cardinality(HeldLanes(g)) <= MaxActive
      /\ g.lane = [p \in Providers |-> g.lane[p]]
      /\ \A i \in S : h.lane[Of(d, i)] = NoId /\ g.lane[Of(d, i)] = i
      /\ \A p \in Providers : \/ g.lane[p] = h.lane[p]
                              \/ g.lane[p] \in S /\ Of(d, g.lane[p]) = p
      /\ \A p \in Providers : h.lane[p] # NoId => g.lane[p] = h.lane[p]
  <2>1. S \in SUBSET Started(h, d, h.queue) /\ \A i \in S : Of(d, i) \in Providers
    BY <1>5 DEF S
  <2>2. IsFiniteSet(HeldLanes(h)) /\ Cardinality(HeldLanes(h)) <= MaxActive
    BY DEF Kept, Lanes
  <2>3. h.queue \in Seq(Ids) /\ g.lane = Occupied(h, d, S)
    BY <1>1, <1>2
  <2>4. Takes(h, d, S, g)
    BY <2>1, <2>2, <2>3, OccupiedLanes
  <2> QED
    BY <2>4 DEF Takes
<1>8. Shaped(g)
  BY <1>1, <1>2, <1>3, <1>6, <1>7 DEF Shaped, Kept
<1>9. \A i \in Ids : Holds(h, i) => Holds(g, i)
  BY <1>7, CoordinatorAssumption DEF Holds
<1>10. ASSUME NEW i \in Ids
       PROVE  Laned(g, i) /\ Waits(g, d, w, i) /\ Tasked(g, d, w, i) /\ Retires(g, d, w, i)
  <2>1. Laned(h, i) /\ Waits(h, d, w, i) /\ Tasked(h, d, w, i) /\ Retires(h, d, w, i)
    BY DEF Kept, Lanes, Tended
  <2>2. CASE i \in S
    <3>1. Holds(g, i)
      BY <1>5, <1>7, <2>2 DEF Holds
    <3>2. g.task[i] = IF d.rec[i].state = "requested" THEN "mark" ELSE "call"
      BY <1>2, <2>2
    <3>3. g.call[i] = IF d.rec[i].state = "requested" THEN h.call[i] ELSE "reconcile"
      BY <1>2, <2>2
    <3>4. h.call[i] = "none" /\ (d.rec[i].state # "requested" => g.task[i] = "call")
      BY <1>2, <1>5, <2>1, <2>2 DEF Laned
    <3>5. i \notin Elems(g.queue)
      BY <1>6, <2>2
    <3>6. h.ret[i] = "none" /\ d.rec[i].state \in {"requested", "uncertain"}
          /\ Op(w, i) = "nobody"
      BY <1>5, <2>2
    <3>7. Laned(g, i)
      BY <1>3, <3>1, <3>2, <3>3, <3>4, <3>6 DEF Laned
    <3>8. Waits(g, d, w, i)
      BY <1>3, <2>1, <3>5, <3>6 DEF Waits
    <3>9. Tasked(g, d, w, i)
      BY <1>3, <2>1, <3>2, <3>6 DEF Tasked, Answers
    <3>10. Retires(g, d, w, i)
      BY <1>3, <2>1, <3>3, <3>4, <3>6 DEF Retires, NotPreparing
    <3> QED
      BY <3>7, <3>8, <3>9, <3>10
  <2>3. CASE i \notin S
    <3>1. g.task[i] = h.task[i] /\ g.call[i] = h.call[i]
      BY <1>2, <2>3
    <3>2. i \in Elems(g.queue) => i \in Elems(h.queue)
      BY <1>6
    <3> QED
      BY <1>3, <1>9, <2>1, <3>1, <3>2
      DEF Laned, Waits, Tasked, Retires, Fenced, NotPreparing
  <2> QED
    BY <2>2, <2>3
<1>11. Lanes(g)
  BY <1>3, <1>6, <1>7, <1>10 DEF Lanes, Kept
<1>12. Placed(g, d)
  BY <1>3, <1>7 DEF Placed, Kept
<1>13. \A i \in Ids : Unborn(h, i) /\ d.rec[i].state = "absent" => Unborn(g, i)
  <2> SUFFICES ASSUME NEW i \in Ids, Unborn(h, i), d.rec[i].state = "absent"
               PROVE  Unborn(g, i)
    OBVIOUS
  <2>1. i \notin S
    BY <1>5
  <2>2. g.task[i] = h.task[i] /\ g.call[i] = h.call[i] /\ ~Holds(g, i)
    BY <1>2, <1>7, <2>1 DEF Unborn, Holds
  <2> QED
    BY <1>3, <2>2 DEF Unborn, NotPreparing
<1>14. NoneUnrecorded(h, g, d)
  <2>1. \A i \in S : d.rec[i].state # "absent"
    BY <1>5
  <2> QED
    BY <1>3, <1>7, <2>1 DEF NoneUnrecorded
<1> QED
  BY <1>3, <1>8, <1>10, <1>11, <1>12, <1>13, <1>14 DEF Kept, Tended, g

\* #pumpRetirements: what it hides is retiring, and nothing is written of it.
LEMMA PumpRetirementsKept ==
  ASSUME NEW h, NEW d, NEW w, RecordsCoherent(d), Kept(h, d, w)
  PROVE  /\ Kept(PumpRetirements(h, d), d, w)
         /\ PumpRetirements(h, d).visible \subseteq h.visible
         /\ \A i \in Ids : i \in h.visible =>
              \/ i \in PumpRetirements(h, d).visible
              \/ d.rec[i].state = "retiring" /\ Op(w, i) = "nobody"
         /\ PumpRetirements(h, d).recovered = h.recovered
         /\ \A i \in Ids : h.ret[i] = "none" => PumpRetirements(h, d).ret[i] = "none"
         /\ \A i \in Ids : Unborn(h, i) => Unborn(PumpRetirements(h, d), i)
         /\ NoneUnrecorded(h, PumpRetirements(h, d), d)
<1> DEFINE g == PumpRetirements(h, d)
           S == {i \in Started(h, d, h.retq) : h.ret[i] = "queued"}
           refused == {i \in S : h.preparing[Of(d, i)] # NoId}
           resumed == {i \in S \ refused : h.recovered[i]}
           fresh == S \ (refused \cup resumed)
<1>1. Keyed(g) /\ h = [f \in Fields |-> h[f]] /\ h.retq \in Seq(Ids)
  BY PumpRetirementsKeyed DEF Kept, Shaped, Keyed
<1>2. /\ g.retq = Without(h.retq, S) /\ g.lane = Occupied(h, d, S)
      /\ g.ret = [i \in Ids |-> IF i \in refused THEN "over"
                                ELSE IF i \in resumed THEN "refresh"
                                ELSE IF i \in fresh THEN "prepare" ELSE h.ret[i]]
      /\ g.preparing = [p \in Providers |->
                          IF \E i \in fresh : Of(d, i) = p
                          THEN CHOOSE i \in fresh : Of(d, i) = p
                          ELSE h.preparing[p]]
      /\ g.visible = h.visible \ resumed
  BY <1>1 DEF PumpRetirements, Fields
<1>3. /\ g.queue = h.queue /\ g.task = h.task /\ g.recovered = h.recovered
      /\ g.seen = h.seen /\ g.late = h.late /\ g.call = h.call
  BY <1>1 DEF PumpRetirements, Fields
<1>4. S \subseteq Elems(h.retq) /\ Elems(h.retq) \subseteq Ids
      /\ \A i \in S : h.lane[Of(d, i)] = NoId /\ h.ret[i] = "queued"
  BY ZenonT(60), <1>1, StartedItems
<1>5. \A i \in S : /\ Of(d, i) \in Providers
                   /\ d.rec[i].state # "absent"
                   /\ h.recovered[i] => d.rec[i].state = "retiring" /\ Op(w, i) = "nobody"
  BY <1>4, OfProvider DEF Kept, Tended, Waits
<1>6. \A i \in S : h.task[i] = "none" /\ h.call[i] = "none"
  <2> SUFFICES ASSUME NEW i \in S PROVE h.task[i] = "none" /\ h.call[i] = "none"
    OBVIOUS
  <2>1. i \in Ids /\ Laned(h, i)
    BY <1>4 DEF Kept, Lanes
  <2>2. ~Holds(h, i)
    BY <1>4, <1>5, <2>1, CoordinatorAssumption DEF Kept, Placed, Holds
  <2> QED
    BY <1>4, <2>1, <2>2 DEF Laned
<1>7. /\ g.retq \in Seq(Ids) /\ Elems(g.retq) = Elems(h.retq) \ S
      /\ Once(g.retq)
  <2>1. h.retq \in Seq(Ids) /\ g.retq = Without(h.retq, S) /\ Once(h.retq)
    BY <1>1, <1>2 DEF Kept, Lanes
  <2> HIDE DEF g, S
  <2> QED
    BY <2>1, WithoutItems
<1>8. Takes(h, d, S, g)
  <2>1. S \in SUBSET Started(h, d, h.retq) /\ \A i \in S : Of(d, i) \in Providers
    BY <1>5
  <2>2. IsFiniteSet(HeldLanes(h)) /\ Cardinality(HeldLanes(h)) <= MaxActive
    BY DEF Kept, Lanes
  <2>3. h.retq \in Seq(Ids) /\ g.lane = Occupied(h, d, S)
    BY <1>1, <1>2
  <2> HIDE DEF g, S
  <2> QED
    BY <2>1, <2>2, <2>3, OccupiedLanes
<1>9. \A p \in Providers : \/ g.preparing[p] = h.preparing[p]
                           \/ g.preparing[p] \in fresh /\ Of(d, g.preparing[p]) = p
  BY <1>2, SMTT(30)
<1>10. /\ refused \subseteq S /\ resumed \subseteq S /\ fresh \subseteq S
       /\ S = refused \cup resumed \cup fresh
       /\ \A i \in resumed : h.preparing[Of(d, i)] = NoId /\ h.recovered[i] /\ i \notin fresh
  OBVIOUS
<1> HIDE DEF g, S, refused, resumed, fresh
<1>11. Shaped(g)
  BY <1>1, <1>2, <1>3, <1>7, <1>8 DEF Shaped, Kept, Takes
<1>12. \A i \in Ids : Holds(h, i) => Holds(g, i)
  BY <1>8, CoordinatorAssumption DEF Holds, Takes
<1>13. \A i \in Ids : i \notin fresh /\ NotPreparing(h, i) => NotPreparing(g, i)
  BY <1>9 DEF NotPreparing
<1>14. \A i \in resumed : NotPreparing(g, i)
  <2> SUFFICES ASSUME NEW i \in resumed PROVE NotPreparing(g, i)
    OBVIOUS
  <2>1. i \in S /\ i \in Ids /\ h.preparing[Of(d, i)] = NoId /\ i \notin fresh
    BY <1>4, <1>10
  <2>2. NotPreparing(h, i)
    BY <1>5, <2>1, CoordinatorAssumption DEF NotPreparing, Kept, Placed
  <2> QED
    BY <1>13, <2>1, <2>2
<1>15. ASSUME NEW i \in Ids
       PROVE  Laned(g, i) /\ Waits(g, d, w, i) /\ Tasked(g, d, w, i) /\ Retires(g, d, w, i)
  <2>1. Laned(h, i) /\ Waits(h, d, w, i) /\ Tasked(h, d, w, i) /\ Retires(h, d, w, i)
    BY DEF Kept, Lanes, Tended
  <2>2. CASE i \in S
    <3>1. Holds(g, i) /\ h.task[i] = "none" /\ h.call[i] = "none" /\ h.ret[i] = "queued"
      BY <1>4, <1>5, <1>6, <1>8, <2>2 DEF Holds, Takes
    <3>2. /\ g.ret[i] \in {"over", "refresh", "prepare"}
          /\ g.ret[i] = "refresh" => i \in resumed
      BY <1>2, <1>10, <2>2
    <3>3. /\ i \notin Elems(g.retq) /\ i \notin Elems(h.queue)
          /\ Op(w, i) \notin {"submit", "interrupt", "mark", "settle", "begin",
                              "cancel", "complete", "rollback"}
          /\ h.late[i] # "rolling"
      BY <1>7, <2>1, <2>2, <3>1 DEF Waits, Tasked, Retires, Answers
    <3>4. g.ret[i] = "refresh" => Fenced(g, d, w, i)
      BY <1>2, <1>5, <1>10, <1>14, <2>2, <3>2 DEF Fenced
    <3>5. Laned(g, i)
      BY <1>3, <3>1, <3>2 DEF Laned
    <3>6. Waits(g, d, w, i)
      BY <1>3, <3>2, <3>3 DEF Waits
    <3>7. Tasked(g, d, w, i)
      BY <1>3, <3>1, <3>3 DEF Tasked, Answers
    <3>8. Retires(g, d, w, i)
      <4>1. g.recovered[i] => /\ d.rec[i].state \in {"owned", "retiring", "absent"}
                              /\ Op(w, i) \notin {"submit", "interrupt", "mark", "settle"}
        BY <1>3, <2>1, <3>1 DEF Retires
      <4> QED
        BY <1>3, <3>1, <3>2, <3>3, <3>4, <4>1 DEF Retires
    <3> QED
      BY <3>5, <3>6, <3>7, <3>8
  <2>3. CASE i \notin S
    <3>1. g.ret[i] = h.ret[i] /\ (i \in g.visible => i \in h.visible)
          /\ (NotPreparing(h, i) => NotPreparing(g, i))
      BY <1>2, <1>10, <1>13, <2>3
    <3>2. i \in Elems(g.retq) => i \in Elems(h.retq)
      BY <1>7
    <3> QED
      BY <1>3, <1>12, <2>1, <3>1, <3>2 DEF Laned, Waits, Tasked, Retires, Fenced
  <2> QED
    BY <2>2, <2>3
<1>16. Lanes(g)
  BY <1>3, <1>7, <1>8, <1>15 DEF Lanes, Kept, Takes
<1>17. Placed(g, d)
  BY <1>8, <1>9 DEF Placed, Kept, Takes
<1>18. \A i \in Ids : Unborn(h, i) => Unborn(g, i)
  <2> SUFFICES ASSUME NEW i \in Ids, Unborn(h, i) PROVE Unborn(g, i)
    OBVIOUS
  <2>1. i \notin S /\ i \notin fresh
    BY <1>4, <1>10 DEF Unborn
  <2>2. g.ret[i] = h.ret[i]
    BY <1>2, <1>10, <2>1
  <2>3. ~Holds(g, i)
    BY <1>8, <2>1 DEF Unborn, Holds, Takes
  <2> QED
    BY <1>3, <1>13, <2>1, <2>2, <2>3 DEF Unborn
<1>19. \A i \in Ids : i \in h.visible =>
         \/ i \in g.visible
         \/ d.rec[i].state = "retiring" /\ Op(w, i) = "nobody"
  BY <1>2, <1>5, <1>10
<1>20. \A i \in Ids : h.ret[i] = "none" => g.ret[i] = "none"
  BY <1>2, <1>4, <1>10
<1>21. NoneUnrecorded(h, g, d)
  <2>1. \A i \in S : d.rec[i].state # "absent"
    BY <1>5
  <2> QED
    BY <1>8, <1>9, <1>10, <2>1 DEF NoneUnrecorded, Takes
<1> QED
  BY <1>2, <1>3, <1>11, <1>15, <1>16, <1>17, <1>18, <1>19, <1>20, <1>21
  DEF Kept, Tended, g

-----------------------------------------------------------------------------
(* Steps that concern one launch. *)

\* Nothing changed but what is kept of launch i, and the queues are the same.
Touch(h, g, i) ==
  /\ Shaped(g)
  /\ g.queue = h.queue /\ g.retq = h.retq
  /\ g.lane = h.lane /\ g.preparing = h.preparing
  /\ \A j \in Ids \ {i} :
       /\ g.task[j] = h.task[j] /\ g.ret[j] = h.ret[j] /\ g.call[j] = h.call[j]
       /\ g.recovered[j] = h.recovered[j] /\ g.seen[j] = h.seen[j]
       /\ g.late[j] = h.late[j]
       /\ j \in g.visible <=> j \in h.visible

\* What the proofs say of one launch.
Tends(h, d, w, i) == Waits(h, d, w, i) /\ Tasked(h, d, w, i) /\ Retires(h, d, w, i)

\* A step that concerns launch i alone keeps the lanes,
LEMMA TouchLanes ==
  ASSUME NEW h, NEW g, NEW i \in Ids, Lanes(h), Touch(h, g, i), Laned(g, i)
  PROVE  Lanes(g)
<1>1. HeldLanes(g) = HeldLanes(h)
  BY DEF Touch, HeldLanes
<1>2. ASSUME NEW j \in Ids \ {i} PROVE Laned(g, j)
  BY DEF Touch, Lanes, Laned, Holds
<1> QED
  BY <1>1, <1>2 DEF Lanes, Touch

\* and what is said of the others,
LEMMA TouchTended ==
  ASSUME NEW h, NEW g, NEW i \in Ids, NEW d, NEW e, NEW w, NEW x,
         Tended(h, d, w), Touch(h, g, i),
         \A j \in Ids \ {i} : e.rec[j] = d.rec[j] /\ Op(x, j) = Op(w, j),
         Tends(g, e, x, i)
  PROVE  Tended(g, e, x)
<1>1. ASSUME NEW j \in Ids \ {i} PROVE Tends(g, e, x, j)
  <2>1. Waits(h, d, w, j) /\ Tasked(h, d, w, j) /\ Retires(h, d, w, j)
    BY DEF Tended
  <2> QED
    BY <2>1 DEF Touch, Tends, Waits, Tasked, Retires, Fenced, NotPreparing
<1> QED
  BY <1>1 DEF Tended, Tends

\* and whose provider's lane each launch holds,
LEMMA TouchPlaced ==
  ASSUME NEW h, NEW g, NEW i, NEW d, Placed(h, d), Touch(h, g, i)
  PROVE  Placed(g, d)
  BY DEF Touch, Placed

\* and leaves the undrawn ones undrawn.
LEMMA TouchUnborn ==
  ASSUME NEW h, NEW g, NEW i, NEW j \in Ids \ {i}, Unborn(h, j), Touch(h, g, i)
  PROVE  Unborn(g, j)
  BY DEF Touch, Unborn, Holds, NotPreparing

\* A step that leaves the ledger and its writer alone.
LEMMA IdleControl ==
  ASSUME Control, IInv', LedgerIdle, phase' = phase,
         Shaped(host'), Lanes(host'),
         status # "closed" => Tended(host', mem, writer) /\ Placed(host', mem),
         status = "writing" => Placed(host', undo),
         Early(phase, host'), \A i \in Ids \ issued : Unborn(host', i),
         Serving => host'.visible = host.visible
  PROVE  Control'
  BY DEF Control, LedgerIdle, ledgerVars, Serving, Current, InState, Op, Tended,
     Placed, Change, Unborn, Waits, Tasked, Retires, Fenced, Of

\* One that touches one launch.
LEMMA IdleTouch ==
  ASSUME Control, IInv', LedgerIdle, phase' = phase,
         NEW i \in Ids, Touch(host, host', i), Laned(host', i),
         status # "closed" => Tends(host', mem, writer, i),
         i \in host'.visible <=> i \in host.visible,
         Serving => host'.visible \subseteq Ids,
         phase = "starting" => host'.ret[i] = "none" \/ host'.recovered[i],
         Unborn(host, i) => Unborn(host', i)
  PROVE  Control'
<1>1. Shaped(host') /\ Lanes(host')
  BY TouchLanes DEF Control, Touch
<1>2. status # "closed" => Tended(host', mem, writer) /\ Placed(host', mem)
  BY TouchTended, TouchPlaced DEF Control
<1>3. status = "writing" => Placed(host', undo)
  BY TouchPlaced DEF Control
<1>4. \A j \in Ids \ issued : Unborn(host', j)
  BY TouchUnborn DEF Control
<1>5. Serving => host'.visible = host.visible
  BY ZenonT(60) DEF Control, InState, Touch
<1>6. Early(phase, host')
  BY DEF Control, Early, Touch
<1> QED
  BY <1>1, <1>2, <1>3, <1>4, <1>5, <1>6, IdleControl

\* The Maps of a ledger that fits are those open() would accept.
LEMMA Coherent == IInv => RecordsCoherent(mem) /\ RecordsCoherent(undo) /\ mem \in Document
  BY DEF IInv, Fit, Sound, TypeOK

\* A mutation takes its turn: for everyone else nothing happens.
LEMMA TurnStep ==
  ASSUME Control, IInv', NEW i \in Ids, NEW op, status = "open", status' = "writing",
         undo' = mem, phase' = phase, writer' = [op |-> op, id |-> i],
         op = "interrupt" => phase = "starting",
         issued \subseteq issued', \A j \in Ids \ {i} : mem'.rec[j] = mem.rec[j],
         Change(mem, mem', writer', i),
         mem.rec[i].state # "absent" \/ mem'.rec[i].state = "absent" \/ Unborn(host, i),
         Touch(host, host', i), host'.visible = host.visible, Laned(host', i),
         host'.ret = host.ret, host'.recovered = host.recovered,
         Tends(host', mem', writer', i),
         Unborn(host, i) => Unborn(host', i)
  PROVE  Control'
<1>1. writer = Nobody /\ phase \notin {"down", "closed"}
  BY DEF Control
<1>2. \A j \in Ids \ {i} : Op(writer', j) = Op(writer, j) /\ Op(writer', j) = "nobody"
  BY <1>1 DEF Op, Nobody
<1>3. Shaped(host') /\ Lanes(host')
  BY TouchLanes DEF Control, Touch
<1>4. Tended(host', mem', writer')
  BY <1>2, TouchTended DEF Control
<1>5. Placed(host', mem)
  BY TouchPlaced DEF Control
<1>6. Placed(host', mem')
  <2> SUFFICES ASSUME NEW j \in Ids, NEW p \in Providers,
                      host'.lane[p] = j \/ host'.preparing[p] = j,
                      mem'.rec[j].state # "absent"
               PROVE  Of(mem', j) = p
    BY DEF Placed
  <2>1. CASE j # i
    BY <1>5, <2>1 DEF Placed, Of
  <2>2. CASE j = i
    <3>1. ~Unborn(host, i)
      BY <2>2, <1>3 DEF Touch, Unborn, Holds, NotPreparing
    <3>2. /\ mem'.rec[i].request = mem.rec[i].request
          /\ mem.rec[i].state # "absent"
      BY <2>2, <3>1 DEF Change
    <3> QED
      BY <1>5, <2>2, <3>2 DEF Placed, Of
  <2> QED
    BY <2>1, <2>2
<1>7. \A j \in Ids \ issued' : Unborn(host', j)
  BY TouchUnborn DEF Control
<1>8. \A j \in Ids : Change(mem, mem', writer', j)
  <2> SUFFICES ASSUME NEW j \in Ids \ {i} PROVE Change(mem, mem', writer', j)
    OBVIOUS
  <2> QED
    BY <1>2 DEF Change
<1>9. Serving' => host'.visible = InState(mem, {"owned"})
  BY DEF Control, Current, Serving
<1>10. writer' # Nobody /\ writer'.id \in Ids /\ writer'.op = op
  BY CoordinatorAssumption DEF Nobody
<1>11. Early(phase, host')
  BY DEF Control, Early
<1> QED
  BY <1>1, <1>3, <1>4, <1>5, <1>6, <1>7, <1>8, <1>9, <1>10, <1>11 DEF Control, Current

\* The end of a write, as far as what the proofs carry is concerned.
LEMMA EndKept ==
  ASSUME Control, NEW i \in Ids, NEW op, Ends(op, i), PersistOk \/ PersistFails,
         NEW g, Touch(host, g, i), Laned(g, i), Tends(g, mem', Nobody, i)
  PROVE  /\ Kept(g, mem', Nobody)
         /\ \A j \in Ids \ {i} : mem'.rec[j] = undo.rec[j]
         /\ Serving => \A j \in Ids \ {i} : j \in g.visible <=> mem'.rec[j].state = "owned"
         /\ mem' = mem \/ mem' = undo
<1>1. /\ mem' = mem \/ mem' = undo
      /\ status = "writing" /\ writer.id = i
  BY DEF PersistOk, PersistFails, Ends
<1>2. \A j \in Ids \ {i} :
        /\ Op(Nobody, j) = Op(writer, j) /\ Op(writer, j) = "nobody"
        /\ mem.rec[j] = undo.rec[j]
  <2> SUFFICES ASSUME NEW j \in Ids \ {i}
               PROVE  /\ Op(Nobody, j) = Op(writer, j) /\ Op(writer, j) = "nobody"
                      /\ mem.rec[j] = undo.rec[j]
    OBVIOUS
  <2>1. Op(Nobody, j) = Op(writer, j) /\ Op(writer, j) = "nobody"
    BY <1>1 DEF Op, Nobody
  <2>2. Change(undo, mem, writer, j)
    BY <1>1 DEF Control
  <2> QED
    BY <2>1, <2>2 DEF Change
<1>3. Shaped(g) /\ Lanes(g)
  BY TouchLanes DEF Control, Touch
<1>4. Tended(g, mem', Nobody)
  <2>1. \A j \in Ids \ {i} : mem'.rec[j] = mem.rec[j] /\ Op(Nobody, j) = Op(writer, j)
    BY <1>1, <1>2
  <2>2. Tended(host, mem, writer)
    BY <1>1 DEF Control
  <2> QED
    BY <2>1, <2>2, TouchTended
<1>5. Placed(g, mem')
  BY <1>1, TouchPlaced DEF Control
<1>6. Serving => \A j \in Ids \ {i} : j \in g.visible <=> undo.rec[j].state = "owned"
  BY <1>1 DEF Control, Current, InState, Touch
<1> QED
  BY <1>1, <1>2, <1>3, <1>4, <1>5, <1>6 DEF Kept

\* The end of a write.
LEMMA EndControl ==
  ASSUME Control, IInv', NEW i, NEW op, Ends(op, i), PersistOk \/ PersistFails,
         phase' = phase, Kept(host', mem', Nobody),
         Early(phase, host'), \A j \in Ids \ issued : Unborn(host', j),
         Serving => host'.visible = InState(mem', {"owned"})
  PROVE  Control'
<1>1. /\ status = "writing" /\ status' = "open" /\ writer' = Nobody
      /\ issued' = issued
  BY DEF Ends, PersistOk, PersistFails
<1>2. Nobody.op # "interrupt"
  BY DEF Nobody
<1> QED
  BY <1>1, <1>2 DEF Control, Current, Kept, Serving

\* The end of a write that concerns launch i alone.
LEMMA EndStep ==
  ASSUME Control, IInv', NEW i \in Ids, NEW op, Ends(op, i), PersistOk \/ PersistFails,
         phase' = phase, Touch(host, host', i), Laned(host', i),
         Tends(host', mem', Nobody, i), Serving => host'.visible \subseteq Ids,
         Serving => (i \in host'.visible <=> mem'.rec[i].state = "owned"),
         phase = "starting" => host'.ret[i] = "none" \/ host'.recovered[i],
         Unborn(host, i) => Unborn(host', i)
  PROVE  Control'
<1>1. Kept(host', mem', Nobody)
  BY EndKept
<1>2. \A j \in Ids \ issued : Unborn(host', j)
  BY TouchUnborn DEF Control
<1>3. Serving => host'.visible = InState(mem', {"owned"})
  <2>1. Serving => \A j \in Ids : j \in host'.visible <=> mem'.rec[j].state = "owned"
    BY EndKept
  <2> QED
    BY <2>1 DEF InState
<1>4. Early(phase, host')
  BY DEF Control, Early, Touch
<1> QED
  BY <1>1, <1>2, <1>3, <1>4, EndControl

-----------------------------------------------------------------------------
(* The turns. *)

\* A mutation whose caller only waits for its end.
LEMMA HostTurn ==
  ASSUME Control, IInv', NEW i \in Ids, NEW op, NEW next, Mutate(next), Turn(op, i),
         UNCHANGED <<host, issued>>,
         op = "interrupt" => phase = "starting",
         \A j \in Ids \ {i} : next.rec[j] = mem.rec[j],
         Change(mem, next, [op |-> op, id |-> i], i),
         mem.rec[i].state # "absent" \/ next.rec[i].state = "absent",
         Tends(host, mem, Nobody, i) => Tends(host, next, [op |-> op, id |-> i], i)
  PROVE  Control'
<1>1. /\ status = "open" /\ status' = "writing" /\ undo' = mem /\ mem' = next
      /\ phase' = phase /\ writer' = [op |-> op, id |-> i]
  BY DEF Mutate, Turn
<1>2. /\ Touch(host, host', i) /\ Laned(host', i)
      /\ host'.visible = host.visible /\ host'.ret = host.ret
      /\ host'.recovered = host.recovered
      /\ Unborn(host, i) => Unborn(host', i)
  BY DEF Control, Touch, Lanes
<1>3. Tends(host', mem', writer', i)
  <2>1. Tends(host, mem, Nobody, i)
    BY <1>1 DEF Control, Tended, Tends
  <2> QED
    BY <1>1, <2>1
<1> QED
  BY <1>1, <1>2, <1>3, TurnStep

\* The mutations of #run and of start().
LEMMA CreationTurns ==
  ASSUME Control, IInv', NEW i \in Ids, MarkTurn(i) \/ SettleTurn(i) \/ Interrupt(i)
  PROVE  Control'
<1>1. /\ mem \in Document /\ Laned(host, i)
      /\ phase = "starting" => host.ret[i] = "none" \/ host.recovered[i]
  BY Coherent DEF Control, Lanes, Early
<1>2. PICK op, from, to :
        /\ \/ op = "mark" /\ from = {"requested"} /\ to = "creating" /\ host.task[i] = "mark"
           \/ /\ op = "settle" /\ from = {"creating", "uncertain"} /\ to = host.task[i]
              /\ host.task[i] \in Answers
           \/ /\ op = "interrupt" /\ from = {"creating"} /\ to = "uncertain"
              /\ phase = "starting" /\ host.task[i] = "none"
        /\ mem.rec[i].state \in from /\ UNCHANGED <<host, issued>>
        /\ Mutate(Transitioned(mem, i, from, to)) /\ Turn(op, i)
  BY DEF MarkTurn, SettleTurn, Interrupt, Transition
<1> DEFINE next == Transitioned(mem, i, from, to)  w == [op |-> op, id |-> i]
<1>3. /\ \A j \in Ids \ {i} : next.rec[j] = mem.rec[j]
      /\ next.rec[i].state = to /\ next.rec[i].request = mem.rec[i].request
      /\ mem.rec[i].state # "absent"
  BY <1>1, <1>2 DEF Transitioned, Document, Entry
<1>4. Op(w, i) = op /\ Op(Nobody, i) = "nobody"
  BY DEF Op, Nobody
<1> HIDE DEF next, w
<1>5. Change(mem, next, w, i)
  BY <1>2, <1>3, <1>4 DEF Change, Answers
<1>6. ASSUME Tends(host, mem, Nobody, i) PROVE Tends(host, next, w, i)
  <2>1. Waits(host, mem, Nobody, i) /\ Tasked(host, mem, Nobody, i) /\ Retires(host, mem, Nobody, i)
    BY <1>6 DEF Tends
  <2>2. host.ret[i] = "none"
    BY <1>1, <1>2, <1>4, <2>1 DEF Tasked, Waits, Laned, Retires, Answers
  <2>3. i \notin Elems(host.queue) /\ i \notin Elems(host.retq)
    BY <1>2, <1>4, <2>1, <2>2 DEF Waits, Answers
  <2>4. host.late[i] # "rolling" /\ host.call[i] # "retire"
    BY <1>1, <1>2, <1>4, <2>1, <2>2 DEF Retires, Laned
  <2>5. Waits(host, next, w, i)
    BY <2>2, <2>3 DEF Waits
  <2>6. Tasked(host, next, w, i)
    BY <1>2, <1>3, <1>4, <2>2 DEF Tasked, Answers
  <2>7. Retires(host, next, w, i)
    BY <1>2, <1>4, <2>2, <2>4 DEF Retires
  <2> QED
    BY <2>5, <2>6, <2>7 DEF Tends
<1> QED
  BY <1>2, <1>3, <1>5, <1>6, HostTurn DEF next, w

\* The mutations of #runRetirement, #finishRetirement and the rollback.
LEMMA RetirementTurns ==
  ASSUME Control, IInv', NEW i \in Ids,
         BeginTurn(i) \/ CancelTurn(i) \/ CompleteTurn(i) \/ RollbackTurn(i)
  PROVE  Control'
<1>1. /\ mem \in Document /\ Laned(host, i) /\ RecordsCoherent(mem)
  BY Coherent DEF Control, Lanes
<1>2. PICK op, next :
        /\ \/ /\ op = "begin" /\ host.ret[i] = "begin" /\ mem.rec[i].state = "owned"
              /\ next = RetirementBegun(mem, i, host.key[i])
           \/ /\ op \in {"cancel", "rollback"} /\ mem.rec[i].state = "retiring"
              /\ next = RetirementCanceled(mem, i)
              /\ op = "cancel" => host.ret[i] = "cancel"
              /\ op = "rollback" => host.late[i] = "rolling"
           \/ /\ op = "complete" /\ host.ret[i] = "complete" /\ mem.rec[i].state = "retiring"
              /\ next = RetirementCompleted(mem, i, TRUE)
        /\ Mutate(next) /\ Turn(op, i) /\ UNCHANGED <<host, issued>>
  BY DEF BeginTurn, CancelTurn, CompleteTurn, RollbackTurn, BeginRetirement,
     CancelRetirement, CompleteRetirement
<1> DEFINE w == [op |-> op, id |-> i]
<1>3. /\ \A j \in Ids \ {i} : next.rec[j] = mem.rec[j]
      /\ op = "begin" => next.rec[i].state = "retiring"
      /\ op \in {"cancel", "rollback"} => next.rec[i].state = "owned"
      /\ op = "complete" => next.rec[i].state = "absent"
      /\ op # "complete" => next.rec[i].request = mem.rec[i].request
  <2>1. CASE op = "begin"
    <3>1. host.key[i] \in Keys
      BY <1>2, <2>1 DEF Control, Shaped, Keyed
    <3>2. /\ mem.rec \in [Ids -> Entry] /\ mem.rec[i] \in Entry
          /\ next.rec = [mem.rec EXCEPT ![i] =
                          [mem.rec[i] EXCEPT !.state = "retiring", !.retireKey = host.key[i]]]
      <4>1. mem \in Document /\ next = RetirementBegun(mem, i, host.key[i])
        BY <1>1, <1>2, <2>1
      <4>2. RetirementBegun(mem, i, host.key[i]).rec =
              [mem.rec EXCEPT ![i] =
                 [mem.rec[i] EXCEPT !.state = "retiring", !.retireKey = host.key[i]]]
        BY ZenonT(60), <3>1, <4>1, BegunShape
      <4> QED
        BY <4>1, <4>2, EntryShape
    <3> QED
      BY <2>1, <3>2 DEF Entry
  <2>2. CASE op \in {"cancel", "rollback"}
    <3>1. /\ mem.rec \in [Ids -> Entry] /\ mem.rec[i] \in Entry
          /\ next.rec = [mem.rec EXCEPT ![i] =
                          [mem.rec[i] EXCEPT !.state = "owned", !.retireKey = NoKey]]
      <4>1. mem \in Document /\ next = RetirementCanceled(mem, i)
        BY <1>1, <1>2, <2>2
      <4> QED
        BY <4>1, CanceledShape, EntryShape
    <3> QED
      BY <2>2, <3>1 DEF Entry
  <2>3. CASE op = "complete"
    BY <1>1, <1>2, <2>3 DEF RetirementCompleted, Document, Entry, Absent
  <2> QED
    BY <1>2, <2>1, <2>2, <2>3
<1>4. Op(w, i) = op /\ Op(Nobody, i) = "nobody"
  BY DEF Op, Nobody
<1> HIDE DEF w
<1>5. Change(mem, next, w, i)
  BY <1>2, <1>3, <1>4 DEF Change
<1>6. ASSUME Tends(host, mem, Nobody, i) PROVE Tends(host, next, w, i)
  <2>1. Waits(host, mem, Nobody, i) /\ Tasked(host, mem, Nobody, i) /\ Retires(host, mem, Nobody, i)
    BY <1>6 DEF Tends
  <2>2. /\ host.ret[i] \in {"none", "over", "begin", "cancel", "complete"}
        /\ host.ret[i] = "begin" => op = "begin"
        /\ host.ret[i] = "cancel" => op = "cancel"
        /\ host.ret[i] = "complete" => op = "complete"
    BY <1>2, <2>1 DEF Retires
  <2>3. host.task[i] \notin {"mark", "call"} \cup Answers
    BY <1>1, <1>2, <1>4, <2>1 DEF Tasked, Laned, Answers
  <2>4. i \notin Elems(host.queue) /\ i \notin Elems(host.retq)
    BY <1>2, <2>1, <2>2 DEF Waits
  <2>5. host.call[i] # "retire" /\ (host.late[i] = "rolling" => op = "rollback")
    BY <1>1, <1>2, <2>1 DEF Retires, Laned, Fenced
  <2>6. Waits(host, next, w, i)
    BY <2>2, <2>4 DEF Waits
  <2>7. Tasked(host, next, w, i)
    BY <1>2, <1>4, <2>3 DEF Tasked, Answers
  <2>8. Retires(host, next, w, i)
    BY <1>2, <1>3, <1>4, <2>1, <2>2, <2>5 DEF Retires
  <2> QED
    BY <2>6, <2>7, <2>8 DEF Tends
<1>7. mem.rec[i].state # "absent" /\ op # "interrupt"
  BY <1>2
<1> QED
  BY <1>2, <1>3, <1>5, <1>6, <1>7, HostTurn DEF w

\* completeRetirementCleanup: the record is gone already.
LEMMA CleanupTurn ==
  ASSUME Control, IInv', NEW i \in Ids, RecordTurn(i)
  PROVE  Control'
<1> DEFINE next == CleanupCompleted(mem, i, compact)  w == [op |-> "record", id |-> i]
<1>1. /\ mem.cleanups[i] # NoKey /\ Mutate(next) /\ Turn("record", i)
      /\ UNCHANGED <<host, issued>>
  BY DEF RecordTurn, CompleteRetirementCleanup
<1>2. mem \in Document /\ OneHomePerLaunch(mem)
  BY DEF Control, IInv, TypeOK, Fit, Sound
<1>3. next.rec = mem.rec
  BY <1>2 DEF CleanupCompleted, Document
<1>4. mem.rec[i].state = "absent"
  BY <1>1, <1>2 DEF OneHomePerLaunch, Owing
<1>5. Op(w, i) = "record" /\ Op(Nobody, i) = "nobody"
  BY DEF Op, Nobody
<1> HIDE DEF next, w
<1>6. Change(mem, next, w, i)
  BY <1>3, <1>4, <1>5 DEF Change
<1>7. ASSUME Tends(host, mem, Nobody, i) PROVE Tends(host, next, w, i)
  <2>1. Waits(host, mem, Nobody, i) /\ Tasked(host, mem, Nobody, i) /\ Retires(host, mem, Nobody, i)
    BY <1>7 DEF Tends
  <2>2. Waits(host, next, w, i)
    BY <1>3, <1>4, <2>1 DEF Waits
  <2>3. Tasked(host, next, w, i)
    BY <1>3, <1>4, <1>5, <2>1 DEF Tasked, Answers
  <2>4. Retires(host, next, w, i)
    BY <1>3, <1>4, <1>5, <2>1 DEF Retires, Fenced
  <2> QED
    BY <2>2, <2>3, <2>4 DEF Tends
<1> QED
  BY <1>1, <1>3, <1>4, <1>6, <1>7, HostTurn DEF next, w

\* reserve: the record is made for a launch nobody knows.
LEMMA AdmissionTurn ==
  ASSUME Control, IInv', Keyed(host'), NEW k \in SubmitKeys, SubmitTurn(k)
  PROVE  Control'
<1>1. PICK i \in Ids \ issued :
        /\ Mutate(Reserved(mem, i, k, host.waiting[k])) /\ issued' = issued \cup {i}
  BY DEF SubmitTurn, Reserve
<1> DEFINE next == Reserved(mem, i, k, host.waiting[k])  w == [op |-> "submit", id |-> i]
<1>2. /\ Turn("submit", i) /\ host' = [host EXCEPT !.waiting[k] = NoRequest]
  <2>1. issued' \ issued = {i}
    BY <1>1
  <2> QED
    BY <2>1 DEF SubmitTurn
<1>3. /\ mem \in Document /\ Laned(host, i) /\ Unborn(host, i) /\ Shaped(host)
      /\ mem.rec[i].state = "absent"
  BY Coherent DEF Control, Lanes, IInv, Fit, Mentioned, Recorded
<1>4. /\ Touch(host, host', i) /\ host'.visible = host.visible
      /\ host'.ret = host.ret /\ host'.recovered = host.recovered
      /\ host'.task = host.task /\ host'.call = host.call /\ host'.late = host.late
      /\ host'.lane = host.lane /\ host'.preparing = host.preparing
      /\ host'.queue = host.queue /\ host'.retq = host.retq
  BY <1>2, <1>3 DEF Touch, Shaped, Keyed, Fields
<1>5. Laned(host', i) /\ Unborn(host', i)
  BY <1>3, <1>4 DEF Laned, Unborn, Holds, NotPreparing
<1>6. /\ \A j \in Ids \ {i} : next.rec[j] = mem.rec[j]
      /\ next.rec[i].state = "requested"
  BY <1>3 DEF Reserved, Document
<1>7. Op(w, i) = "submit" /\ Op(Nobody, i) = "nobody"
  BY DEF Op, Nobody
<1>8. /\ status = "open" /\ status' = "writing" /\ undo' = mem /\ mem' = next
      /\ phase' = phase /\ writer' = w
  BY <1>1, <1>2 DEF Mutate, Turn
<1> HIDE DEF next, w
<1>9. Change(mem, mem', writer', i)
  BY <1>3, <1>6, <1>7, <1>8 DEF Change
<1>10. Tends(host', mem', writer', i)
  <2>1. Waits(host, mem, Nobody, i) /\ Tasked(host, mem, Nobody, i) /\ Retires(host, mem, Nobody, i)
    BY <1>8 DEF Control, Tended
  <2>2. i \notin Elems(host.queue) /\ i \notin Elems(host.retq)
    BY <1>3, <2>1 DEF Waits, Unborn
  <2>3. Waits(host', mem', writer', i)
    BY <1>4, <1>5, <2>2 DEF Waits, Unborn
  <2>4. Tasked(host', mem', writer', i)
    BY <1>5, <1>7, <1>8 DEF Tasked, Unborn, Answers
  <2>5. Retires(host', mem', writer', i)
    BY <1>5, <1>7, <1>8 DEF Retires, Unborn
  <2> QED
    BY <2>3, <2>4, <2>5 DEF Tends
<1>11. issued \subseteq issued' /\ "submit" # "interrupt"
  BY <1>1
<1> QED
  BY <1>3, <1>4, <1>5, <1>6, <1>8, <1>9, <1>10, <1>11, TurnStep DEF w

-----------------------------------------------------------------------------
(* The ends of the writes. *)

\* What is known when a write ends.
EndsFor(op, i) ==
  /\ status = "writing" /\ Op(writer, i) = op /\ Op(Nobody, i) = "nobody"
  /\ Waits(host, mem, writer, i) /\ Tasked(host, mem, writer, i)
  /\ Retires(host, mem, writer, i) /\ Change(undo, mem, writer, i)
  /\ Laned(host, i) /\ Shaped(host)
  /\ Serving => (i \in host.visible <=> undo.rec[i].state = "owned")
  /\ Serving => host.visible \subseteq Ids
  /\ phase = "starting" => host.ret[i] = "none" \/ host.recovered[i]
  /\ i \in issued \/ Unborn(host, i)

\* Control says all of this when a write ends.
LEMMA EndFacts ==
  ASSUME Control, NEW i \in Ids, NEW op, Ends(op, i), PersistOk \/ PersistFails
  PROVE  EndsFor(op, i)
<1>1. status = "writing" /\ writer = [op |-> op, id |-> i] /\ writer # Nobody
  BY CoordinatorAssumption DEF Ends, PersistOk, PersistFails, Nobody
<1>2. Op(writer, i) = op /\ Op(Nobody, i) = "nobody"
  BY <1>1 DEF Op, Nobody
<1>3. Waits(host, mem, writer, i) /\ Tasked(host, mem, writer, i) /\ Retires(host, mem, writer, i)
  BY <1>1 DEF Control, Tended
<1>4. Change(undo, mem, writer, i) /\ Laned(host, i) /\ Shaped(host)
  BY <1>1 DEF Control, Lanes
<1>5. /\ Serving => (i \in host.visible <=> undo.rec[i].state = "owned")
      /\ Serving => host.visible \subseteq Ids
  BY <1>1 DEF Control, Current, InState
<1>6. /\ phase = "starting" => host.ret[i] = "none" \/ host.recovered[i]
      /\ i \in issued \/ Unborn(host, i)
  BY DEF Control, Early
<1> QED
  BY <1>1, <1>2, <1>3, <1>4, <1>5, <1>6 DEF EndsFor

\* The end of the writes of #run.
LEMMA CreationEnds ==
  ASSUME Control, IInv', NEW i \in Ids,
         Marked(i) \/ MarkFails(i) \/ SettleWritten(i) \/ SettleFails(i)
  PROVE  Control'
<1>1. CASE Marked(i)
  <2>1. Ends("mark", i) /\ PersistOk /\ phase' = phase
    BY <1>1 DEF Marked, Written
  <2>2. EndsFor("mark", i)
    BY <2>1, EndFacts
  <2>3. /\ Touch(host, host', i)
        /\ host'.task[i] = "call" /\ host'.call[i] = "launch"
        /\ host'.visible = host.visible /\ host'.ret = host.ret
        /\ host'.recovered = host.recovered /\ host'.late = host.late
        /\ host'.queue = host.queue /\ host'.retq = host.retq
        /\ host'.lane = host.lane
    BY <1>1, <2>2 DEF Marked, EndsFor, Touch, Shaped, Keyed, Fields
  <2>4. /\ host.task[i] = "mark" /\ host.ret[i] = "none" /\ Holds(host, i)
        /\ undo.rec[i].state = "requested" /\ mem.rec[i].state = "creating"
        /\ mem' = mem
    BY <2>1, <2>2 DEF EndsFor, Tasked, Laned, Change, PersistOk
  <2>5. Laned(host', i)
    BY <2>3, <2>4 DEF Laned, Holds
  <2>6. Waits(host', mem', Nobody, i)
    BY <2>2, <2>3, <2>4 DEF Waits, EndsFor
  <2>7. Tasked(host', mem', Nobody, i)
    BY <2>2, <2>3, <2>4 DEF Tasked, EndsFor, Answers
  <2>8. Retires(host', mem', Nobody, i)
    BY <2>2, <2>3, <2>4 DEF Retires, EndsFor
  <2> QED
    BY <2>1, <2>2, <2>3, <2>4, <2>5, <2>6, <2>7, <2>8, EndStep DEF EndsFor, Tends, Unborn
<1>2. CASE MarkFails(i) \/ SettleWritten(i) \/ SettleFails(i)
  <2>1. PICK op \in {"mark", "settle"} :
          /\ Ends(op, i) /\ phase' = phase
          /\ \/ PersistFails /\ host' = [host EXCEPT !.task[i] = "lane"]
             \/ /\ PersistOk /\ op = "settle"
                /\ host' = [host EXCEPT !.task[i] = "lane",
                                        !.visible = IF mem.rec[i].state = "owned"
                                                    THEN @ \cup {i} ELSE @]
    BY <1>2 DEF MarkFails, SettleWritten, SettleFails, Written, Fails
  <2>2. EndsFor(op, i)
    BY <2>1, EndFacts
  <2>3. /\ Touch(host, host', i)
        /\ host'.task[i] = "lane" /\ host'.call[i] = host.call[i]
        /\ host'.ret = host.ret /\ host'.recovered = host.recovered
        /\ host'.late = host.late /\ host'.lane = host.lane
        /\ host'.queue = host.queue /\ host'.retq = host.retq
        /\ \/ PersistFails /\ host'.visible = host.visible
           \/ /\ PersistOk /\ op = "settle"
              /\ host'.visible = IF mem.rec[i].state = "owned"
                                 THEN host.visible \cup {i} ELSE host.visible
    <3>1. CASE PersistFails /\ host' = [host EXCEPT !.task[i] = "lane"]
      BY <2>2, <3>1 DEF EndsFor, Touch, Shaped, Keyed, Fields
    <3>2. CASE /\ PersistOk /\ op = "settle"
               /\ host' = [host EXCEPT !.task[i] = "lane",
                                       !.visible = IF mem.rec[i].state = "owned"
                                                   THEN @ \cup {i} ELSE @]
      <4> DEFINE v == IF mem.rec[i].state = "owned" THEN host.visible \cup {i} ELSE host.visible
      <4>1. \A j \in Ids \ {i} : j \in v <=> j \in host.visible
        OBVIOUS
      <4>2. host' = [host EXCEPT !.task[i] = "lane", !.visible = v]
        BY <3>2
      <4> HIDE DEF v
      <4>3. /\ Touch(host, host', i)
            /\ host'.task[i] = "lane" /\ host'.call[i] = host.call[i]
            /\ host'.ret = host.ret /\ host'.recovered = host.recovered
            /\ host'.late = host.late /\ host'.lane = host.lane
            /\ host'.queue = host.queue /\ host'.retq = host.retq
            /\ host'.visible = v
        BY <2>2, <4>1, <4>2 DEF EndsFor, Touch, Shaped, Keyed, Fields
      <4> QED
        BY <3>2, <4>3 DEF v
    <3> QED
      BY <2>1, <3>1, <3>2
  <2>4. /\ host.task[i] \in {"mark"} \cup Answers /\ host.ret[i] \in {"none", "queued"}
        /\ Holds(host, i) /\ (op = "mark" => host.task[i] = "mark")
    BY <2>2 DEF EndsFor, Tasked, Laned, Answers
  <2>5. Laned(host', i)
    BY <2>2, <2>3, <2>4 DEF Laned, Holds, EndsFor
  <2>6. /\ mem'.rec[i].state \in {"creating", "uncertain", "owned", "failed", "requested"}
        /\ host.ret[i] = "queued" => mem'.rec[i].state \in {"creating", "uncertain", "owned", "retiring"}
    BY <2>1, <2>2, <2>4 DEF EndsFor, Waits, Tasked, Change, PersistOk, PersistFails, Answers
  <2>7. Waits(host', mem', Nobody, i)
    BY <2>1, <2>2, <2>3, <2>4, <2>6 DEF Waits, EndsFor
  <2>8. Tasked(host', mem', Nobody, i)
    BY <2>1, <2>2, <2>3, <2>4 DEF Tasked, EndsFor, Answers
  <2>9. Retires(host', mem', Nobody, i)
    BY <2>1, <2>2, <2>3, <2>4 DEF Retires, EndsFor, Fenced
  <2>10. Serving => (i \in host'.visible <=> mem'.rec[i].state = "owned")
    <3>1. CASE PersistFails /\ host'.visible = host.visible
      BY <2>2, <3>1 DEF EndsFor, PersistFails
    <3>2. CASE /\ PersistOk /\ op = "settle"
               /\ host'.visible = IF mem.rec[i].state = "owned"
                                  THEN host.visible \cup {i} ELSE host.visible
      <4>1. undo.rec[i].state # "owned" /\ mem' = mem
        BY <2>2, <3>2 DEF EndsFor, Change, PersistOk
      <4> QED
        BY <2>2, <3>2, <4>1 DEF EndsFor
    <3> QED
      BY <2>3, <3>1, <3>2
  <2> QED
    BY <2>1, <2>2, <2>3, <2>4, <2>5, <2>7, <2>8, <2>9, <2>10, EndStep
    DEF EndsFor, Tends, Unborn, Answers
<1> QED
  BY <1>1, <1>2

\* What goes on when the ledger did not begin the retirement.
LEMMA AfterBegin ==
  ASSUME NEW h, NEW i \in Ids, Shaped(h)
  PROVE  LET g == AfterBeginFails(h, i)
         IN  /\ Touch(h, g, i)
             /\ g.task = h.task /\ g.recovered = h.recovered /\ g.late = h.late
             /\ g.visible = h.visible /\ g.lane = h.lane /\ g.preparing = h.preparing
             /\ g.queue = h.queue /\ g.retq = h.retq
             /\ \/ g.ret[i] = "release" /\ g.call[i] = "release"
                \/ g.ret[i] = "over" /\ g.call[i] = h.call[i]
<1> DEFINE g == AfterBeginFails(h, i)
<1>1. Keyed(g)
  BY AfterBeginKeyed DEF Shaped
<1>2. CASE h.seen[i] \in {"prepared", "uncertain"}
  BY ZenonT(60), <1>1, <1>2 DEF AfterBeginFails, Touch, Shaped, Keyed, Fields
<1>3. CASE h.seen[i] \notin {"prepared", "uncertain"}
  BY <1>1, <1>3 DEF AfterBeginFails, Touch, Shaped, Keyed, Fields
<1> QED
  BY <1>2, <1>3

\* A retirement moves on, its late answer is disarmed or armed, and the launch
\* shown or hidden.
Moved(h, g, i, pc, l, v) ==
  /\ Touch(h, g, i)
  /\ g.task = h.task /\ g.call = h.call /\ g.recovered = h.recovered
  /\ g.lane = h.lane /\ g.queue = h.queue /\ g.retq = h.retq
  /\ g.preparing = h.preparing /\ g.seen = h.seen
  /\ g.ret[i] = pc /\ g.late[i] = l /\ g.visible = v
  /\ Keyed(g)

\* The record updates of the retirements move launch i alone.
LEMMA Moving ==
  ASSUME NEW h, NEW i \in Ids, Shaped(h),
         NEW pc \in RetirePc \ {"queued", "prepare", "begin"}, NEW l, NEW v,
         \A j \in Ids \ {i} : j \in v <=> j \in h.visible
  PROVE  /\ Moved(h, [h EXCEPT !.ret[i] = pc, !.late[i] = l, !.visible = v], i, pc, l, v)
         /\ Moved(h, [h EXCEPT !.ret[i] = pc, !.visible = v], i, pc, h.late[i], v)
         /\ Moved(h, [h EXCEPT !.ret[i] = pc], i, pc, h.late[i], h.visible)
         /\ Moved(h, [h EXCEPT !.late[i] = l, !.visible = v], i, h.ret[i], l, v)
         /\ Moved(h, [h EXCEPT !.late[i] = l], i, h.ret[i], l, h.visible)
         /\ Moved(h, [h EXCEPT !.ret[i] = pc, !.late[i] = l], i, pc, l, h.visible)
<1>1. Moved(h, [h EXCEPT !.ret[i] = pc, !.late[i] = l, !.visible = v], i, pc, l, v)
  BY DEF Moved, Touch, Shaped, Keyed, Fields, RetirePc
<1>2. Moved(h, [h EXCEPT !.ret[i] = pc, !.visible = v], i, pc, h.late[i], v)
  BY DEF Moved, Touch, Shaped, Keyed, Fields, RetirePc
<1>3. Moved(h, [h EXCEPT !.ret[i] = pc], i, pc, h.late[i], h.visible)
  BY DEF Moved, Touch, Shaped, Keyed, Fields, RetirePc
<1>4. Moved(h, [h EXCEPT !.late[i] = l, !.visible = v], i, h.ret[i], l, v)
  BY DEF Moved, Touch, Shaped, Keyed, Fields, RetirePc
<1>5. Moved(h, [h EXCEPT !.late[i] = l], i, h.ret[i], l, h.visible)
  BY DEF Moved, Touch, Shaped, Keyed, Fields, RetirePc
<1>6. Moved(h, [h EXCEPT !.ret[i] = pc, !.late[i] = l], i, pc, l, h.visible)
  BY DEF Moved, Touch, Shaped, Keyed, Fields, RetirePc
<1> QED
  BY <1>1, <1>2, <1>3, <1>4, <1>5, <1>6

\* The end of the write of beginRetirement.
LEMMA BeginEnds ==
  ASSUME Control, IInv', NEW i \in Ids, Begun(i) \/ BeginFails(i)
  PROVE  Control'
<1>1. Ends("begin", i) /\ (PersistOk \/ PersistFails) /\ phase' = phase
  BY DEF Begun, BeginFails, Written, Fails
<1>2. EndsFor("begin", i)
  BY <1>1, EndFacts
<1>3. /\ host.ret[i] = "begin" /\ host.task[i] = "none" /\ host.call[i] = "none"
      /\ Holds(host, i) /\ host.late[i] # "rolling"
      /\ i \notin Elems(host.queue) /\ i \notin Elems(host.retq)
      /\ mem.rec[i].state = "retiring" /\ undo.rec[i].state = "owned"
      /\ host.seen[i] # "uncertain" => NotPreparing(host, i)
  BY <1>2 DEF EndsFor, Retires, Laned, Waits, Change
<1>4. CASE Begun(i)
  <2>1. mem' = mem /\ PersistOk
    BY <1>4 DEF Begun, Written, PersistOk
  <2> DEFINE h == [host EXCEPT !.fence = Unfenced(host, host.key[i], i)]
             v == host.visible \ {i}
  <2>2. /\ Shaped(h)
        /\ h.queue = host.queue /\ h.retq = host.retq /\ h.task = host.task
        /\ h.ret = host.ret /\ h.call = host.call /\ h.recovered = host.recovered
        /\ h.seen = host.seen /\ h.late = host.late /\ h.lane = host.lane
        /\ h.preparing = host.preparing /\ h.visible = host.visible
    BY <1>2 DEF EndsFor, Shaped, Keyed, Fields
  <2>3. \/ /\ host.seen[i] = "uncertain"
           /\ host' = [h EXCEPT !.ret[i] = "over", !.visible = v,
                                !.late[i] = IF h.preparing[Of(mem, i)] = i
                                            THEN "armed" ELSE "none"]
        \/ ~Serving /\ host' = [h EXCEPT !.ret[i] = "over"]
        \/ /\ host' = [h EXCEPT !.ret[i] = "refresh", !.visible = v]
           /\ host.seen[i] # "uncertain"
    <3>1. h.visible \ {i} = v /\ h.seen[i] = host.seen[i]
      BY <2>2
    <3> QED
      BY <1>4, <3>1 DEF Begun
  <2>4. \A j \in Ids \ {i} : j \in v <=> j \in h.visible
    BY <2>2
  <2>5. PICK pc \in {"over", "refresh"}, l \in {"armed", "none", h.late[i]}, u \in {v, h.visible} :
          /\ Moved(h, host', i, pc, l, u)
          /\ pc = "refresh" => host.seen[i] # "uncertain" /\ u = v
          /\ Serving => u = v
    <3>1. {"over", "refresh"} \subseteq RetirePc \ {"queued", "prepare", "begin"}
      BY DEF RetirePc
    <3>2. h.visible = host.visible /\ Shaped(h)
      BY <2>2
    <3> HIDE DEF h, v
    <3>3. CASE /\ host.seen[i] = "uncertain"
               /\ host' = [h EXCEPT !.ret[i] = "over", !.visible = v,
                                    !.late[i] = IF h.preparing[Of(mem, i)] = i
                                                THEN "armed" ELSE "none"]
      <4> DEFINE l == IF h.preparing[Of(mem, i)] = i THEN "armed" ELSE "none"
      <4>1. host' = [h EXCEPT !.ret[i] = "over", !.late[i] = l, !.visible = v]
        BY <3>2, <3>3 DEF Shaped, Keyed, Fields
      <4>2. l \in {"armed", "none"}
        OBVIOUS
      <4> HIDE DEF l
      <4>3. Moved(h, host', i, "over", l, v)
        BY <2>4, <3>1, <3>2, <4>1, Moving
      <4> QED
        BY <4>2, <4>3
    <3>4. CASE ~Serving /\ host' = [h EXCEPT !.ret[i] = "over"]
      <4>1. Moved(h, host', i, "over", h.late[i], h.visible)
        BY <2>4, <3>1, <3>2, <3>4, Moving
      <4> QED
        BY <3>4, <4>1
    <3>5. CASE /\ host' = [h EXCEPT !.ret[i] = "refresh", !.visible = v]
               /\ host.seen[i] # "uncertain"
      <4>1. Moved(h, host', i, "refresh", h.late[i], v)
        BY <2>4, <3>1, <3>2, <3>5, Moving
      <4> QED
        BY <3>5, <4>1
    <3> QED
      BY <2>3, <3>3, <3>4, <3>5
  <2> HIDE DEF h
  <2>6. /\ Touch(host, host', i)
        /\ host'.task = host.task /\ host'.call = host.call
        /\ host'.recovered = host.recovered /\ host'.lane = host.lane
        /\ host'.queue = host.queue /\ host'.retq = host.retq
        /\ host'.preparing = host.preparing /\ host'.late[i] # "rolling"
        /\ host'.ret[i] \in {"over", "refresh"}
        /\ host'.ret[i] = "refresh" => host.seen[i] # "uncertain" /\ i \notin host'.visible
        /\ Serving => i \notin host'.visible
        /\ host'.visible \subseteq host.visible
    BY <1>3, <2>2, <2>5 DEF Moved, Touch
  <2>7. Laned(host', i)
    BY <1>3, <2>6 DEF Laned, Holds
  <2>8. Waits(host', mem', Nobody, i)
    BY <1>3, <2>6 DEF Waits
  <2>9. Tasked(host', mem', Nobody, i)
    BY <1>2, <1>3, <2>6 DEF Tasked, EndsFor, Answers
  <2>10. Retires(host', mem', Nobody, i)
    BY <1>2, <1>3, <2>1, <2>6 DEF Retires, EndsFor, Fenced, NotPreparing
  <2> QED
    BY <1>1, <1>2, <1>3, <2>1, <2>6, <2>7, <2>8, <2>9, <2>10, EndStep
    DEF EndsFor, Tends, Unborn
<1>5. CASE BeginFails(i)
  <2>1. mem' = undo /\ PersistFails
    BY <1>5 DEF BeginFails, Fails, PersistFails
  <2>2. /\ Touch(host, host', i)
        /\ host'.task = host.task /\ host'.recovered = host.recovered
        /\ host'.late = host.late
        /\ host'.visible = host.visible /\ host'.lane = host.lane
        /\ host'.preparing = host.preparing
        /\ host'.queue = host.queue /\ host'.retq = host.retq
        /\ \/ host'.ret[i] = "release" /\ host'.call[i] = "release"
           \/ host'.ret[i] = "over" /\ host'.call[i] = host.call[i]
    BY <1>2, <1>5, AfterBegin DEF BeginFails, EndsFor
  <2>3. Laned(host', i)
    BY <1>3, <2>2 DEF Laned, Holds
  <2>4. Waits(host', mem', Nobody, i)
    BY <1>3, <2>2 DEF Waits
  <2>5. Tasked(host', mem', Nobody, i)
    BY <1>2, <1>3, <2>2 DEF Tasked, EndsFor, Answers
  <2>6. Retires(host', mem', Nobody, i)
    BY <1>2, <1>3, <2>1, <2>2 DEF Retires, EndsFor
  <2> QED
    BY <1>1, <1>2, <1>3, <2>1, <2>2, <2>3, <2>4, <2>5, <2>6, EndStep
    DEF EndsFor, Tends, Unborn
<1> QED
  BY <1>4, <1>5

\* The end of the writes of cancelRetirement, completeRetirement and of the
\* rollback.
LEMMA FinishEnds ==
  ASSUME Control, IInv', NEW i \in Ids,
         Canceled(i) \/ Completed(i) \/ FinishFails(i) \/ RolledBack(i) \/ RollbackFails(i)
  PROVE  Control'
<1>1. PICK op \in {"cancel", "complete", "rollback"} :
        /\ Ends(op, i) /\ phase' = phase
        /\ \/ /\ PersistOk /\ op = "cancel"
              /\ host' = [host EXCEPT !.ret[i] = "republish", !.visible = @ \cup {i}]
           \/ /\ PersistOk /\ op = "complete"
              /\ host' = [host EXCEPT !.ret[i] = "republish", !.visible = @ \ {i}]
           \/ /\ PersistOk /\ op = "rollback"
              /\ host' = [host EXCEPT !.late[i] = "refresh", !.visible = @ \cup {i}]
           \/ PersistFails /\ op # "rollback" /\ host' = [host EXCEPT !.ret[i] = "over"]
           \/ PersistFails /\ op = "rollback" /\ host' = [host EXCEPT !.late[i] = "none"]
  BY DEF Canceled, Completed, FinishFails, RolledBack, RollbackFails, Written, Fails
<1>2. EndsFor(op, i)
  BY <1>1, EndFacts
<1>3. /\ op # "rollback" => host.ret[i] = op /\ host.late[i] # "rolling"
      /\ op = "rollback" => host.ret[i] \in {"none", "over"}
      /\ i \notin Elems(host.queue) /\ i \notin Elems(host.retq)
      /\ host.call[i] # "retire"
      /\ undo.rec[i].state = "retiring"
      /\ op # "complete" => mem.rec[i].state = "owned"
      /\ op = "complete" => mem.rec[i].state = "absent"
      /\ host.task[i] \notin {"mark", "call"} \cup Answers
  BY <1>1, <1>2 DEF EndsFor, Retires, Laned, Waits, Tasked, Change, Fenced, Answers
<1> DEFINE shown == host.visible \cup {i}  hidden == host.visible \ {i}
<1>4. /\ \A j \in Ids \ {i} : (j \in shown <=> j \in host.visible) /\ (j \in hidden <=> j \in host.visible)
      /\ {"republish", "over"} \subseteq RetirePc \ {"queued", "prepare", "begin"}
      /\ Shaped(host)
  BY <1>2 DEF RetirePc, EndsFor
<1>5. PICK pc \in {"republish", "over", host.ret[i]}, l \in {"refresh", "none", host.late[i]},
           u \in {host.visible, shown, hidden} :
        /\ Moved(host, host', i, pc, l, u)
        /\ op # "rollback" => pc \in {"republish", "over"} /\ l = host.late[i]
        /\ op = "rollback" => pc = host.ret[i] /\ l \in {"refresh", "none"}
        /\ \/ PersistFails /\ u = host.visible
           \/ PersistOk /\ op = "complete" /\ u = hidden
           \/ PersistOk /\ op # "complete" /\ u = shown
  <2>1. CASE /\ PersistOk /\ op = "cancel"
             /\ host' = [host EXCEPT !.ret[i] = "republish", !.visible = shown]
    <3>1. Moved(host, host', i, "republish", host.late[i], shown)
      BY <1>4, <2>1, Moving
    <3> QED
      BY <2>1, <3>1
  <2>2. CASE /\ PersistOk /\ op = "complete"
             /\ host' = [host EXCEPT !.ret[i] = "republish", !.visible = hidden]
    <3>1. Moved(host, host', i, "republish", host.late[i], hidden)
      BY <1>4, <2>2, Moving
    <3> QED
      BY <2>2, <3>1
  <2>3. CASE /\ PersistOk /\ op = "rollback"
             /\ host' = [host EXCEPT !.late[i] = "refresh", !.visible = shown]
    <3>1. Moved(host, host', i, host.ret[i], "refresh", shown)
      BY <1>4, <2>3, Moving
    <3> QED
      BY <2>3, <3>1
  <2>4. CASE PersistFails /\ op # "rollback" /\ host' = [host EXCEPT !.ret[i] = "over"]
    <3>1. Moved(host, host', i, "over", host.late[i], host.visible)
      BY <1>4, <2>4, Moving
    <3> QED
      BY <2>4, <3>1
  <2>5. CASE PersistFails /\ op = "rollback" /\ host' = [host EXCEPT !.late[i] = "none"]
    <3>1. Moved(host, host', i, host.ret[i], "none", host.visible)
      BY <1>4, <2>5, Moving
    <3> QED
      BY <2>5, <3>1
  <2> QED
    BY <1>1, <2>1, <2>2, <2>3, <2>4, <2>5
<1>6. /\ Touch(host, host', i)
      /\ host'.task = host.task /\ host'.call = host.call
      /\ host'.recovered = host.recovered /\ host'.lane = host.lane
      /\ host'.queue = host.queue /\ host'.retq = host.retq
      /\ host'.late[i] # "rolling"
      /\ op # "rollback" => host'.ret[i] \in {"republish", "over"}
      /\ op = "rollback" => host'.ret[i] = host.ret[i]
      /\ host'.visible \subseteq host.visible \cup {i}
  BY <1>3, <1>5 DEF Moved
<1>7. Serving => (i \in host'.visible <=> mem'.rec[i].state = "owned")
  <2>1. CASE PersistFails /\ host'.visible = host.visible
    BY <1>2, <2>1 DEF EndsFor, PersistFails
  <2>2. CASE PersistOk /\ op = "complete" /\ host'.visible = hidden
    BY <1>3, <2>2 DEF PersistOk
  <2>3. CASE PersistOk /\ op # "complete" /\ host'.visible = shown
    BY <1>3, <2>3 DEF PersistOk
  <2> QED
    BY <1>5, <2>1, <2>2, <2>3 DEF Moved
<1> HIDE DEF shown, hidden
<1>8. Laned(host', i)
  BY <1>2, <1>3, <1>6 DEF Laned, Holds, EndsFor
<1>9. Waits(host', mem', Nobody, i)
  BY <1>3, <1>6 DEF Waits
<1>10. Tasked(host', mem', Nobody, i)
  BY <1>2, <1>3, <1>6 DEF Tasked, EndsFor, Answers
<1>11. mem'.rec[i].state \in {"owned", "retiring", "absent"}
  BY <1>1, <1>3 DEF PersistOk, PersistFails
<1>12. Retires(host', mem', Nobody, i)
  BY <1>2, <1>3, <1>6, <1>11 DEF Retires, EndsFor
<1>13. Unborn(host, i) => Unborn(host', i)
  BY <1>3, <1>6 DEF Unborn, Touch, NotPreparing, Holds
<1>14. /\ Serving => host'.visible \subseteq Ids
       /\ phase = "starting" => host'.ret[i] = "none" \/ host'.recovered[i]
  BY <1>2, <1>3, <1>6 DEF EndsFor
<1> QED
  BY <1>1, <1>6, <1>7, <1>8, <1>9, <1>10, <1>12, <1>13, <1>14, EndStep DEF Tends

\* A memory that differs in nothing the proofs follow.
Same(h, g) ==
  /\ Shaped(g)
  /\ g.queue = h.queue /\ g.retq = h.retq /\ g.task = h.task /\ g.ret = h.ret
  /\ g.recovered = h.recovered /\ g.seen = h.seen /\ g.late = h.late
  /\ g.lane = h.lane /\ g.call = h.call /\ g.preparing = h.preparing
  /\ g.visible = h.visible

\* Then everything the proofs say of the memory still holds.
LEMMA SameKept ==
  ASSUME NEW h, NEW g, Same(h, g), NEW d, NEW w, NEW i
  PROVE  /\ Kept(h, d, w) => Kept(g, d, w)
         /\ Laned(h, i) => Laned(g, i)
         /\ Tends(h, d, w, i) => Tends(g, d, w, i)
         /\ Unborn(h, i) => Unborn(g, i)
         /\ Touch(h, g, i)
<1>1. \A j : /\ Laned(h, j) => Laned(g, j)
             /\ Unborn(h, j) => Unborn(g, j)
  BY DEF Same, Laned, Holds, Unborn, NotPreparing
<1>2. \A j : Waits(h, d, w, j) => Waits(g, d, w, j)
  BY DEF Same, Waits
<1>3. \A j : Tasked(h, d, w, j) => Tasked(g, d, w, j)
  BY DEF Same, Tasked
<1>4. \A j : Retires(h, d, w, j) => Retires(g, d, w, j)
  BY DEF Same, Retires, Fenced, NotPreparing
<1>5. Lanes(h) => Lanes(g)
  BY <1>1 DEF Same, Lanes, HeldLanes
<1>6. Placed(h, d) => Placed(g, d)
  BY DEF Same, Placed
<1>7. Touch(h, g, i)
  BY DEF Same, Touch
<1> QED
  BY <1>1, <1>2, <1>3, <1>4, <1>5, <1>6, <1>7 DEF Kept, Tended, Tends, Same

\* The cleanup worker has fields of its own.
LEMMA CleanupSame ==
  ASSUME NEW h, Shaped(h)
  PROVE  /\ Same(h, NextCleanup(h)) /\ Same(h, PumpCleanup(h))
         /\ Same(h, LoopCleanup(h)) /\ Same(h, PausedCleanup(h))
<1>1. /\ Keyed(NextCleanup(h)) /\ Keyed(PumpCleanup(h))
      /\ Keyed(LoopCleanup(h)) /\ Keyed(PausedCleanup(h))
  BY CleanupKeyed DEF Shaped
<1>2. Same(h, NextCleanup(h))
  BY ZenonT(60), <1>1 DEF NextCleanup, Same, Shaped, Keyed, Fields
<1>3. Same(h, h)
  BY DEF Same
<1>4. Same(h, PumpCleanup(h))
  BY <1>2, <1>3 DEF PumpCleanup
<1>5. Same(h, [h EXCEPT !.worker = "idle", !.cleaning = NoId])
  BY DEF Same, Shaped, Keyed, Fields
<1>6. Same(h, PausedCleanup(h))
  BY ZenonT(60), <1>1 DEF PausedCleanup, Same, Shaped, Keyed, Fields
<1>7. Same(h, LoopCleanup(h))
  BY <1>2, <1>5 DEF LoopCleanup
<1> QED
  BY <1>2, <1>4, <1>6, <1>7

\* The end of completeRetirementCleanup, and of a reserve that failed.
LEMMA CleanupEnds ==
  ASSUME Control, IInv', NEW i \in Ids, CleanupRecorded(i) \/ RecordFails(i) \/ SubmitFails(i)
  PROVE  Control'
<1>1. PICK op \in {"record", "submit"} :
        /\ Ends(op, i) /\ phase' = phase /\ (PersistOk \/ PersistFails)
        /\ op = "submit" => PersistFails
        /\ host' \in {host, LoopCleanup(host), PausedCleanup(host)}
  BY DEF CleanupRecorded, RecordFails, SubmitFails, Written, Fails
<1>2. EndsFor(op, i)
  BY <1>1, EndFacts
<1>3. Same(host, host')
  <2>1. Shaped(host) /\ Same(host, host)
    BY <1>2 DEF EndsFor, Same
  <2> QED
    BY <1>1, <2>1, CleanupSame
<1>4. Touch(host, host', i) /\ Laned(host', i) /\ (Unborn(host, i) => Unborn(host', i))
  BY <1>2, <1>3, SameKept DEF EndsFor
<1>5. mem'.rec[i] = undo.rec[i]
  BY <1>1, <1>2 DEF EndsFor, Change, PersistOk, PersistFails
<1>6. Tends(host, mem', Nobody, i)
  <2>1. CASE op = "record"
    <3>1. mem'.rec[i] = mem.rec[i]
      BY <1>2, <1>5, <2>1 DEF EndsFor, Change
    <3>2. Waits(host, mem', Nobody, i)
      BY <1>2, <2>1, <3>1 DEF EndsFor, Waits
    <3>3. Tasked(host, mem', Nobody, i)
      BY <1>2, <2>1, <3>1 DEF EndsFor, Tasked, Answers
    <3>4. Retires(host, mem', Nobody, i)
      BY <1>2, <2>1, <3>1 DEF EndsFor, Retires, Fenced
    <3> QED
      BY <3>2, <3>3, <3>4 DEF Tends
  <2>2. CASE op = "submit"
    <3>1. host.task[i] = "none" /\ host.ret[i] = "none"
      BY <1>2, <2>2 DEF EndsFor, Tasked
    <3>2. Waits(host, mem', Nobody, i)
      BY <1>2, <2>2, <3>1 DEF EndsFor, Waits
    <3>3. Tasked(host, mem', Nobody, i)
      BY <1>2, <2>2, <3>1 DEF EndsFor, Tasked, Answers
    <3>4. Retires(host, mem', Nobody, i)
      BY <1>2, <2>2, <3>1 DEF EndsFor, Retires, Fenced
    <3> QED
      BY <3>2, <3>3, <3>4 DEF Tends
  <2> QED
    BY <2>1, <2>2
<1>7. Tends(host', mem', Nobody, i)
  BY <1>3, <1>6, SameKept
<1>8. /\ Serving => (i \in host'.visible <=> mem'.rec[i].state = "owned")
      /\ Serving => host'.visible \subseteq Ids
      /\ phase = "starting" => host'.ret[i] = "none" \/ host'.recovered[i]
  BY <1>2, <1>3, <1>5 DEF EndsFor, Same
<1> QED
  BY <1>1, <1>4, <1>7, <1>8, EndStep

\* What is appended to the creation queue.
LEMMA QueuedKept ==
  ASSUME NEW h, NEW d, NEW w, NEW i \in Ids, Kept(h, d, w), i \notin Elems(h.queue),
         h.task[i] = "none", h.ret[i] = "none",
         d.rec[i].state \in {"requested", "uncertain"}, Op(w, i) = "nobody"
  PROVE  /\ Kept([h EXCEPT !.queue = Append(@, i)], d, w)
         /\ \A j \in Ids : Unborn(h, j) => Unborn([h EXCEPT !.queue = Append(@, i)], j)
<1> DEFINE g == [h EXCEPT !.queue = Append(@, i)]  q == Append(h.queue, i)
<1>1. Shaped(h) /\ h.queue \in Seq(Ids) /\ Once(h.queue)
  BY DEF Kept, Shaped, Lanes
<1>2. q \in Seq(Ids) /\ Elems(q) = Elems(h.queue) \cup {i} /\ Once(q)
  BY <1>1, Appended
<1>3. /\ g.queue = q /\ g.retq = h.retq /\ g.task = h.task /\ g.ret = h.ret
      /\ g.recovered = h.recovered /\ g.seen = h.seen /\ g.late = h.late
      /\ g.lane = h.lane /\ g.call = h.call /\ g.preparing = h.preparing
      /\ g.visible = h.visible /\ g.waiting = h.waiting /\ g.key = h.key
      /\ g = [f \in Fields |-> g[f]]
  BY <1>1 DEF Shaped, Keyed, Fields
<1> HIDE DEF g, q
<1>4. Shaped(g)
  BY <1>1, <1>2, <1>3 DEF Shaped, Keyed
<1>5. Lanes(g)
  BY <1>2, <1>3 DEF Kept, Lanes, HeldLanes, Laned, Holds
<1>6. Placed(g, d)
  BY <1>3 DEF Kept, Placed
<1>7. ASSUME NEW j \in Ids PROVE Tends(g, d, w, j)
  <2>1. Waits(h, d, w, j) /\ Tasked(h, d, w, j) /\ Retires(h, d, w, j)
    BY DEF Kept, Tended
  <2>2. Waits(g, d, w, j)
    BY <1>2, <1>3, <2>1 DEF Waits
  <2> QED
    BY <1>3, <2>1, <2>2 DEF Tasked, Retires, Fenced, NotPreparing, Tends
<1>8. \A j \in Ids : Unborn(h, j) => Unborn(g, j)
  BY <1>3 DEF Unborn, Holds, NotPreparing
<1> QED
  BY <1>4, <1>5, <1>6, <1>7, <1>8 DEF Kept, Tended, Tends, g

\* The end of reserve and of an interruption: the launch joins the queue.
LEMMA QueueEnds ==
  ASSUME Control, IInv', NEW i \in Ids, Submitted(i) \/ Interrupted(i)
  PROVE  Control'
<1> DEFINE h == [host EXCEPT !.queue = Append(@, i)]
<1>1. PICK op \in {"submit", "interrupt"} :
        /\ Ends(op, i) /\ PersistOk /\ phase' = phase
        /\ op = "submit" => host' = IF Serving THEN Pump(h, mem) ELSE host
        /\ op = "interrupt" => host' = h
  BY DEF Submitted, Interrupted, Written
<1>2. EndsFor(op, i) /\ mem' = mem
  BY <1>1, EndFacts DEF PersistOk
<1>3. /\ host.task[i] = "none" /\ host.ret[i] = "none" /\ i \notin Elems(host.queue)
      /\ mem.rec[i].state \in {"requested", "uncertain"}
      /\ undo.rec[i].state # "owned"
  BY <1>1, <1>2 DEF EndsFor, Tasked, Waits, Change
<1>4. Touch(host, host, i) /\ Laned(host, i) /\ Tends(host, mem', Nobody, i)
  <2>1. Waits(host, mem', Nobody, i)
    BY <1>1, <1>2, <1>3 DEF EndsFor, Waits
  <2>2. Tasked(host, mem', Nobody, i)
    BY <1>1, <1>2, <1>3 DEF EndsFor, Tasked, Answers
  <2>3. Retires(host, mem', Nobody, i)
    BY <1>1, <1>2, <1>3 DEF EndsFor, Retires, Fenced
  <2> QED
    BY <1>2, <2>1, <2>2, <2>3 DEF Tends, EndsFor, Touch
<1>5. /\ Kept(host, mem', Nobody)
      /\ Serving => \A j \in Ids \ {i} : j \in host.visible <=> mem'.rec[j].state = "owned"
  BY <1>1, <1>4, EndKept
<1>6. Kept(h, mem, Nobody) /\ \A j \in Ids : Unborn(host, j) => Unborn(h, j)
  BY <1>2, <1>3, <1>5, QueuedKept DEF EndsFor
<1>7. /\ h.visible = host.visible /\ h.ret = host.ret /\ h.recovered = host.recovered
  BY <1>2 DEF EndsFor, Shaped, Keyed, Fields
<1>8. RecordsCoherent(mem)
  BY Coherent DEF Control
<1> HIDE DEF h
<1>9. /\ Kept(Pump(h, mem), mem, Nobody)
      /\ Pump(h, mem).visible = h.visible
      /\ Pump(h, mem).ret = h.ret /\ Pump(h, mem).recovered = h.recovered
      /\ \A j \in Ids : Unborn(h, j) /\ mem.rec[j].state = "absent" => Unborn(Pump(h, mem), j)
  BY <1>6, <1>8, PumpKept
<1>10. /\ Kept(host', mem', Nobody) /\ host'.visible = host.visible
       /\ host'.ret = host.ret /\ host'.recovered = host.recovered
       /\ \A j \in Ids : Unborn(host, j) /\ mem.rec[j].state = "absent" => Unborn(host', j)
  BY <1>1, <1>2, <1>5, <1>6, <1>7, <1>9
<1>11. \A j \in Ids \ issued : Unborn(host', j)
  <2>1. \A j \in Ids \ issued : mem.rec[j].state = "absent"
    BY DEF Control, IInv, Fit, Mentioned, Recorded
  <2> QED
    BY <1>10, <2>1 DEF Control
<1>12. Early(phase, host')
  BY <1>10 DEF Control, Early
<1>13. Serving => host'.visible = InState(mem', {"owned"})
  BY <1>2, <1>3, <1>5, <1>10 DEF InState, EndsFor
<1> QED
  BY <1>1, <1>10, <1>11, <1>12, <1>13, EndControl

-----------------------------------------------------------------------------
(* Answers and deadlines. *)

\* What is known of launch i when the ledger is left alone.
IdleFor(i) ==
  /\ Shaped(host) /\ Laned(host, i)
  /\ status # "closed" => /\ Waits(host, mem, writer, i)
                          /\ Tasked(host, mem, writer, i)
                          /\ Retires(host, mem, writer, i)
  /\ Serving => host.visible \subseteq Ids
  /\ phase = "starting" => host.ret[i] = "none" \/ host.recovered[i]
  /\ (status # "writing") <=> (writer = Nobody)

\* Control says all of this while the ledger is left alone.
LEMMA IdleFacts ==
  ASSUME Control, NEW i \in Ids
  PROVE  IdleFor(i)
  BY DEF Control, IdleFor, Tended, Lanes, Early, InState

\* A step that changes nothing the proofs follow.
LEMMA IdleSame ==
  ASSUME Control, IInv', LedgerIdle, phase' = phase, Same(host, host')
  PROVE  Control'
<1>1. /\ Shaped(host') /\ host'.visible = host.visible
      /\ host'.ret = host.ret /\ host'.recovered = host.recovered
  BY DEF Same
<1>2. Lanes(host')
  BY DEF Control, Same, Lanes, HeldLanes, Laned, Holds
<1>3. status # "closed" => Tended(host', mem, writer) /\ Placed(host', mem)
  <2>1. Placed(host, mem) => Placed(host', mem)
    BY DEF Same, Placed
  <2>2. Tended(host, mem, writer) => Tended(host', mem, writer)
    BY SameKept DEF Tended, Tends
  <2> QED
    BY <2>1, <2>2 DEF Control
<1>4. status = "writing" => Placed(host', undo)
  BY DEF Control, Same, Placed
<1>5. \A i \in Ids \ issued : Unborn(host', i)
  BY SameKept DEF Control
<1>6. Early(phase, host')
  BY <1>1 DEF Control, Early
<1> QED
  BY <1>1, <1>2, <1>3, <1>4, <1>5, <1>6, IdleControl

\* Submissions that only wait, and the provider's part of a cleanup.
LEMMA SameSteps ==
  ASSUME Control, IInv', Keyed(host'),
         \/ \E k \in SubmitKeys, r \in Requests : Submit(k, r)
         \/ \E k \in SubmitKeys : SubmitRefused(k)
         \/ \E i \in Ids : Finalized(i)
  PROVE  Control'
<1>1. Shaped(host)
  BY DEF Control
<1>2. CASE \E k \in SubmitKeys, r \in Requests : Submit(k, r)
  <2>1. Same(host, host')
    BY <1>1, <1>2 DEF Submit, Same, Shaped, Keyed, Fields
  <2> QED
    BY <1>2, <2>1, IdleSame DEF Submit, InMemory
<1>3. CASE \E k \in SubmitKeys : SubmitRefused(k)
  <2>1. Same(host, host')
    BY <1>1, <1>3 DEF SubmitRefused, Same, Shaped, Keyed, Fields
  <2> QED
    BY <1>3, <2>1, IdleSame DEF SubmitRefused, InMemory
<1>4. CASE \E i \in Ids : Finalized(i)
  <2>1. host' \in {[host EXCEPT !.worker = "record"], LoopCleanup(host), PausedCleanup(host)}
    BY <1>4 DEF Finalized
  <2>2. Same(host, [host EXCEPT !.worker = "record"])
    BY <1>1 DEF Same, Shaped, Keyed, Fields
  <2>3. Same(host, host')
    BY <1>1, <2>1, <2>2, CleanupSame
  <2> QED
    BY <1>4, <2>3, IdleSame DEF Finalized
<1> QED
  BY <1>2, <1>3, <1>4

\* The deadline of a creation, and the answers to one.
LEMMA TaskSteps ==
  ASSUME Control, IInv', NEW i \in Ids,
         Deadline(i) \/ LaunchSettles(i) \/ ReconcileSettles(i)
  PROVE  Control'
<1>1. IdleFor(i) /\ LedgerIdle /\ phase' = phase
  BY IdleFacts DEF Deadline, LaunchSettles, ReconcileSettles, InMemory
<1>2. PICK answer \in Answers \cup {"lane"} :
        \/ host' = [host EXCEPT !.task[i] = answer] /\ host.task[i] = "call"
        \/ host' = Resumed(i, answer) /\ host.call[i] \in {"launch", "reconcile"}
  BY DEF Deadline, LaunchSettles, ReconcileSettles, Answers
<1>3. /\ Touch(host, host', i)
      /\ host'.ret = host.ret /\ host'.recovered = host.recovered
      /\ host'.late = host.late /\ host'.lane = host.lane /\ host'.seen = host.seen
      /\ host'.queue = host.queue /\ host'.retq = host.retq
      /\ host'.preparing = host.preparing /\ host'.visible = host.visible
      /\ host'.call[i] \in {host.call[i], "none"}
      /\ \/ host.task[i] = "call" /\ host'.task[i] = answer
         \/ host'.task[i] = host.task[i]
  <2>1. CASE host' = [host EXCEPT !.task[i] = answer] /\ host.task[i] = "call"
    BY <1>1, <2>1, SMTT(30) DEF IdleFor, Touch, Shaped, Keyed, Fields
  <2>2. CASE host' = Resumed(i, answer)
    BY <1>1, <2>2, ZenonT(60) DEF Resumed, IdleFor, Touch, Shaped, Keyed, Fields
  <2> QED
    BY <1>2, <2>1, <2>2
<1>4. Laned(host', i)
  BY <1>1, <1>3 DEF IdleFor, Laned, Holds, Answers
<1>5. ASSUME status # "closed" PROVE Tends(host', mem, writer, i)
  <2>1. Waits(host', mem, writer, i)
    BY <1>1, <1>3, <1>5 DEF IdleFor, Waits
  <2>2. Tasked(host', mem, writer, i)
    BY <1>1, <1>3, <1>5 DEF IdleFor, Tasked, Answers
  <2>3. Retires(host', mem, writer, i)
    BY <1>1, <1>3, <1>5 DEF IdleFor, Retires, Fenced, NotPreparing
  <2> QED
    BY <2>1, <2>2, <2>3 DEF Tends
<1>6. Unborn(host, i) => Unborn(host', i)
  BY <1>2, <1>3 DEF Unborn, Holds, NotPreparing
<1> QED
  BY <1>1, <1>3, <1>4, <1>5, <1>6, IdleTouch DEF IdleFor

\* A retirement that gives up, by a deadline, at shutdown or when it is done.
LEMMA OverSteps ==
  ASSUME Control, IInv', NEW i \in Ids,
         \/ ReleaseDeadline(i) \/ RefreshAborted(i) \/ RetireDeadline(i)
         \/ Republished(i) \/ RollbackEnds(i)
  PROVE  Control'
<1>1. IdleFor(i) /\ LedgerIdle /\ phase' = phase
  BY IdleFacts DEF ReleaseDeadline, RefreshAborted, RetireDeadline, Republished,
     RollbackEnds, InMemory
<1>2. /\ "over" \in RetirePc \ {"queued", "prepare", "begin"} /\ Shaped(host)
      /\ \A v : v = host.visible => \A j \in Ids \ {i} : j \in v <=> j \in host.visible
  BY <1>1 DEF RetirePc, IdleFor
<1>3. CASE RollbackEnds(i)
  <2>1. host.late[i] = "refresh" /\ Moved(host, host', i, host.ret[i], "none", host.visible)
    BY <1>2, <1>3, Moving DEF RollbackEnds
  <2>2. /\ Touch(host, host', i)
        /\ host'.task = host.task /\ host'.call = host.call
        /\ host'.recovered = host.recovered /\ host'.lane = host.lane
        /\ host'.queue = host.queue /\ host'.retq = host.retq
        /\ host'.preparing = host.preparing /\ host'.seen = host.seen
        /\ host'.ret[i] = host.ret[i] /\ host'.late[i] = "none"
        /\ host'.visible = host.visible
    BY <2>1 DEF Moved
  <2>3. Laned(host', i)
    BY <1>1, <2>2 DEF IdleFor, Laned, Holds
  <2>4. ASSUME status # "closed" PROVE Tends(host', mem, writer, i)
    <3>1. Waits(host', mem, writer, i)
      BY <1>1, <2>2, <2>4 DEF IdleFor, Waits
    <3>2. Tasked(host', mem, writer, i)
      BY <1>1, <2>2, <2>4 DEF IdleFor, Tasked
    <3>3. Retires(host', mem, writer, i)
      BY <1>1, <2>1, <2>2, <2>4 DEF IdleFor, Retires, Fenced, NotPreparing
    <3> QED
      BY <3>1, <3>2, <3>3 DEF Tends
  <2>5. Unborn(host, i) => Unborn(host', i)
    BY <2>2 DEF Unborn, Holds, NotPreparing
  <2> QED
    BY <1>1, <2>2, <2>3, <2>4, <2>5, IdleTouch DEF IdleFor
<1>4. CASE ReleaseDeadline(i) \/ RefreshAborted(i) \/ RetireDeadline(i) \/ Republished(i)
  <2>1. /\ host.ret[i] \in {"release", "refresh", "retire", "republish"}
        /\ \E g, l : /\ Moved(host, g, i, "over", l, host.visible)
                     /\ l \in {host.late[i], "armed"} /\ Same(g, host')
    <3>1. CASE ReleaseDeadline(i) \/ RefreshAborted(i)
      <4>1. host' = [host EXCEPT !.ret[i] = "over"]
        BY <3>1 DEF ReleaseDeadline, RefreshAborted
      <4>2. Moved(host, host', i, "over", host.late[i], host.visible)
        BY <1>2, <4>1, Moving
      <4> QED
        BY <3>1, <4>2 DEF Moved, Touch, Same, ReleaseDeadline, RefreshAborted
    <3>2. CASE RetireDeadline(i)
      <4>1. Moved(host, host', i, "over", "armed", host.visible)
        BY <1>2, <3>2, Moving DEF RetireDeadline
      <4> QED
        BY <3>2, <4>1 DEF Moved, Touch, Same, RetireDeadline
    <3>3. CASE Republished(i)
      <4> DEFINE h == [host EXCEPT !.ret[i] = "over"]
      <4>1. Moved(host, h, i, "over", host.late[i], host.visible)
        BY <1>2, Moving
      <4>2. host' \in {h, PumpCleanup([h EXCEPT !.cleanQ = Append(@, i)])}
        BY <3>3 DEF Republished
      <4> HIDE DEF h
      <4>3. Shaped(h) /\ Same(h, h)
        BY <4>1 DEF Moved, Touch, Same
      <4>4. Same(h, [h EXCEPT !.cleanQ = Append(@, i)])
        BY <4>3 DEF Same, Shaped, Keyed, Fields
      <4>5. Same(h, host')
        <5> DEFINE k == [h EXCEPT !.cleanQ = Append(@, i)]
        <5>1. Shaped(k) /\ Same(h, k)
          BY <4>4 DEF Same
        <5> HIDE DEF k
        <5>2. Same(k, PumpCleanup(k))
          BY <5>1, CleanupSame
        <5>3. Same(h, PumpCleanup(k))
          BY <5>1, <5>2 DEF Same
        <5> QED
          BY <4>2, <4>3, <5>3 DEF k
      <4> QED
        BY <3>3, <4>1, <4>5 DEF Republished
    <3> QED
      BY <1>4, <3>1, <3>2, <3>3
  <2>2. /\ Touch(host, host', i)
        /\ host'.task = host.task /\ host'.call = host.call
        /\ host'.recovered = host.recovered /\ host'.lane = host.lane
        /\ host'.queue = host.queue /\ host'.retq = host.retq
        /\ host'.preparing = host.preparing
        /\ host'.ret[i] = "over" /\ host'.late[i] \in {host.late[i], "armed"}
        /\ host'.visible = host.visible
    BY <2>1 DEF Moved, Same, Touch
  <2>3. Laned(host', i) /\ host.task[i] = "none"
    BY <1>1, <2>1, <2>2 DEF IdleFor, Laned, Holds
  <2>4. ASSUME status # "closed" PROVE Tends(host', mem, writer, i)
    <3>1. Waits(host', mem, writer, i)
      BY <1>1, <2>1, <2>2, <2>4 DEF IdleFor, Waits
    <3>2. Tasked(host', mem, writer, i)
      BY <1>1, <2>1, <2>2, <2>3, <2>4 DEF IdleFor, Tasked, Answers
    <3>3. Retires(host', mem, writer, i)
      BY <1>1, <2>1, <2>2, <2>4 DEF IdleFor, Retires, Fenced, NotPreparing
    <3> QED
      BY <3>1, <3>2, <3>3 DEF Tends
  <2> QED
    BY <1>1, <2>1, <2>2, <2>3, <2>4, IdleTouch DEF IdleFor, Unborn
<1> QED
  BY <1>3, <1>4

\* A retirement before its mutation, and the refresh before its deletion.
LEMMA OnwardSteps ==
  ASSUME Control, IInv', NEW i \in Ids,
         PreparationDeadline(i) \/ BeginRefused(i) \/ Refreshed(i)
  PROVE  Control'
<1>1. IdleFor(i) /\ LedgerIdle /\ phase' = phase
  BY IdleFacts DEF PreparationDeadline, BeginRefused, Refreshed, InMemory
<1>2. host.ret[i] \in {"prepare", "begin", "refresh"}
  BY DEF PreparationDeadline, BeginRefused, Refreshed
<1>3. host.task[i] = "none" /\ host.call[i] = "none" /\ Holds(host, i)
  BY <1>1, <1>2 DEF IdleFor, Laned
<1>4. /\ Touch(host, host', i)
      /\ host'.task = host.task /\ host'.recovered = host.recovered
      /\ host'.lane = host.lane /\ host'.late = host.late
      /\ host'.queue = host.queue /\ host'.retq = host.retq
      /\ host'.preparing = host.preparing /\ host'.visible = host.visible
      /\ \/ PreparationDeadline(i) /\ host'.ret[i] = "begin" /\ host'.seen[i] = "uncertain"
                                   /\ host'.call[i] = host.call[i]
         \/ host'.ret[i] = "over" /\ host'.call[i] = host.call[i]
         \/ host'.ret[i] = "release" /\ host'.call[i] = "release"
         \/ Refreshed(i) /\ host'.ret[i] = "retire" /\ host'.call[i] = "retire"
  <2>1. CASE PreparationDeadline(i)
    <3>1. Keyed(host')
      BY <1>1, <2>1, RetirementKeyed DEF IdleFor, Shaped, Retirement
    <3> QED
      BY SMTT(30), <1>1, <2>1, <3>1 DEF PreparationDeadline, IdleFor, Touch, Shaped, Keyed, Fields
  <2>2. CASE BeginRefused(i)
    BY <1>1, <2>2, AfterBegin DEF BeginRefused, IdleFor
  <2>3. CASE Refreshed(i)
    <3>1. Keyed(host')
      BY <1>1, <2>3, RetirementKeyed DEF IdleFor, Shaped, Retirement
    <3>2. host' = [host EXCEPT !.ret[i] = "retire", !.call[i] = "retire"]
      BY <2>3 DEF Refreshed
    <3>3. /\ host'.queue = host.queue /\ host'.retq = host.retq
          /\ host'.task = host.task /\ host'.recovered = host.recovered
          /\ host'.seen = host.seen /\ host'.late = host.late
          /\ host'.lane = host.lane /\ host'.preparing = host.preparing
          /\ host'.visible = host.visible
          /\ host'.call = [host.call EXCEPT ![i] = "retire"]
          /\ host'.ret = [host.ret EXCEPT ![i] = "retire"]
          /\ host.call = [j \in Ids |-> host.call[j]]
          /\ host.ret \in [Ids -> RetirePc]
      BY <1>1, <3>2 DEF IdleFor, Shaped, Keyed, Fields
    <3> QED
      BY <1>1, <2>3, <3>1, <3>3 DEF IdleFor, Touch, Shaped
  <2> QED
    BY <2>1, <2>2, <2>3
<1>5. Laned(host', i)
  BY <1>3, <1>4 DEF Laned, Holds
<1>6. ASSUME status # "closed" PROVE Tends(host', mem, writer, i)
  <2>1. BeginRefused(i) => Op(writer, i) = "nobody"
    BY <1>1 DEF IdleFor, BeginRefused, Op, Nobody
  <2>2. Waits(host', mem, writer, i)
    BY <1>1, <1>2, <1>4, <1>6 DEF IdleFor, Waits
  <2>3. Tasked(host', mem, writer, i)
    BY <1>1, <1>2, <1>3, <1>4, <1>6 DEF IdleFor, Tasked, Answers
  <2>4. Op(writer, i) \notin {"begin", "cancel", "complete"}
    BY <1>1, <1>6, <2>1 DEF IdleFor, Retires, PreparationDeadline, Refreshed
  <2>5. host.late[i] # "rolling" /\ (Refreshed(i) => Fenced(host, mem, writer, i))
    BY <1>1, <1>2, <1>6 DEF IdleFor, Retires, Refreshed
  <2>6. Retires(host', mem, writer, i)
    BY <1>1, <1>2, <1>3, <1>4, <1>6, <2>4, <2>5 DEF IdleFor, Retires, Fenced, NotPreparing
  <2> QED
    BY <2>2, <2>3, <2>6 DEF Tends
<1> QED
  BY <1>1, <1>3, <1>4, <1>5, <1>6, <1>2, IdleTouch DEF IdleFor, Unborn

\* The answer to a release.
LEMMA ReleaseStep ==
  ASSUME Control, IInv', NEW i \in Ids, ReleaseSettles(i)
  PROVE  Control'
<1>1. IdleFor(i) /\ LedgerIdle /\ phase' = phase
  BY IdleFacts DEF ReleaseSettles
<1>2. PICK pc, fence :
        /\ host' = [host EXCEPT !.call[i] = "none", !.ret[i] = pc, !.fence = fence]
        /\ host.ret[i] = "release" => pc = "over"
        /\ host.ret[i] # "release" => pc = host.ret[i]
  <2> DEFINE pc == IF host.ret[i] = "release" THEN "over" ELSE host.ret[i]
             h == [host EXCEPT !.call[i] = "none",
                               !.ret[i] = IF @ = "release" THEN "over" ELSE @]
  <2>1. h = [host EXCEPT !.call[i] = "none", !.ret[i] = pc, !.fence = host.fence]
    BY <1>1 DEF IdleFor, Shaped, Keyed, Fields
  <2>2. [h EXCEPT !.fence = Unfenced(h, h.key[i], i)]
          = [host EXCEPT !.call[i] = "none", !.ret[i] = pc, !.fence = Unfenced(h, h.key[i], i)]
    BY <2>1 DEF IdleFor, Shaped, Keyed, Fields
  <2>3. host' = h \/ host' = [h EXCEPT !.fence = Unfenced(h, h.key[i], i)]
    BY DEF ReleaseSettles
  <2>4. /\ host.ret[i] = "release" => pc = "over"
        /\ host.ret[i] # "release" => pc = host.ret[i]
    OBVIOUS
  <2> HIDE DEF h, pc
  <2> QED
    BY <2>1, <2>2, <2>3, <2>4
<1>3. host.call[i] = "release" /\ host.ret[i] \in {"release", "over"} /\ host.task[i] = "none"
      /\ Holds(host, i) /\ pc = "over"
  BY <1>1, <1>2 DEF ReleaseSettles, IdleFor, Laned
<1>4. Keyed(host')
  BY <1>1, <1>2, <1>3 DEF IdleFor, Shaped, Keyed, Fields, RetirePc
<1>5. /\ host'.queue = host.queue /\ host'.retq = host.retq
      /\ host'.task = host.task /\ host'.recovered = host.recovered
      /\ host'.seen = host.seen /\ host'.late = host.late
      /\ host'.lane = host.lane /\ host'.preparing = host.preparing
      /\ host'.visible = host.visible
      /\ host'.call = [host.call EXCEPT ![i] = "none"]
      /\ host'.ret = [host.ret EXCEPT ![i] = "over"]
      /\ host.call = [j \in Ids |-> host.call[j]]
      /\ host.ret \in [Ids -> RetirePc]
  BY <1>1, <1>2, <1>3 DEF IdleFor, Shaped, Keyed, Fields
<1>6. Touch(host, host', i) /\ host'.call[i] = "none" /\ host'.ret[i] = "over"
  BY <1>1, <1>4, <1>5 DEF IdleFor, Touch, Shaped
<1>7. Laned(host', i)
  BY <1>3, <1>5, <1>6 DEF Laned, Holds
<1>8. ASSUME status # "closed" PROVE Tends(host', mem, writer, i)
  <2>1. Waits(host', mem, writer, i)
    BY <1>1, <1>3, <1>5, <1>6, <1>8 DEF IdleFor, Waits
  <2>2. Tasked(host', mem, writer, i)
    BY <1>1, <1>3, <1>5, <1>6, <1>8 DEF IdleFor, Tasked, Answers
  <2>3. Retires(host', mem, writer, i)
    BY <1>1, <1>3, <1>5, <1>6, <1>8 DEF IdleFor, Retires, NotPreparing
  <2> QED
    BY <2>1, <2>2, <2>3 DEF Tends
<1> QED
  BY <1>1, <1>3, <1>5, <1>6, <1>7, <1>8, IdleTouch DEF IdleFor, Unborn

\* The answer to a deletion, in time or late.
LEMMA RetireStep ==
  ASSUME Control, IInv', NEW i \in Ids, RetireSettles(i)
  PROVE  Control'
<1>1. IdleFor(i) /\ LedgerIdle /\ phase' = phase
  BY IdleFacts DEF RetireSettles
<1> DEFINE h == [host EXCEPT !.call[i] = "none"]
<1>2. PICK answer : host' = IF h.ret[i] # "retire" THEN LateRetirement(h, i, answer)
                            ELSE [h EXCEPT !.ret[i] =
                                    CASE answer = "retired" -> "complete"
                                      [] answer = "blocked" -> "cancel"
                                      [] answer = "unsupported" /\ ~h.recovered[i] -> "cancel"
                                      [] OTHER -> "over"]
  BY DEF RetireSettles, Retired
<1>3. /\ Shaped(h) /\ h.queue = host.queue /\ h.retq = host.retq
      /\ h.task = host.task /\ h.recovered = host.recovered
      /\ h.seen = host.seen /\ h.late = host.late
      /\ h.lane = host.lane /\ h.preparing = host.preparing
      /\ h.visible = host.visible /\ h.ret = host.ret
      /\ h.call[i] = "none" /\ \A j \in Ids \ {i} : h.call[j] = host.call[j]
  BY <1>1 DEF IdleFor, Shaped, Keyed, Fields
<1>4. /\ host.call[i] = "retire" /\ host.ret[i] \in {"retire", "over"}
      /\ host.task[i] = "none" /\ Holds(host, i)
      /\ status # "closed" => Fenced(host, mem, writer, i)
  BY <1>1 DEF RetireSettles, IdleFor, Laned, Retires
<1>5. {"complete", "cancel", "over"} \subseteq RetirePc \ {"queued", "prepare", "begin"}
      /\ \A j \in Ids \ {i} : j \in h.visible <=> j \in h.visible
  BY DEF RetirePc
<1> HIDE DEF h
<1> DEFINE pc == host'.ret[i]  l == host'.late[i]
<1>6. /\ Moved(h, host', i, pc, l, h.visible)
      /\ pc \in {"complete", "cancel", "over"}
      /\ status # "closed" /\ l = "rolling" => pc = "over"
      /\ l = "rolling" =>
           host.late[i] = "rolling" \/ (Serving /\ mem.rec[i].state = "retiring")
  <2>1. CASE h.ret[i] # "retire"
    <3> DEFINE rolls == Serving /\ h.late[i] = "armed" /\ answer = "blocked"
                          /\ mem.rec[i].state = "retiring"
               x == IF rolls THEN "rolling" ELSE "none"
    <3>1. host' = [h EXCEPT !.late[i] = x]
      BY <1>2, <2>1 DEF LateRetirement
    <3>2. x = "rolling" => Serving /\ mem.rec[i].state = "retiring"
      OBVIOUS
    <3>3. h.ret[i] = "over"
      BY <1>3, <1>4, <2>1
    <3> HIDE DEF x
    <3>4. Moved(h, host', i, "over", x, h.visible)
      BY <1>3, <1>5, <3>1, <3>3, Moving
    <3>5. pc = "over" /\ l = x
      BY <3>4 DEF Moved
    <3> QED
      BY <3>2, <3>4, <3>5
  <2>2. CASE h.ret[i] = "retire"
    <3>1. PICK x \in {"complete", "cancel", "over"} : host' = [h EXCEPT !.ret[i] = x]
      BY <1>2, <2>2
    <3>2. Moved(h, host', i, x, h.late[i], h.visible)
      BY <1>3, <1>5, <3>1, Moving
    <3>3. pc = x /\ l = h.late[i]
      BY <3>2 DEF Moved
    <3>4. status = "closed" \/ h.late[i] # "rolling"
      BY <1>1, <1>3, <1>4 DEF IdleFor, Retires
    <3>5. h.late[i] = host.late[i]
      BY <1>3
    <3> QED
      BY <3>2, <3>3, <3>4, <3>5
  <2> QED
    BY <2>1, <2>2
<1> HIDE DEF pc, l
<1>7. /\ Touch(host, host', i)
      /\ host'.task = host.task /\ host'.recovered = host.recovered
      /\ host'.lane = host.lane /\ host'.call[i] = "none"
      /\ host'.queue = host.queue /\ host'.retq = host.retq
      /\ host'.preparing = host.preparing
      /\ host'.ret[i] = pc /\ host'.late[i] = l /\ host'.visible = host.visible
  BY <1>3, <1>6 DEF Moved, Touch, pc, l
<1>8. Laned(host', i)
  BY <1>4, <1>6, <1>7 DEF Laned, Holds
<1>9. ASSUME status # "closed" PROVE Tends(host', mem, writer, i)
  <2>1. Waits(host', mem, writer, i)
    BY <1>1, <1>4, <1>6, <1>7, <1>9 DEF IdleFor, Waits
  <2>2. Tasked(host', mem, writer, i)
    BY <1>1, <1>4, <1>7, <1>9 DEF IdleFor, Tasked, Answers
  <2>3. Retires(host', mem, writer, i)
    BY <1>1, <1>4, <1>6, <1>7, <1>9 DEF IdleFor, Retires, Fenced, NotPreparing
  <2> QED
    BY <2>1, <2>2, <2>3 DEF Tends
<1> QED
  BY <1>1, <1>4, <1>6, <1>7, <1>8, <1>9, IdleTouch DEF IdleFor, Unborn

\* The answer to a preparation, in time or late.
LEMMA PreparationStep ==
  ASSUME Control, IInv', Keyed(host'), NEW p \in Providers, NEW i \in Ids,
         PreparationSettles(p, i)
  PROVE  Control'
<1>1. IdleFor(i) /\ LedgerIdle /\ phase' = phase /\ host.preparing[p] = i
  BY IdleFacts DEF PreparationSettles, Prepares
<1> DEFINE h == [host EXCEPT !.preparing[p] = NoId]
<1>2. PICK answer :
        host' = IF h.ret[i] # "prepare" THEN LatePreparation(h, i, answer)
                ELSE IF answer = "blocked" THEN [h EXCEPT !.ret[i] = "over"]
                ELSE [h EXCEPT !.ret[i] = "begin", !.seen[i] = answer]
  BY DEF PreparationSettles, Prepared
<1>3. /\ Shaped(h) /\ h.queue = host.queue /\ h.retq = host.retq
      /\ h.task = host.task /\ h.recovered = host.recovered
      /\ h.seen = host.seen /\ h.late = host.late
      /\ h.lane = host.lane /\ h.call = host.call
      /\ h.visible = host.visible /\ h.ret = host.ret /\ h.key = host.key
      /\ h.preparing[p] = NoId
      /\ \A o \in Providers \ {p} : h.preparing[o] = host.preparing[o]
      /\ h = [f \in Fields |-> h[f]]
  BY ZenonT(60), <1>1 DEF IdleFor, Shaped, Keyed, Fields
<1> HIDE DEF h
<1>4. \A j \in Ids : NotPreparing(host, j) => NotPreparing(h, j)
  BY <1>3, CoordinatorAssumption DEF NotPreparing
<1>5. Lanes(h)
  BY <1>3 DEF Control, Lanes, HeldLanes, Laned, Holds
<1>6. ASSUME status # "closed" PROVE Tended(h, mem, writer)
  <2> SUFFICES ASSUME NEW j \in Ids
               PROVE  Waits(h, mem, writer, j) /\ Tasked(h, mem, writer, j) /\ Retires(h, mem, writer, j)
    BY DEF Tended
  <2>1. Waits(host, mem, writer, j) /\ Tasked(host, mem, writer, j) /\ Retires(host, mem, writer, j)
    BY <1>6 DEF Control, Tended
  <2>2. NotPreparing(host, j) => NotPreparing(h, j)
    BY <1>4
  <2> QED
    BY <1>3, <2>1, <2>2 DEF Waits, Tasked, Retires, Fenced
<1>7. /\ status # "closed" => Placed(h, mem)
      /\ status = "writing" => Placed(h, undo)
  <2>1. \A d : Placed(host, d) => Placed(h, d)
    BY <1>3, CoordinatorAssumption DEF Placed
  <2> QED
    BY <2>1 DEF Control
<1>8. \A j \in Ids : Unborn(host, j) => Unborn(h, j)
  BY <1>3, <1>4 DEF Unborn, Holds
<1>9. status # "closed" /\ mem.rec[i].state # "absent" => NotPreparing(h, i)
  <2> SUFFICES ASSUME status # "closed", mem.rec[i].state # "absent", NEW o \in Providers
               PROVE  h.preparing[o] # i
    BY DEF NotPreparing
  <2>1. Placed(host, mem)
    BY DEF Control
  <2>2. host.preparing[o] = i => o = p
    BY <1>1, <2>1 DEF Placed
  <2> QED
    BY <1>3, <2>2, CoordinatorAssumption
<1>10. /\ Touch(h, host', i)
       /\ host'.task = h.task /\ host'.recovered = h.recovered
       /\ host'.lane = h.lane /\ host'.call = h.call
       /\ host'.queue = h.queue /\ host'.retq = h.retq
       /\ host'.preparing = h.preparing /\ host'.visible = h.visible
       /\ \/ /\ h.ret[i] = "prepare" /\ host'.ret[i] \in {"over", "begin"}
             /\ host'.late[i] = h.late[i]
          \/ /\ h.ret[i] # "prepare" /\ host'.ret[i] = h.ret[i]
             /\ host'.seen[i] = h.seen[i]
             /\ \/ host'.late[i] = "none"
                \/ /\ host'.late[i] = "rolling" /\ h.ret[i] = "none" /\ Serving
                   /\ mem.rec[i].state = "retiring" /\ h.late[i] = "armed"
  <2>1. CASE h.ret[i] # "prepare"
    <3> DEFINE rolls == Serving /\ h.late[i] = "armed" /\ answer = "blocked"
                          /\ h.ret[i] = "none" /\ mem.rec[i].state = "retiring"
               l == IF rolls THEN "rolling" ELSE "none"
    <3>1. host' = [h EXCEPT !.late[i] = l]
      BY <1>2, <2>1 DEF LatePreparation
    <3>2. \/ l = "none"
          \/ /\ l = "rolling" /\ h.ret[i] = "none" /\ Serving
             /\ mem.rec[i].state = "retiring" /\ h.late[i] = "armed"
      OBVIOUS
    <3> HIDE DEF l
    <3>3. /\ Touch(h, host', i)
          /\ host'.task = h.task /\ host'.recovered = h.recovered
          /\ host'.lane = h.lane /\ host'.call = h.call
          /\ host'.queue = h.queue /\ host'.retq = h.retq
          /\ host'.preparing = h.preparing /\ host'.visible = h.visible
          /\ host'.ret[i] = h.ret[i] /\ host'.seen[i] = h.seen[i] /\ host'.late[i] = l
      BY <1>3, <3>1 DEF Touch, Shaped, Keyed, Fields
    <3> QED
      BY <2>1, <3>2, <3>3
  <2>2. CASE h.ret[i] = "prepare"
    <3>1. CASE host' = [h EXCEPT !.ret[i] = "over"]
      BY <1>3, <2>2, <3>1 DEF Touch, Shaped, Keyed, Fields
    <3>2. CASE host' = [h EXCEPT !.ret[i] = "begin", !.seen[i] = answer]
      BY <1>3, <2>2, <3>2 DEF Touch, Shaped, Keyed, Fields
    <3> QED
      BY <1>2, <2>2, <3>1, <3>2
  <2> QED
    BY <2>1, <2>2
<1>11. Laned(h, i)
  BY <1>5 DEF Lanes
<1>12. Laned(host', i)
  BY <1>10, <1>11 DEF Laned, Holds
<1>13. ASSUME status # "closed" PROVE Tends(host', mem, writer, i)
  <2>1. Waits(h, mem, writer, i) /\ Tasked(h, mem, writer, i) /\ Retires(h, mem, writer, i)
    BY <1>6, <1>13 DEF Tended
  <2>2. Waits(host', mem, writer, i)
    BY <1>10, <2>1 DEF Waits
  <2>3. Tasked(host', mem, writer, i)
    BY <1>10, <2>1 DEF Tasked, Answers
  <2>4. h.late[i] # "rolling"
    BY <1>1, <1>3, <1>13 DEF IdleFor, Retires, NotPreparing
  <2>5. CASE h.ret[i] = "prepare"
    <3>1. /\ h.call[i] # "retire" /\ h.late[i] # "rolling"
          /\ Op(writer, i) \notin {"begin", "cancel", "complete", "rollback"}
      BY <1>11, <2>1, <2>5 DEF Retires, Laned
    <3>2. mem.rec[i].state # "absent" => NotPreparing(host', i)
      BY <1>9, <1>10, <1>13 DEF NotPreparing
    <3>3. h.recovered[i] => /\ mem.rec[i].state \in {"owned", "retiring", "absent"}
                            /\ Op(writer, i) \notin {"submit", "interrupt", "mark", "settle"}
      BY <2>1, <2>5 DEF Retires
    <3>4. /\ host'.ret[i] \in {"over", "begin"} /\ host'.late[i] = h.late[i]
          /\ host'.call[i] = h.call[i] /\ host'.recovered[i] = h.recovered[i]
      BY <1>10, <2>5
    <3> QED
      BY <2>2, <2>3, <3>1, <3>2, <3>3, <3>4 DEF Retires, Tends
  <2>6. CASE h.ret[i] # "prepare"
    <3>1. host'.late[i] = "rolling" => NotPreparing(host', i) /\ Op(writer, i) = "nobody"
      <4> SUFFICES ASSUME host'.late[i] = "rolling"
                   PROVE  NotPreparing(host', i) /\ Op(writer, i) = "nobody"
        OBVIOUS
      <4>1. /\ h.ret[i] = "none" /\ mem.rec[i].state = "retiring" /\ h.late[i] = "armed"
        BY <1>10, <2>6
      <4>2. NotPreparing(host', i)
        BY <1>9, <1>10, <1>13, <4>1 DEF NotPreparing
      <4>3. CASE status = "writing"
        <5>1. Change(undo, mem, writer, i)
          BY <4>3 DEF Control
        <5>2. Op(writer, i) \in {"nobody", "begin", "cancel", "rollback"}
          BY <4>1, <5>1 DEF Change, Answers
        <5>3. Op(writer, i) \notin {"begin", "cancel", "rollback"}
          BY <2>1, <4>1 DEF Retires
        <5> QED
          BY <4>2, <5>2, <5>3
      <4>4. CASE status # "writing"
        <5>1. writer = Nobody
          BY <1>1, <4>4 DEF IdleFor
        <5> QED
          BY <4>2, <5>1 DEF Op, Nobody
      <4> QED
        BY <4>2, <4>3, <4>4
    <3>2. NotPreparing(h, i) => NotPreparing(host', i)
      BY <1>10 DEF NotPreparing
    <3>3. /\ host'.ret[i] = h.ret[i] /\ host'.seen[i] = h.seen[i]
          /\ host'.call[i] = h.call[i] /\ host'.recovered[i] = h.recovered[i]
          /\ host'.visible = h.visible
          /\ host'.late[i] = "rolling" => h.ret[i] = "none" /\ mem.rec[i].state = "retiring"
          /\ host'.late[i] # "rolling" => host'.late[i] = "none"
      BY <1>10, <2>6
    <3>4. Op(writer, i) # "rollback"
      BY <2>4, <2>1 DEF Retires
    <3>5. h.call[i] = "retire" => host'.late[i] # "rolling"
      BY <1>11, <3>3 DEF Laned
    <3>6. Retires(host', mem, writer, i)
      BY <2>1, <3>1, <3>2, <3>3, <3>4, <3>5 DEF Retires, Fenced
    <3> QED
      BY <2>2, <2>3, <3>6 DEF Tends
  <2> QED
    BY <2>2, <2>3, <2>5, <2>6 DEF Tends
<1>14. Shaped(host') /\ Lanes(host')
  BY <1>5, <1>10, <1>12, TouchLanes DEF Touch
<1>15. status # "closed" => Tended(host', mem, writer) /\ Placed(host', mem)
  BY <1>6, <1>7, <1>10, <1>13, TouchTended, TouchPlaced
<1>16. status = "writing" => Placed(host', undo)
  BY <1>7, <1>10, TouchPlaced
<1>17. \A j \in Ids \ issued : Unborn(host', j)
  <2>1. ~Unborn(host, i)
    BY <1>1 DEF Unborn, NotPreparing
  <2>2. \A j \in Ids \ {i} : Unborn(h, j) => Unborn(host', j)
    BY <1>10, TouchUnborn
  <2> QED
    BY <1>8, <2>1, <2>2 DEF Control
<1>18. Early(phase, host')
  BY <1>3, <1>10 DEF Control, Early, Touch
<1>19. host'.visible = host.visible
  BY <1>3, <1>10
<1> QED
  BY <1>1, <1>14, <1>15, <1>16, <1>17, <1>18, <1>19, IdleControl

-----------------------------------------------------------------------------
(* Steps that pump.                                                         *)

\* What the pumps of a step start from, and what they leave.
Ready(g) ==
  /\ Kept(g, mem, writer)
  /\ status = "writing" => Placed(g, undo)
  /\ \A i \in Ids \ issued : Unborn(g, i)
  /\ Early(phase, g)
  /\ Serving => g.visible = InState(Current, {"owned"})

\* Behind a write the lanes are also those of the Maps it may go back to.
LEMMA WritingPlaced ==
  ASSUME Control, status = "writing", NEW h, NEW g,
         Placed(h, undo), Placed(g, mem), NoneUnrecorded(h, g, mem)
  PROVE  Placed(g, undo)
<1> SUFFICES ASSUME NEW i \in Ids, NEW p \in Providers,
                    g.lane[p] = i \/ g.preparing[p] = i, undo.rec[i].state # "absent"
             PROVE  Of(undo, i) = p
  BY DEF Placed
<1>1. CASE mem.rec[i].state = "absent"
  BY <1>1 DEF NoneUnrecorded, Placed
<1>2. CASE mem.rec[i].state # "absent"
  <2>1. Of(mem, i) = p
    BY <1>2 DEF Placed
  <2>2. undo.rec[i].request = mem.rec[i].request
    <3>1. Change(undo, mem, writer, i)
      BY DEF Control
    <3> QED
      BY <1>2, <3>1 DEF Change
  <2> QED
    BY <2>1, <2>2 DEF Of
<1> QED
  BY <1>1, <1>2

\* Each pump leaves what it started from.
LEMMA PumpReady ==
  ASSUME Control, status # "closed", NEW g, Ready(g)
  PROVE  /\ Ready(Pump(g, mem)) /\ Ready(PumpRetirements(g, mem))
         /\ Ready(PumpCleanup(g))
<1>1. RecordsCoherent(mem) /\ Kept(g, mem, writer)
  BY Coherent DEF Control, Ready
<1>2. \A i \in Ids \ issued : mem.rec[i].state = "absent"
  BY DEF Control, IInv, Fit, Mentioned, Recorded
<1>3. Ready(Pump(g, mem))
  <2>1. /\ Kept(Pump(g, mem), mem, writer)
        /\ Pump(g, mem).visible = g.visible
        /\ Pump(g, mem).ret = g.ret /\ Pump(g, mem).recovered = g.recovered
        /\ \A i \in Ids : Unborn(g, i) /\ mem.rec[i].state = "absent"
                            => Unborn(Pump(g, mem), i)
        /\ NoneUnrecorded(g, Pump(g, mem), mem)
    BY <1>1, PumpKept
  <2>2. status = "writing" => Placed(Pump(g, mem), undo)
    BY <2>1, WritingPlaced DEF Ready, Kept
  <2> QED
    BY <1>2, <2>1, <2>2 DEF Ready, Early
<1>4. Ready(PumpRetirements(g, mem))
  <2> DEFINE h == PumpRetirements(g, mem)
  <2>1. /\ Kept(h, mem, writer)
        /\ h.visible \subseteq g.visible
        /\ \A i \in Ids : i \in g.visible =>
             \/ i \in h.visible
             \/ mem.rec[i].state = "retiring" /\ Op(writer, i) = "nobody"
        /\ h.recovered = g.recovered
        /\ \A i \in Ids : g.ret[i] = "none" => h.ret[i] = "none"
        /\ \A i \in Ids : Unborn(g, i) => Unborn(h, i)
        /\ NoneUnrecorded(g, h, mem)
    BY <1>1, PumpRetirementsKept
  <2> HIDE DEF h
  <2>2. status = "writing" => Placed(h, undo)
    BY <2>1, WritingPlaced DEF Ready, Kept
  <2>3. ASSUME NEW i \in Ids, mem.rec[i].state = "retiring", Op(writer, i) = "nobody"
        PROVE  i \notin InState(Current, {"owned"})
    <3>1. CASE status = "writing"
      <4>1. Change(undo, mem, writer, i)
        BY <3>1 DEF Control
      <4>2. undo.rec[i] = mem.rec[i]
        BY <2>3, <4>1 DEF Change
      <4> QED
        BY <2>3, <3>1, <4>2 DEF Current, InState
    <3>2. CASE status # "writing"
      BY <2>3, <3>2 DEF Current, InState
    <3> QED
      BY <3>1, <3>2
  <2>4. Serving => h.visible = InState(Current, {"owned"})
    <3> SUFFICES ASSUME Serving PROVE h.visible = InState(Current, {"owned"})
      OBVIOUS
    <3>1. g.visible = InState(Current, {"owned"}) /\ g.visible \subseteq Ids
      BY DEF Ready, InState
    <3> QED
      BY <2>1, <2>3, <3>1
  <2>5. Early(phase, h)
    BY <2>1 DEF Ready, Early
  <2> QED
    BY <2>1, <2>2, <2>4, <2>5 DEF Ready, h
<1>5. Ready(PumpCleanup(g))
  <2>1. Same(g, PumpCleanup(g))
    BY <1>1, CleanupSame DEF Kept
  <2> HIDE DEF PumpCleanup
  <2>2. Kept(PumpCleanup(g), mem, writer) /\ \A i \in Ids : Unborn(g, i) => Unborn(PumpCleanup(g), i)
    BY <1>1, <2>1, SameKept
  <2> QED
    BY <2>1, <2>2 DEF Ready, Early, Same, Placed
<1> QED
  BY <1>3, <1>4, <1>5

\* A step that leaves the ledger alone and pumps.
LEMMA ReadyControl ==
  ASSUME Control, IInv', LedgerIdle, phase' = phase, status # "closed", Ready(host')
  PROVE  Control'
<1>1. Serving => host'.visible = host.visible
  BY DEF Control, Ready
<1> QED
  BY <1>1, IdleControl DEF Ready, Kept

\* A launch gives up its lane, when its task or its retirement is over.
LEMMA FreedLanes ==
  ASSUME NEW h, NEW i \in Ids, NEW g, Shaped(h), Shaped(g), Lanes(h),
         g.queue = h.queue, g.retq = h.retq, g.call = h.call, g.preparing = h.preparing,
         g.late = h.late,
         g.lane = [p \in Providers |-> IF h.lane[p] = i THEN NoId ELSE h.lane[p]],
         \A j \in Ids \ {i} : g.task[j] = h.task[j] /\ g.ret[j] = h.ret[j],
         g.task[i] = "none", g.ret[i] \in {"none", "queued"}, g.call[i] = "none"
  PROVE  /\ Lanes(g)
         /\ \A d : Placed(h, d) => Placed(g, d)
         /\ \A j \in Ids \ {i} : Unborn(h, j) => Unborn(g, j)
<1>1. HeldLanes(g) \subseteq HeldLanes(h) /\ \A j \in Ids \ {i} : Holds(h, j) <=> Holds(g, j)
  BY CoordinatorAssumption DEF HeldLanes, Holds
<1>2. IsFiniteSet(HeldLanes(g)) /\ Cardinality(HeldLanes(g)) <= MaxActive
  <2>1. IsFiniteSet(HeldLanes(h)) /\ Cardinality(HeldLanes(h)) <= MaxActive
    BY DEF Lanes
  <2>2. /\ IsFiniteSet(HeldLanes(g)) /\ Cardinality(HeldLanes(g)) <= Cardinality(HeldLanes(h))
        /\ Cardinality(HeldLanes(g)) \in Nat /\ Cardinality(HeldLanes(h)) \in Nat
    BY <1>1, <2>1, FS_Subset, FS_CardinalityType
  <2> QED
    BY <2>1, <2>2, CoordinatorAssumption
<1>3. \A j \in Ids \ {i} : Laned(g, j)
  BY <1>1 DEF Lanes, Laned
<1>4. Laned(g, i)
  BY DEF Laned
<1>5. Lanes(g)
  BY <1>2, <1>3, <1>4 DEF Lanes
<1>6. \A d : Placed(h, d) => Placed(g, d)
  BY CoordinatorAssumption DEF Placed
<1>7. \A j \in Ids \ {i} : Unborn(h, j) => Unborn(g, j)
  BY <1>1 DEF Unborn, NotPreparing
<1> QED
  BY <1>5, <1>6, <1>7

\* The end of a task, or of a retirement, before the pumps.
LEMMA FreedReady ==
  ASSUME Control, NEW i \in Ids, NEW g, Keyed(g), host.call[i] = "none",
         \/ host.task[i] = "lane" /\ g = Freed([host EXCEPT !.task[i] = "none"], i)
         \/ host.ret[i] = "over" /\ g = Freed([host EXCEPT !.ret[i] = "none"], i)
  PROVE  /\ Shaped(g) /\ Lanes(g) /\ g.visible = host.visible /\ Early(phase, g)
         /\ \A j \in Ids \ issued : Unborn(g, j)
         /\ status # "closed" => Ready(g)
<1>1. IdleFor(i) /\ Shaped(host) /\ Lanes(host)
  BY IdleFacts DEF Control
<1>2. /\ g.queue = host.queue /\ g.retq = host.retq
      /\ g.call = host.call /\ g.recovered = host.recovered
      /\ g.seen = host.seen /\ g.late = host.late
      /\ g.preparing = host.preparing /\ g.visible = host.visible
      /\ g.lane = [p \in Providers |-> IF host.lane[p] = i THEN NoId ELSE host.lane[p]]
      /\ \/ /\ host.task[i] = "lane" /\ g.task = [host.task EXCEPT ![i] = "none"]
            /\ g.ret = host.ret
         \/ /\ host.ret[i] = "over" /\ g.ret = [host.ret EXCEPT ![i] = "none"]
            /\ g.task = host.task
      /\ host.task = [j \in Ids |-> host.task[j]] /\ host.ret \in [Ids -> RetirePc]
  <2>1. CASE host.task[i] = "lane" /\ g = Freed([host EXCEPT !.task[i] = "none"], i)
    BY <1>1, <2>1 DEF Freed, Shaped, Keyed, Fields
  <2>2. CASE host.ret[i] = "over" /\ g = Freed([host EXCEPT !.ret[i] = "none"], i)
    BY <1>1, <2>2 DEF Freed, Shaped, Keyed, Fields
  <2> QED
    BY <2>1, <2>2
<1>3. Shaped(g)
  <2>1. g.task = [j \in Ids |-> g.task[j]]
    BY <1>2
  <2> QED
    BY <1>1, <1>2, <2>1 DEF Shaped
<1>4. /\ \A j \in Ids \ {i} : g.task[j] = host.task[j] /\ g.ret[j] = host.ret[j]
      /\ g.task[i] = "none" /\ g.call[i] = "none"
      /\ \/ g.ret[i] = host.ret[i] /\ host.task[i] = "lane" /\ host.ret[i] \in {"none", "queued"}
         \/ g.ret[i] = "none" /\ host.ret[i] = "over" /\ host.task[i] = "none"
  BY <1>1, <1>2 DEF IdleFor, Laned
<1>5. /\ Lanes(g)
      /\ \A d : Placed(host, d) => Placed(g, d)
      /\ \A j \in Ids \ {i} : Unborn(host, j) => Unborn(g, j)
  <2>1. g.ret[i] \in {"none", "queued"}
    BY <1>4
  <2> QED
    BY <1>1, <1>2, <1>3, <1>4, <2>1, FreedLanes
<1>6. ~Unborn(host, i)
  BY <1>4 DEF Unborn
<1>7. ASSUME status # "closed" PROVE Tended(g, mem, writer)
  <2>1. ASSUME NEW j \in Ids \ {i} PROVE Tends(g, mem, writer, j)
    <3>1. Waits(host, mem, writer, j) /\ Tasked(host, mem, writer, j) /\ Retires(host, mem, writer, j)
      BY <1>7 DEF Control, Tended
    <3>2. NotPreparing(g, j) <=> NotPreparing(host, j)
      BY <1>2 DEF NotPreparing
    <3>3. Waits(g, mem, writer, j)
      BY <1>2, <1>4, <3>1 DEF Waits
    <3>4. Tasked(g, mem, writer, j)
      BY <1>2, <1>4, <3>1 DEF Tasked
    <3>5. Retires(g, mem, writer, j)
      BY <1>2, <1>4, <3>1, <3>2 DEF Retires, Fenced
    <3> QED
      BY <3>3, <3>4, <3>5 DEF Tends
  <2>2. Waits(host, mem, writer, i) /\ Tasked(host, mem, writer, i) /\ Retires(host, mem, writer, i)
    BY <1>1, <1>7 DEF IdleFor
  <2>3. Waits(g, mem, writer, i)
    BY <1>2, <1>4, <2>2 DEF Waits
  <2>4. Tasked(g, mem, writer, i)
    BY <1>2, <1>4, <2>2 DEF Tasked, Answers
  <2>5. Retires(g, mem, writer, i)
    BY <1>2, <1>4, <2>2 DEF Retires, Fenced, NotPreparing
  <2>6. \A j \in Ids : Tends(g, mem, writer, j)
    BY <2>1, <2>3, <2>4, <2>5 DEF Tends
  <2> QED
    BY <2>6 DEF Tended, Tends
<1>8. \A j \in Ids \ issued : Unborn(g, j)
  BY <1>5, <1>6 DEF Control
<1>9. Early(phase, g)
  BY <1>2, <1>4 DEF Control, Early
<1>10. Serving => g.visible = InState(Current, {"owned"})
  BY <1>2 DEF Control
<1> QED
  BY <1>2, <1>3, <1>5, <1>7, <1>8, <1>9, <1>10 DEF Control, Ready, Kept

\* Tasks and retirements that are over give up their lane and pump.
LEMMA LaneEnds ==
  ASSUME Control, IInv', NEW i \in Ids, TaskEnds(i) \/ RetirementEnds(i)
  PROVE  Control'
<1>1. PICK g : /\ Keyed(g)
               /\ \/ host.task[i] = "lane" /\ g = Freed([host EXCEPT !.task[i] = "none"], i)
                  \/ host.ret[i] = "over" /\ g = Freed([host EXCEPT !.ret[i] = "none"], i)
               /\ \/ Serving /\ host' = Pump(PumpRetirements(g, mem), mem)
                  \/ Serving /\ host' = PumpRetirements(Pump(g, mem), mem)
                  \/ ~Serving /\ host' = g
  <2>1. /\ Keyed([host EXCEPT !.task[i] = "none"])
        /\ Keyed([host EXCEPT !.ret[i] = "none"])
    BY DEF Control, Shaped, Keyed, Fields, RetirePc
  <2>2. CASE TaskEnds(i)
    <3> DEFINE g == Freed([host EXCEPT !.task[i] = "none"], i)
    <3>1. Keyed(g)
      BY <2>1, FreedKeyed
    <3>2. host' = IF Serving THEN Pump(PumpRetirements(g, mem), mem) ELSE g
      BY <2>2 DEF TaskEnds
    <3> QED
      BY <2>2, <3>1, <3>2 DEF TaskEnds
  <2>3. CASE RetirementEnds(i)
    <3> DEFINE g == Freed([host EXCEPT !.ret[i] = "none"], i)
    <3>1. Keyed(g)
      BY <2>1, FreedKeyed
    <3>2. host' = IF Serving THEN PumpRetirements(Pump(g, mem), mem) ELSE g
      BY <2>3 DEF RetirementEnds
    <3> QED
      BY <2>3, <3>1, <3>2 DEF RetirementEnds
  <2> QED
    BY <2>2, <2>3
<1>2. LedgerIdle /\ phase' = phase /\ host.call[i] = "none"
  BY DEF TaskEnds, RetirementEnds, InMemory
<1>3. /\ Shaped(g) /\ Lanes(g) /\ g.visible = host.visible /\ Early(phase, g)
      /\ \A j \in Ids \ issued : Unborn(g, j)
      /\ status # "closed" => Ready(g)
  BY <1>1, <1>2, FreedReady
<1>4. CASE status = "closed"
  <2>1. host' = g
    BY <1>1, <1>4 DEF Control, Serving
  <2> QED
    BY <1>2, <1>3, <1>4, <2>1, IdleControl
<1>5. CASE status # "closed"
  <2>1. /\ Ready(Pump(g, mem)) /\ Ready(PumpRetirements(g, mem))
    BY <1>3, <1>5, PumpReady
  <2>2. Ready(Pump(PumpRetirements(g, mem), mem)) /\ Ready(PumpRetirements(Pump(g, mem), mem))
    BY <1>5, <2>1, PumpReady
  <2>3. Ready(host')
    BY <1>1, <1>3, <1>5, <2>2
  <2> QED
    BY <1>2, <1>5, <2>3, ReadyControl
<1> QED
  BY <1>4, <1>5

\* What is known of a launch that is owned or retiring and has no retirement.
LEMMA Retirable ==
  ASSUME Control, NEW i \in Ids, status # "closed",
         mem.rec[i].state \in {"owned", "retiring"}, host.ret[i] = "none",
         host.late[i] # "rolling"
  PROVE  /\ i \notin Elems(host.queue) /\ i \notin Elems(host.retq)
         /\ host.task[i] \in {"call"} \cup Answers => Op(writer, i) = "settle"
         /\ host.task[i] # "mark" /\ host.call[i] \notin {"release", "retire"}
         /\ Op(writer, i) \in {"nobody", "settle"}
         /\ mem.rec[i].state = "retiring" => Op(writer, i) = "nobody"
         /\ i \in issued
<1>1. IdleFor(i)
  BY IdleFacts
<1>2. /\ Op(writer, i) \in {"nobody", "settle"}
      /\ mem.rec[i].state = "retiring" => Op(writer, i) = "nobody"
  <2>1. CASE status = "writing"
    <3>1. Change(undo, mem, writer, i)
      BY <2>1 DEF Control
    <3>2. Op(writer, i) \notin {"begin", "cancel", "complete", "rollback"}
      BY <1>1, <2>1 DEF IdleFor, Retires
    <3> QED
      BY <3>1, <3>2 DEF Change, Answers
  <2>2. CASE status # "writing"
    BY <1>1, <2>2 DEF IdleFor, Op, Nobody
  <2> QED
    BY <2>1, <2>2
<1>3. i \notin Elems(host.queue) /\ i \notin Elems(host.retq)
  BY <1>1 DEF IdleFor, Waits
<1>4. /\ host.task[i] # "mark" /\ host.call[i] \notin {"release", "retire"}
      /\ host.task[i] \in {"call"} \cup Answers => Op(writer, i) = "settle"
  BY <1>1, <1>2 DEF IdleFor, Tasked, Laned
<1>5. i \in issued
  BY DEF Control, IInv, Fit, Mentioned, Recorded
<1> QED
  BY <1>2, <1>3, <1>4, <1>5

\* What is appended to the queue of retirements.
LEMMA RetirementQueued ==
  ASSUME Control, NEW i \in Ids, NEW k \in Keys, Up,
         mem.rec[i].state \in {"owned", "retiring"}, host.ret[i] = "none",
         host.late[i] # "rolling", NEW g,
         g = [host EXCEPT !.retq = Append(@, i), !.ret[i] = "queued", !.key[i] = k,
                          !.recovered[i] = (mem.rec[i].state = "retiring"),
                          !.seen[i] = "none"]
  PROVE  Ready(g)
<1> DEFINE q == Append(host.retq, i)
<1>1. status # "closed" /\ phase = "up" /\ Shaped(host) /\ Once(host.retq)
  BY DEF Control, Up, Lanes
<1>2. /\ i \notin Elems(host.queue) /\ i \notin Elems(host.retq)
      /\ host.task[i] \in {"call"} \cup Answers => Op(writer, i) = "settle"
      /\ host.task[i] # "mark" /\ host.call[i] \notin {"release", "retire"}
      /\ Op(writer, i) \in {"nobody", "settle"}
      /\ mem.rec[i].state = "retiring" => Op(writer, i) = "nobody"
      /\ i \in issued
  BY <1>1, Retirable
<1>3. /\ host.retq \in Seq(Ids) /\ host = [f \in Fields |-> host[f]]
      /\ host.ret = [j \in Ids |-> host.ret[j]] /\ host.key = [j \in Ids |-> host.key[j]]
      /\ host.recovered = [j \in Ids |-> host.recovered[j]]
      /\ host.seen = [j \in Ids |-> host.seen[j]]
  BY <1>1 DEF Shaped, Keyed
<1>4. /\ g.retq = q /\ g.queue = host.queue /\ g.task = host.task
      /\ g.call = host.call /\ g.late = host.late /\ g.lane = host.lane
      /\ g.preparing = host.preparing /\ g.visible = host.visible
      /\ g.waiting = host.waiting /\ g = [f \in Fields |-> g[f]]
      /\ g.ret = [host.ret EXCEPT ![i] = "queued"]
      /\ g.key = [host.key EXCEPT ![i] = k]
      /\ g.recovered = [host.recovered EXCEPT ![i] = (mem.rec[i].state = "retiring")]
      /\ g.seen = [host.seen EXCEPT ![i] = "none"]
  BY <1>3 DEF Fields
<1>5. q \in Seq(Ids) /\ Elems(q) = Elems(host.retq) \cup {i} /\ Once(q)
  BY <1>1, <1>2, <1>3, Appended
<1> HIDE DEF q
<1>6. Keyed(g)
  <2>1. Keyed(host)
    BY <1>1 DEF Shaped
  <2>2. /\ g.waiting \in [Keys -> Requests \cup {NoRequest}]
        /\ g.key \in [Ids -> Keys \cup {NoKey}] /\ g.ret \in [Ids -> RetirePc]
    BY <1>4, <2>1 DEF Keyed, RetirePc
  <2>3. ASSUME NEW j \in Ids, g.ret[j] \in {"queued", "prepare", "begin"}
        PROVE  g.key[j] \in Keys
    BY <1>3, <1>4, <2>1, <2>3 DEF Keyed
  <2> QED
    BY <1>4, <2>2, <2>3 DEF Keyed
<1>7. Shaped(g)
  BY SMTT(30), <1>1, <1>4, <1>5, <1>6 DEF Shaped
<1>8. /\ \A j \in Ids \ {i} : /\ g.ret[j] = host.ret[j] /\ g.recovered[j] = host.recovered[j]
                              /\ g.seen[j] = host.seen[j]
      /\ g.ret[i] = "queued" /\ g.recovered[i] = (mem.rec[i].state = "retiring")
      /\ g.seen[i] = "none"
  BY <1>3, <1>4
<1>9. Lanes(g)
  <2>1. ASSUME NEW j \in Ids PROVE Laned(g, j)
    <3>1. Laned(host, j)
      BY DEF Control, Lanes
    <3>2. CASE j = i
      BY <1>2, <1>4, <1>8, <3>1, <3>2 DEF Laned, Holds
    <3>3. CASE j # i
      BY <1>4, <1>8, <3>1, <3>3 DEF Laned, Holds
    <3> QED
      BY <3>2, <3>3
  <2> QED
    BY ZenonT(60), <1>4, <1>5, <2>1 DEF Control, Lanes, HeldLanes
<1>10. ASSUME NEW j \in Ids PROVE Tends(g, mem, writer, j)
  <2>1. Waits(host, mem, writer, j) /\ Tasked(host, mem, writer, j) /\ Retires(host, mem, writer, j)
    BY <1>1 DEF Control, Tended
  <2>2. j \in Elems(q) <=> j \in Elems(host.retq) \/ j = i
    BY <1>5
  <2>3. CASE j = i
    <3>1. Waits(g, mem, writer, j)
      BY <1>2, <1>4, <1>8, <2>3 DEF Waits
    <3>2. Tasked(g, mem, writer, j)
      BY <1>2, <1>4, <1>8, <2>1, <2>3 DEF Tasked
    <3>3. Retires(g, mem, writer, j)
      BY ZenonT(60), <1>2, <1>4, <1>8, <2>1, <2>3 DEF Retires
    <3> QED
      BY <3>1, <3>2, <3>3 DEF Tends
  <2>4. CASE j # i
    <3>1. Waits(g, mem, writer, j)
      BY ZenonT(60), <1>4, <1>8, <2>1, <2>2, <2>4 DEF Waits
    <3>2. Tasked(g, mem, writer, j)
      BY <1>4, <1>8, <2>1, <2>4 DEF Tasked
    <3>3. Retires(g, mem, writer, j)
      BY <1>4, <1>8, <2>1, <2>4 DEF Retires, Fenced, NotPreparing
    <3> QED
      BY <3>1, <3>2, <3>3 DEF Tends
  <2> QED
    BY <2>3, <2>4
<1>11. /\ \A d : Placed(host, d) => Placed(g, d)
       /\ \A j \in Ids \ issued : Unborn(g, j)
  BY <1>2, <1>4, <1>8 DEF Placed, Control, Unborn, Holds, NotPreparing
<1>12. Kept(g, mem, writer)
  BY <1>1, <1>7, <1>9, <1>10, <1>11 DEF Kept, Tended, Tends, Control
<1>13. Early(phase, g)
  BY <1>1 DEF Early
<1>14. Serving => g.visible = InState(Current, {"owned"})
  BY <1>4 DEF Control
<1> QED
  BY <1>11, <1>12, <1>13, <1>14 DEF Ready, Control

\* retire(), and the end of start().
LEMMA PumpSteps ==
  ASSUME Control, IInv', StartEnds \/ \E i \in Ids : \E k \in RetireKeys[i] : Retire(i, k)
  PROVE  Control'
<1>1. CASE \E i \in Ids : \E k \in RetireKeys[i] : Retire(i, k)
  <2>1. PICK i \in Ids : \E k \in RetireKeys[i] : Retire(i, k)
    BY <1>1
  <2>2. PICK k \in RetireKeys[i] : Retire(i, k)
    BY <2>1
  <2> DEFINE g == [host EXCEPT !.retq = Append(@, i), !.ret[i] = "queued", !.key[i] = k,
                               !.recovered[i] = (mem.rec[i].state = "retiring"),
                               !.seen[i] = "none"]
  <2>3. /\ k \in Keys /\ Up /\ mem.rec[i].state \in {"owned", "retiring"}
        /\ host.ret[i] = "none" /\ host.late[i] # "rolling"
        /\ host' = PumpRetirements(g, mem) /\ LedgerIdle /\ phase' = phase
        /\ status # "closed"
    BY <2>2, CoordinatorAssumption DEF Retire, InMemory, Control, Up
  <2>4. Ready(g)
    BY <2>3, RetirementQueued
  <2> HIDE DEF g
  <2>5. Ready(host')
    BY <2>3, <2>4, PumpReady
  <2> QED
    BY <2>3, <2>5, ReadyControl
<1>2. CASE StartEnds
  <2>1. /\ phase = "starting" /\ phase' = "up" /\ writer.op # "interrupt"
        /\ host' = PumpCleanup(Pump(host, mem)) /\ LedgerIdle /\ status # "closed"
    BY <1>2 DEF StartEnds, Control
  <2>2. Ready(host)
    BY <2>1 DEF Control, Ready, Kept
  <2>3. Ready(host')
    BY <2>1, <2>2, PumpReady
  <2>4. /\ Shaped(host') /\ Lanes(host') /\ Tended(host', mem, writer) /\ Placed(host', mem)
        /\ status = "writing" => Placed(host', undo)
        /\ \A i \in Ids \ issued : Unborn(host', i)
        /\ host'.visible = InState(Current, {"owned"})
    BY <2>1, <2>3 DEF Ready, Kept, Serving
  <2>5. /\ UNCHANGED <<status, mem, undo, issued, writer>>
    BY <2>1 DEF LedgerIdle, ledgerVars
  <2>6. (status = "closed") <=> phase' \in {"down", "closed"}
    BY <2>1
  <2>7. Early(phase', host')
    BY <2>1 DEF Early
  <2>8. Current' = Current
    BY <2>5 DEF Current
  <2>9. /\ (status # "writing") <=> (writer = Nobody)
        /\ status = "writing" => writer.id \in Ids /\ \A i \in Ids : Change(undo, mem, writer, i)
    BY DEF Control
  <2> QED
    BY <2>1, <2>4, <2>5, <2>6, <2>7, <2>8, <2>9, SMTT(30)
    DEF Control, InState, Tended, Placed, Change, Waits, Tasked, Retires, Fenced, Of, Op
<1> QED
  BY <1>1, <1>2

-----------------------------------------------------------------------------
(* The process: its start, its stop, its end.                               *)

\* A process that has just begun knows nothing.
LEMMA IdleMemory ==
  /\ Shaped(Idle) /\ Lanes(Idle) /\ \A i \in Ids : Unborn(Idle, i)
  /\ \A p : Early(p, Idle)
<1>1. Shaped(Idle)
  BY IdleKeyed DEF Shaped, Idle
<1>2. HeldLanes(Idle) = {} /\ Once(<<>>)
  BY DEF HeldLanes, Idle, Once
<1>3. IsFiniteSet({}) /\ Cardinality({}) = 0
  BY FS_EmptySet
<1>4. Lanes(Idle)
  <2>1. \A i \in Ids : Laned(Idle, i)
    BY DEF Laned, Idle
  <2>2. Idle.queue = <<>> /\ Idle.retq = <<>>
    BY DEF Idle
  <2> QED
    BY <1>2, <1>3, <2>1, <2>2, CoordinatorAssumption DEF Lanes
<1>5. \A i \in Ids : Unborn(Idle, i)
  BY CoordinatorAssumption DEF Unborn, Holds, NotPreparing, Idle
<1>6. \A p : Early(p, Idle)
  BY DEF Early, Idle
<1> QED
  BY <1>1, <1>4, <1>5, <1>6

\* The process is gone, and the lease with it.
LEMMA DownControl ==
  ASSUME IInv', status' = "closed", phase' = "down", host' = Idle, writer' = Nobody
  PROVE  Control'
  BY IdleMemory DEF Control, Serving, Nobody

\* The process dies, fails to start, or ends after stop().
LEMMA ProcessEnding ==
  ASSUME Control, IInv', Dies \/ Exits \/ \E i \in Ids : InterruptFails(i)
  PROVE  Control'
<1>1. CASE Dies \/ \E i \in Ids : InterruptFails(i)
  BY <1>1, DownControl DEF Dies, InterruptFails, Ends, ProcessEnds, Crash
<1>2. CASE Exits
  <2>1. status' = "closed" /\ writer' = Nobody
    BY <1>2 DEF Exits, LedgerIdle, ledgerVars, Control
  <2> QED
    BY <1>2, <2>1, DownControl DEF Exits
<1> QED
  BY <1>1, <1>2

\* start() fails in the migration of the file: the process has not begun.
LEMMA StartFailing ==
  ASSUME Control, IInv', StartFails
  PROVE  Control'
<1>1. status = "closed" /\ status' = "closed"
      /\ UNCHANGED <<mem, undo, issued, phase, host, writer>>
  BY DEF StartFails, OpenFailsMigrated
<1> QED
  BY <1>1 DEF Control, Serving, Current

\* stop() closes the ledger once everything is decided.
LEMMA Releasing ==
  ASSUME Control, IInv', Released
  PROVE  Control'
<1>1. /\ status = "open" /\ status' = "closed" /\ issued' = issued
      /\ phase' = "closed" /\ writer' = writer
  BY DEF Released, Close
<1>2. /\ Keyed(host') /\ host'.queue = host.queue /\ host'.retq = host.retq
      /\ host'.task = host.task /\ host'.ret = host.ret /\ host'.call = host.call
      /\ host'.recovered = host.recovered /\ host'.seen = host.seen
      /\ host'.late = Idle.late
      /\ host'.lane = host.lane /\ host'.preparing = host.preparing
  BY OperatorKeyed DEF Control, Shaped, Released, Keyed, Fields
<1>3. Shaped(host')
  BY <1>2 DEF Control, Shaped, Idle
<1>4. Lanes(host')
  BY <1>2 DEF Control, Lanes, HeldLanes, Laned, Holds
<1>5. \A i \in Ids \ issued : Unborn(host', i)
  BY <1>2 DEF Control, Unborn, Holds, NotPreparing, Idle
<1>6. writer = Nobody /\ Nobody.op # "interrupt"
  BY <1>1 DEF Control, Nobody
<1>7. Early(phase', host')
  BY <1>1 DEF Early
<1> QED
  BY <1>1, <1>3, <1>4, <1>5, <1>6, <1>7 DEF Control, Serving

\* stop(): the queued retirements are rejected, everything else goes on.
LEMMA Stopping ==
  ASSUME Control, IInv', Stop
  PROVE  Control'
<1>1. /\ phase = "up" /\ phase' = "draining" /\ LedgerIdle /\ status # "closed"
      /\ UNCHANGED <<status, mem, undo, issued, writer>>
  BY DEF Stop, Up, LedgerIdle, ledgerVars, Control
<1>2. /\ Keyed(host') /\ host'.queue = <<>> /\ host'.retq = <<>>
      /\ host'.task = host.task /\ host'.call = host.call
      /\ host'.recovered = host.recovered /\ host'.seen = host.seen
      /\ host'.late = host.late /\ host'.lane = host.lane
      /\ host'.preparing = host.preparing /\ host'.visible = host.visible
      /\ \A i \in Ids : host'.ret[i] = IF host.ret[i] = "queued" THEN "none" ELSE host.ret[i]
  BY OperatorKeyed DEF Control, Shaped, Stop, Keyed, Fields
<1>3. Once(<<>>) /\ Elems(<<>>) = {}
  BY DEF Once, Elems
<1>4. Shaped(host')
  BY <1>2 DEF Control, Shaped
<1>5. Lanes(host')
  <2>1. \A i \in Ids : Laned(host', i)
    BY <1>2 DEF Control, Lanes, Laned, Holds
  <2> QED
    BY <1>2, <1>3, <2>1 DEF Control, Lanes, HeldLanes
<1>6. ASSUME NEW i \in Ids PROVE Tends(host', mem, writer, i)
  <2>1. Waits(host, mem, writer, i) /\ Tasked(host, mem, writer, i) /\ Retires(host, mem, writer, i)
    BY <1>1 DEF Control, Tended
  <2>2. Waits(host', mem, writer, i)
    BY <1>2, <1>3 DEF Waits
  <2>3. Tasked(host', mem, writer, i)
    BY <1>2, <2>1 DEF Tasked
  <2>4. Retires(host', mem, writer, i)
    BY <1>2, <2>1 DEF Retires, Fenced, NotPreparing
  <2> QED
    BY <2>2, <2>3, <2>4 DEF Tends
<1>7. Placed(host', mem) /\ (status = "writing" => Placed(host', undo))
  BY <1>1, <1>2 DEF Control, Placed
<1>8. \A i \in Ids \ issued : Unborn(host', i)
  BY <1>2 DEF Control, Unborn, Holds, NotPreparing
<1>9. Tended(host', mem, writer)
  BY <1>6 DEF Tended, Tends
<1>10. Early(phase', host') /\ ~Serving'
  BY <1>1 DEF Early, Serving
<1>11. /\ (status # "writing") <=> (writer = Nobody)
       /\ writer.op # "interrupt"
       /\ status = "writing" => writer.id \in Ids /\ \A i \in Ids : Change(undo, mem, writer, i)
  BY <1>1 DEF Control
<1> QED
  BY <1>1, <1>4, <1>5, <1>7, <1>8, <1>9, <1>10, <1>11, SMTT(30)
  DEF Control, Tended, Placed, Change, Waits, Tasked, Retires, Fenced, Of, Op

\* What start() queues is in some order, each launch once.
LEMMA FreshQueue ==
  ASSUME NEW S \in SUBSET Ids, NEW q \in Fresh(S)
  PROVE  q \in Seq(Ids) /\ Once(q) /\ Elems(q) \subseteq S
<1>1. Cardinality(S) \in Nat
  BY Counted
<1>2. q \in [1..Cardinality(S) -> S] /\ \A m, n \in DOMAIN q : m # n => q[m] # q[n]
  BY DEF Fresh
<1>3. q \in Seq(Ids)
  BY <1>1, <1>2
<1> QED
  BY <1>2, <1>3 DEF Once, Elems

\* What start() has loaded, before the pumps.
LEMMA LoadedKept ==
  ASSUME NEW d \in Document, RecordsCoherent(d), NEW cq,
         NEW q \in Fresh(InState(d, {"requested", "uncertain"})),
         NEW r \in Fresh(InState(d, {"retiring"})), NEW h, h = Loaded(d, cq, q, r)
  PROVE  /\ Kept(h, d, Nobody) /\ Early("starting", h)
         /\ h.visible = InState(d, {"owned"})
         /\ \A i \in Ids : d.rec[i].state = "absent" => Unborn(h, i)
<1>1. Keyed(h)
  BY LoadedKeyed
<1>2. /\ h.queue = q /\ h.retq = r /\ h.visible = InState(d, {"owned"})
      /\ h.task = Idle.task /\ h.call = Idle.call /\ h.seen = Idle.seen
      /\ h.late = Idle.late /\ h.lane = Idle.lane /\ h.preparing = Idle.preparing
      /\ h.ret = [i \in Ids |-> IF i \in InState(d, {"retiring"}) THEN "queued" ELSE "none"]
      /\ h.recovered = [i \in Ids |-> i \in InState(d, {"retiring"})]
  BY DEF Loaded, Idle
<1>3. /\ q \in Seq(Ids) /\ Once(q) /\ Elems(q) \subseteq InState(d, {"requested", "uncertain"})
      /\ r \in Seq(Ids) /\ Once(r) /\ Elems(r) \subseteq InState(d, {"retiring"})
  BY FreshQueue DEF InState
<1>4. Shaped(h)
  BY <1>1, <1>2, <1>3 DEF Shaped, Idle
<1>5. Lanes(h)
  <2>1. HeldLanes(h) = HeldLanes(Idle)
    BY <1>2 DEF HeldLanes
  <2>2. \A i \in Ids : Laned(h, i)
    BY <1>2 DEF Laned, Idle
  <2> QED
    BY <1>2, <1>3, <2>1, <2>2, IdleMemory DEF Lanes
<1>6. \A i \in Ids : ~Holds(h, i) /\ NotPreparing(h, i)
  BY <1>2, CoordinatorAssumption DEF Holds, NotPreparing, Idle
<1>7. ASSUME NEW i \in Ids PROVE Tends(h, d, Nobody, i)
  <2>1. Op(Nobody, i) = "nobody"
    BY DEF Op, Nobody
  <2>2. /\ h.task[i] = "none" /\ h.call[i] = "none" /\ h.late[i] = "none"
        /\ h.ret[i] = IF d.rec[i].state = "retiring" THEN "queued" ELSE "none"
        /\ h.recovered[i] => d.rec[i].state = "retiring"
    <3>1. h.task[i] = "none" /\ h.call[i] = "none" /\ h.late[i] = "none"
      BY <1>2 DEF Idle
    <3>2. i \in InState(d, {"retiring"}) <=> d.rec[i].state = "retiring"
      BY DEF InState
    <3>3. h.recovered[i] = (i \in InState(d, {"retiring"}))
      BY <1>2
    <3>4. h.ret[i] = IF i \in InState(d, {"retiring"}) THEN "queued" ELSE "none"
      BY <1>2
    <3> QED
      BY <3>1, <3>2, <3>3, <3>4
  <2>3. Waits(h, d, Nobody, i)
    BY <1>2, <1>3, <2>1, <2>2 DEF Waits, InState
  <2>4. Tasked(h, d, Nobody, i)
    BY <2>1, <2>2 DEF Tasked, Answers
  <2>5. Retires(h, d, Nobody, i)
    BY <2>1, <2>2 DEF Retires
  <2> QED
    BY <2>3, <2>4, <2>5 DEF Tends
<1>8. Placed(h, d)
  BY <1>6 DEF Placed, Holds, NotPreparing
<1>9. \A i \in Ids : d.rec[i].state = "absent" => Unborn(h, i)
  BY <1>2, <1>6 DEF Unborn, Idle, InState
<1>10. Early("starting", h)
  BY <1>2 DEF Early
<1> QED
  BY <1>2, <1>4, <1>5, <1>7, <1>8, <1>9, <1>10 DEF Kept, Tended, Tends

\* start(), up to its writes.
LEMMA StartControl ==
  ASSUME Control, IInv', Start
  PROVE  Control'
<1>1. /\ status = "closed" /\ status' = "open" /\ phase' = "starting" /\ writer' = Nobody
      /\ issued' = issued /\ mem' \in Document /\ RecordsCoherent(mem')
  BY DEF Start, Open, Control, IInv, Fit, Sound
<1>2. PICK d, cq, q, r :
        /\ d = mem'
        /\ q \in Fresh(InState(d, {"requested", "uncertain"}))
        /\ r \in Fresh(InState(d, {"retiring"}))
        /\ host' = PumpCleanup(PumpRetirements(Loaded(d, cq, q, r), d))
  BY DEF Start
<1> DEFINE h == Loaded(d, cq, q, r)  g == PumpRetirements(h, d)
<1>3. /\ Kept(h, d, Nobody) /\ Early("starting", h)
      /\ h.visible = InState(d, {"owned"})
      /\ \A i \in Ids : d.rec[i].state = "absent" => Unborn(h, i)
      /\ RecordsCoherent(d)
  <2>1. d \in Document /\ RecordsCoherent(d)
    BY <1>1, <1>2
  <2> QED
    BY <1>2, <2>1, LoadedKept
<1>4. host' = PumpCleanup(g)
  BY <1>2
<1> HIDE DEF h
<1>5. /\ Kept(g, d, Nobody) /\ g.visible \subseteq h.visible
      /\ \A i \in Ids : i \in h.visible => i \in g.visible \/ d.rec[i].state = "retiring"
      /\ g.recovered = h.recovered
      /\ \A i \in Ids : h.ret[i] = "none" => g.ret[i] = "none"
      /\ \A i \in Ids : Unborn(h, i) => Unborn(g, i)
  BY <1>3, PumpRetirementsKept
<1> HIDE DEF g
<1>6. g.visible = InState(d, {"owned"})
  BY <1>3, <1>5 DEF InState
<1>7. Same(g, host')
  BY <1>4, <1>5, CleanupSame DEF Kept
<1>8. Kept(host', d, Nobody) /\ \A i \in Ids : Unborn(g, i) => Unborn(host', i)
  BY <1>5, <1>7, SameKept
<1>9. \A i \in Ids \ issued : Unborn(host', i)
  <2>1. \A i \in Ids \ issued : mem'.rec[i].state = "absent"
    BY <1>1 DEF IInv, Fit, Mentioned, Recorded
  <2> QED
    BY <1>2, <1>3, <1>5, <1>8, <2>1
<1>10. Early(phase', host')
  BY <1>1, <1>3, <1>5, <1>7 DEF Early, Same
<1>11. host'.visible = InState(mem', {"owned"})
  BY <1>2, <1>6, <1>7 DEF Same
<1>12. Nobody.op # "interrupt"
  BY DEF Nobody
<1> QED
  BY <1>1, <1>2, <1>8, <1>9, <1>10, <1>11, <1>12 DEF Control, Kept, Current

-----------------------------------------------------------------------------
(* Every step.                                                              *)

\* Every step of the coordinator keeps Control.
LEMMA ControlStep == Control /\ [CoordinatorNext]_coordinatorVars => Control'
<1> SUFFICES ASSUME Control, [CoordinatorNext]_coordinatorVars PROVE Control'
  OBVIOUS
<1>1. IInv /\ Keyed(host)
  BY DEF Control, Shaped
<1>2. IInv' /\ Keyed(host')
  BY <1>1, CoordinatorStep, NextInv
<1>3. CASE UNCHANGED coordinatorVars
  <2>1. /\ UNCHANGED <<status, mem, undo, issued, phase, host, writer>>
    BY <1>3 DEF coordinatorVars, ledgerVars
  <2>2. Current' = Current
    BY <2>1 DEF Current
  <2> QED
    BY <1>2, <2>1, <2>2 DEF Control, Serving
<1>4. CASE Clients
  BY <1>2, <1>4, SameSteps, PumpSteps DEF Clients
<1>5. CASE Operator
  BY <1>2, <1>5, StartFailing, Stopping, ProcessEnding DEF Operator
<1>6. CASE Start \/ Starting \/ Admission \/ Released
  <2>1. CASE Start
    BY <1>2, <2>1, StartControl
  <2>2. CASE Starting
    BY <1>2, <2>2, CreationTurns, QueueEnds, ProcessEnding, PumpSteps DEF Starting
  <2>3. CASE Admission
    BY <1>2, <2>3, AdmissionTurn, SameSteps, QueueEnds, CleanupEnds DEF Admission
  <2>4. CASE Released
    BY <1>2, <2>4, Releasing
  <2> QED
    BY <1>6, <2>1, <2>2, <2>3, <2>4
<1>7. ASSUME NEW i \in Ids, Creation(i) PROVE Control'
  BY <1>2, <1>7, CreationTurns, CreationEnds, TaskSteps, LaneEnds DEF Creation
<1>8. ASSUME NEW i \in Ids, Retirement(i) PROVE Control'
  BY <1>2, <1>8, RetirementTurns, BeginEnds, FinishEnds, OverSteps, OnwardSteps, LaneEnds
  DEF Retirement
<1>9. ASSUME NEW i \in Ids, Cleanup(i) PROVE Control'
  BY <1>2, <1>9, CleanupTurn, CleanupEnds, SameSteps DEF Cleanup
<1>10. ASSUME NEW p \in Providers, Settles(p) PROVE Control'
  BY <1>2, <1>10, PreparationStep, TaskSteps, ReleaseStep, RetireStep DEF Settles
<1> QED
  BY <1>3, <1>4, <1>5, <1>6, <1>7, <1>8, <1>9, <1>10 DEF CoordinatorNext, Internal

\* Control holds before the first process starts.
LEMMA ControlInit == CoordinatorInit => Control
<1> SUFFICES ASSUME CoordinatorInit PROVE Control
  OBVIOUS
<1>1. IInv
  BY InitInv DEF CoordinatorInit
<1>2. status = "closed" /\ phase = "down" /\ host = Idle /\ writer = Nobody
  BY DEF CoordinatorInit, Init
<1> QED
  BY <1>1, <1>2, IdleMemory DEF Control, Serving, Nobody

\* What the coordinator keeps true whatever clients, provider, disk and
\* process do: who works for a launch, with which lane, and what it may assume.
THEOREM ControlInvariant == CoordinatorSpec => []Control
  BY ControlInit, ControlStep, PTL DEF CoordinatorSpec

\* A document is decoded with the records it has.
LEMMA DecodedRecords == \A f : Decoded(f).rec = f.rec
  BY DEF Decoded

\* A call to the provider keeps its provider's only lane until its promise
\* settles, and no more lanes are held than MAX_ACTIVE_GLOBAL.
THEOREM LanesHeld == CoordinatorSpec => []CallsHoldLanes
<1>1. Control => CallsHoldLanes
  BY DEF Control, Lanes, Laned, Holds, CallsHoldLanes
<1> QED
  BY <1>1, ControlInvariant, PTL

\* A record that is being deleted is durably retiring.
LEMMA DeletingRecorded ==
  ASSUME Control, NEW i \in Ids, host.call[i] = "retire", status # "closed"
  PROVE  /\ mem.rec[i].state = "retiring" /\ Op(writer, i) = "nobody"
         /\ ~ahead => disk.rec[i].state = "retiring"
<1>1. Fenced(host, mem, writer, i)
  BY DEF Control, Tended, Retires
<1>2. status = "writing" => undo.rec[i] = mem.rec[i]
  BY <1>1 DEF Control, Change, Fenced
<1>3. ~ahead => Decoded(disk) \in {mem, undo} /\ (status = "open" => Decoded(disk) = mem)
  BY DEF Control, IInv, TypeOK
<1>4. status \in {"open", "writing"}
  BY DEF Control, IInv, TypeOK
<1>5. ~ahead => disk.rec[i] = mem.rec[i]
  BY <1>2, <1>3, <1>4, DecodedRecords
<1> QED
  BY <1>1, <1>5 DEF Fenced

\* While an agent is being deleted it is hidden from discovery, and its
\* retirement is in the ledger and in the file.
THEOREM DeletionFenced == CoordinatorSpec => []DeletesFenced
<1>1. Control => DeletesFenced
  <2> SUFFICES ASSUME Control, NEW i \in Ids, host.call[i] = "retire", status # "closed"
               PROVE  /\ i \notin host.visible
                      /\ mem.rec[i].state = "retiring"
                      /\ ~ahead => disk.rec[i].state = "retiring"
    BY DEF DeletesFenced
  <2>1. Fenced(host, mem, writer, i)
    BY DEF Control, Tended, Retires
  <2> QED
    BY <2>1, DeletingRecorded DEF Fenced
<1> QED
  BY <1>1, ControlInvariant, PTL

\* Between mutations the registry discovers the agents of the owned launches
\* and no others.
THEOREM DiscoveryExact == CoordinatorSpec => []VisibleIsOwned
<1>1. Control => VisibleIsOwned
  BY DEF Control, Current, Serving, Up, VisibleIsOwned
<1> QED
  BY <1>1, ControlInvariant, PTL

-----------------------------------------------------------------------------
(* The provider is asked at most once.                                      *)

\* A launch the provider was asked to create is drawn, and neither the Maps,
\* nor what they fall back to, nor the file say any more that it was not.
Past(i) ==
  /\ i \in issued
  /\ mem.rec[i].state # "requested" /\ undo.rec[i].state # "requested"
  /\ disk.rec[i].state # "requested"
Asked ==
  /\ launches = [i \in Ids |-> launches[i]]
  /\ \A i \in Ids : launches[i] = 0 \/ (launches[i] = 1 /\ Past(i))

\* Only a mutation of another launch, never of one that is past its request,
\* makes a record "requested" again.
LEMMA PastKept ==
  ASSUME IInv, [Next]_vars, NEW i \in Ids, Past(i) PROVE Past(i)'
<1>0. /\ mem.rec = [j \in Ids |-> mem.rec[j]] /\ undo.rec = [j \in Ids |-> undo.rec[j]]
      /\ Empty.rec[i].state # "requested"
      /\ \A f : Decoded(f).rec = f.rec
      /\ \A d, c : Encoded(d, c).rec = d.rec
      /\ mem = [rec |-> mem.rec, tombs |-> mem.tombs, cleanups |-> mem.cleanups]
  BY DEF IInv, TypeOK, Document, Empty, Absent, Decoded, Encoded
<1>1. CASE UNCHANGED vars
  BY <1>1 DEF vars, Past
<1>2. CASE Open
  BY <1>0, <1>2 DEF Open, Past
<1>3. CASE OpenFailsMigrated
  BY <1>0, <1>3 DEF OpenFailsMigrated, Past
<1>4. CASE Close \/ Crash
  BY <1>0, <1>4 DEF Close, Crash, Forgotten, Past
<1>5. CASE \E k \in Keys, r \in Requests : Reserve(k, r)
  <2>1. PICK k \in Keys, r \in Requests : Reserve(k, r)
    BY <1>5
  <2>2. PICK j \in Ids \ issued : Mutate(Reserved(mem, j, k, r)) /\ issued' = issued \cup {j}
    BY <2>1 DEF Reserve
  <2>3. Reserved(mem, j, k, r).rec[i] = mem.rec[i]
    BY <1>0, <2>2 DEF Reserved, Past
  <2> QED
    BY <2>2, <2>3 DEF Mutate, Past
<1>6. CASE \E j \in Ids : CoordinatorTransition(j)
  <2>1. PICK j \in Ids : CoordinatorTransition(j)
    BY <1>6
  <2>2. PICK from, to : /\ to \in {"creating", "uncertain", "owned", "failed"}
                        /\ Mutate(Transitioned(mem, j, from, to)) /\ UNCHANGED issued
    BY <2>1 DEF CoordinatorTransition, Transition, Settled
  <2>3. Transitioned(mem, j, from, to).rec[i].state # "requested"
    BY <1>0, <2>2 DEF Transitioned, Past
  <2> QED
    BY <2>2, <2>3 DEF Mutate, Past
<1>7. CASE \E j \in Ids, k \in Keys : BeginRetirement(j, k)
  <2>1. PICK j \in Ids, k \in Keys : BeginRetirement(j, k)
    BY <1>7
  <2>2. RetirementBegun(mem, j, k).rec[i].state # "requested"
    BY <1>0 DEF RetirementBegun, Past
  <2> QED
    BY <2>1, <2>2 DEF BeginRetirement, Mutate, Past
<1>8. CASE \E j \in Ids, scoped \in BOOLEAN : CompleteRetirement(j, scoped)
  <2>1. PICK j \in Ids, scoped \in BOOLEAN : CompleteRetirement(j, scoped)
    BY <1>8
  <2>2. RetirementCompleted(mem, j, scoped).rec[i].state # "requested"
    BY <1>0 DEF RetirementCompleted, Past, Absent
  <2> QED
    BY <2>1, <2>2 DEF CompleteRetirement, Mutate, Past
<1>9. CASE \E j \in Ids : CompleteRetirementCleanup(j)
  <2>1. PICK j \in Ids : CompleteRetirementCleanup(j)
    BY <1>9
  <2>2. CleanupCompleted(mem, j, compact).rec = mem.rec
    BY <1>0 DEF CleanupCompleted
  <2> QED
    BY <2>1, <2>2 DEF CompleteRetirementCleanup, Mutate, Past
<1>10. CASE \E j \in Ids : CancelRetirement(j)
  <2>1. PICK j \in Ids : CancelRetirement(j)
    BY <1>10
  <2>2. RetirementCanceled(mem, j).rec[i].state # "requested"
    BY <1>0 DEF RetirementCanceled, Past
  <2> QED
    BY <2>1, <2>2 DEF CancelRetirement, Mutate, Past
<1>11. CASE PersistOk
  BY <1>0, <1>11 DEF PersistOk, Past
<1>12. CASE PersistFails
  BY <1>0, <1>12 DEF PersistFails, Past
<1> QED
  BY <1>1, <1>2, <1>3, <1>4, <1>5, <1>6, <1>7, <1>8, <1>9, <1>10, <1>11, <1>12 DEF Next

\* The provider is asked to create a launch in one place.
LEMMA AskedOnlyMarked ==
  [CoordinatorNext]_coordinatorVars => UNCHANGED launches \/ \E i \in Ids : Marked(i)
<1> USE DEF InMemory, Turn
<1>1. CASE UNCHANGED coordinatorVars
  BY <1>1 DEF coordinatorVars
<1>2. ASSUME Clients PROVE UNCHANGED launches
  BY <1>2 DEF Clients, Submit, Retire
<1>3. ASSUME Operator PROVE UNCHANGED launches
  BY <1>3 DEF Operator, StartFails, Stop, Dies, Exits, ProcessEnds
<1>4. ASSUME Start \/ Starting \/ Admission \/ Released PROVE UNCHANGED launches
  BY <1>4 DEF Start, Starting, Interrupt, Interrupted, InterruptFails, ProcessEnds, StartEnds,
              Admission, SubmitTurn, SubmitRefused, Submitted, SubmitFails, Released
<1>5. ASSUME NEW i \in Ids, Creation(i), ~Marked(i) PROVE UNCHANGED launches
  BY <1>5 DEF Creation, MarkTurn, MarkFails, Deadline, SettleTurn, SettleWritten, SettleFails,
              TaskEnds
<1>6. ASSUME NEW i \in Ids, Retirement(i) PROVE UNCHANGED launches
  BY <1>6 DEF Retirement, PreparationDeadline, BeginTurn, BeginRefused, Begun, BeginFails,
              ReleaseDeadline, Refreshed, RefreshAborted, RetireDeadline, CancelTurn, Canceled,
              CompleteTurn, Completed, FinishFails, Republished, RetirementEnds, RollbackTurn,
              RolledBack, RollbackFails, RollbackEnds
<1>7. ASSUME NEW i \in Ids, Cleanup(i) PROVE UNCHANGED launches
  BY <1>7 DEF Cleanup, Finalized, RecordTurn, CleanupRecorded, RecordFails
<1>8. ASSUME NEW p \in Providers, Settles(p) PROVE UNCHANGED launches
  BY <1>8 DEF Settles, PreparationSettles, LaunchSettles, ReconcileSettles, ReleaseSettles,
              RetireSettles
<1> QED
  BY <1>1, <1>2, <1>3, <1>4, <1>5, <1>6, <1>7, <1>8 DEF CoordinatorNext, Internal

\* The record is durably creating when the provider is asked.
LEMMA AskedStep == Control /\ Asked /\ [CoordinatorNext]_coordinatorVars => Asked'
<1> SUFFICES ASSUME Control, Asked, [CoordinatorNext]_coordinatorVars PROVE Asked'
  OBVIOUS
<1>1. IInv /\ [Next]_vars
  BY CoordinatorStep DEF Control, Shaped
<1>2. \A j \in Ids : Past(j) => Past(j)'
  BY <1>1, PastKept
<1>3. CASE UNCHANGED launches
  BY <1>2, <1>3 DEF Asked
<1>4. CASE \E i \in Ids : Marked(i)
  <2>1. PICK i \in Ids : Marked(i)
    BY <1>4
  <2>2. /\ Ends("mark", i) /\ PersistOk
        /\ launches' = [launches EXCEPT ![i] = @ + 1]
    BY <2>1 DEF Marked, Written
  <2>3. Op(writer, i) = "mark" /\ status = "writing"
    BY <2>2 DEF Ends, Op, PersistOk
  <2>4. undo.rec[i].state = "requested" /\ mem.rec[i].state = "creating"
    BY <2>3 DEF Control, Change
  <2>5. i \in issued
    BY <2>3 DEF Control, Tended, Tasked, Unborn
  <2>6. launches[i] = 0
    BY <2>4 DEF Asked, Past
  <2>7. Past(i)'
    BY <2>2, <2>4, <2>5 DEF PersistOk, Past, Encoded, Empty, Absent
  <2> QED
    BY <1>2, <2>2, <2>6, <2>7 DEF Asked
<1> QED
  BY <1>3, <1>4, AskedOnlyMarked

\* However the process dies, restarts, times out or fails to write, the
\* provider is asked to create a launch at most once.
THEOREM AskedOnce == CoordinatorSpec => []CreateAtMostOnce
<1>1. CoordinatorInit => Asked
  BY DEF CoordinatorInit, Asked
<1>2. Asked => CreateAtMostOnce
  BY DEF Asked, CreateAtMostOnce
<1> QED
  BY <1>1, <1>2, AskedStep, ControlInvariant, PTL DEF CoordinatorSpec

-----------------------------------------------------------------------------
(* The agents.  What the coordinator holds to have failed has no agent and  *)
(* nobody works for it; what it may answer "owned" for, or give back to its *)
(* owner, is alive; what was deleted is still to be cleaned up.             *)

\* Nobody creates, reconciles or retires launch i.
Dead(h, i) ==
  /\ h.task[i] \in {"none", "failed", "lane"} /\ h.ret[i] = "none"
  /\ h.call[i] = "none" /\ i \notin Elems(h.queue)
Failing(i) == "failed" \in {mem.rec[i].state, disk.rec[i].state, host.task[i]}
Nothing(i) ==
  Failing(i) =>
    /\ agent[i] = "none" /\ Dead(host, i)
    /\ status # "closed" => mem.rec[i].state \in {"creating", "uncertain", "failed"}

\* What the memory says that only a live agent answers to: it was found, a
\* retirement has not come to its deletion, or is being taken back.
Alive(h, i) ==
  \/ h.task[i] = "owned" \/ h.ret[i] = "cancel" \/ h.late[i] = "rolling"
  \/ ~NotPreparing(h, i)
  \/ ~h.recovered[i] /\ h.ret[i] \in {"queued", "prepare", "begin", "refresh", "retire"}
Living(i) ==
  /\ disk.rec[i].state = "owned" => agent[i] = "live"
  /\ status # "closed" /\ (mem.rec[i].state = "owned" \/ Alive(host, i)) => agent[i] = "live"
  /\ host.call[i] = "retire" => disk.rec[i].state = "retiring"

\* What is left of a deleted agent is in the Maps and in the file, until the
\* provider has forgotten it.
Tracked(d, i) == d.rec[i].state = "retiring" \/ d.cleanups[i] # NoKey
Cleans(h, i) == i \in Elems(h.cleanQ) \/ h.cleaning = i
Remembered(i) ==
  /\ agent[i] = "gone" =>
       Tracked(Decoded(disk), i) /\ (status # "closed" => Tracked(mem, i))
  /\ status # "closed" /\ host.worker = "record" /\ host.cleaning = i => agent[i] # "gone"
  /\ status # "closed" /\ Cleans(host, i) =>
       /\ i \in issued /\ mem.rec[i].state = "absent"
       /\ Op(writer, i) \in {"nobody", "record"}

\* Nobody works once the ledger is closed, though answers are still awaited.
Rested(h) == \A i \in Ids : h.task[i] = "none" /\ h.ret[i] \in {"none", "over"}

\* A write that throws after its rename leaves a file that says "owned" of an
\* agent that is still to be deleted.
Agents ==
  /\ agent = [i \in Ids |-> agent[i]] /\ host.cleanQ \in Seq(Ids)
  /\ status = "closed" => Rested(host)
  /\ \A i \in Ids : Nothing(i)
  /\ ~AfterRename => ~ahead /\ \A i \in Ids : Living(i) /\ Remembered(i)

\* A memory whose queues are queues.
Queued(h) ==
  /\ Keyed(h) /\ h.queue \in Seq(Ids) /\ h.retq \in Seq(Ids) /\ h.cleanQ \in Seq(Ids)

\* A change of memory after which less is asked of the agents: nobody begins to
\* work for a dead launch, and nothing more is held to be alive or to be cleaned.
Spares(h, g, i) == Dead(h, i) => Dead(g, i)
Eases(h, g, i) ==
  /\ g.task[i] = "failed" => h.task[i] = "failed"
  /\ Alive(g, i) => Alive(h, i)
  /\ g.call[i] = "retire" => h.call[i] = "retire"
Cleaner(h, g, i) ==
  /\ Cleans(g, i) => Cleans(h, i)
  /\ g.worker = "record" /\ g.cleaning = i => h.worker = "record" /\ h.cleaning = i
Milder(h, g) ==
  Queued(g) /\ \A i \in Ids : Spares(h, g, i) /\ Eases(h, g, i) /\ Cleaner(h, g, i)

\* One such change after another.
LEMMA MilderStill ==
  ASSUME NEW f, NEW g, NEW h, Milder(f, g), Milder(g, h)
  PROVE  Milder(f, h)
  BY DEF Milder, Spares, Eases, Cleaner

\* #pump only works for what was queued.
LEMMA PumpMilder ==
  ASSUME NEW h, NEW d, Queued(h)
  PROVE  Milder(h, Pump(h, d))
<1> DEFINE g == Pump(h, d)
           S == Started(h, d, h.queue)
           create == {i \in S : d.rec[i].state = "requested"}
<1>1. Keyed(g) /\ h = [f \in Fields |-> h[f]]
  BY PumpKeyed DEF Queued, Keyed
<1>2. /\ g.queue = Without(h.queue, S)
      /\ g.task = [i \in Ids |-> IF i \in create THEN "mark"
                                 ELSE IF i \in S THEN "call" ELSE h.task[i]]
      /\ g.call = [i \in Ids |-> IF i \in S \ create THEN "reconcile" ELSE h.call[i]]
      /\ g.retq = h.retq /\ g.ret = h.ret /\ g.recovered = h.recovered
      /\ g.late = h.late /\ g.preparing = h.preparing
      /\ g.cleanQ = h.cleanQ /\ g.worker = h.worker /\ g.cleaning = h.cleaning
  BY <1>1 DEF Pump, Fields
<1>3. S \subseteq Elems(h.queue)
  BY StartedItems DEF Queued
<1>4. g.queue \in Seq(Ids) /\ Elems(g.queue) = Elems(h.queue) \ S
  <2>1. h.queue \in Seq(Ids) /\ g.queue = Without(h.queue, S)
    BY <1>2 DEF Queued
  <2> HIDE DEF g, S
  <2> QED
    BY <2>1, WithoutItems
<1> HIDE DEF g, S
<1>5. Queued(g)
  BY <1>1, <1>2, <1>4 DEF Queued
<1>6. ASSUME NEW i \in Ids PROVE Spares(h, g, i) /\ Eases(h, g, i) /\ Cleaner(h, g, i)
  <2>1. Dead(h, i) => Dead(g, i)
    BY <1>2, <1>3, <1>4 DEF Dead
  <2>2. Alive(g, i) => Alive(h, i)
    BY <1>2 DEF Alive, NotPreparing
  <2> QED
    BY <1>2, <2>1, <2>2 DEF Spares, Eases, Cleaner, Cleans
<1> QED
  BY <1>5, <1>6 DEF Milder, g

\* #pumpRetirements only works for what was queued to be retired.
LEMMA PumpRetirementsMilder ==
  ASSUME NEW h, NEW d, Queued(h)
  PROVE  Milder(h, PumpRetirements(h, d))
<1> DEFINE g == PumpRetirements(h, d)
           S == {i \in Started(h, d, h.retq) : h.ret[i] = "queued"}
           refused == {i \in S : h.preparing[Of(d, i)] # NoId}
           resumed == {i \in S \ refused : h.recovered[i]}
           fresh == S \ (refused \cup resumed)
<1>1. Keyed(g) /\ h = [f \in Fields |-> h[f]]
  BY PumpRetirementsKeyed DEF Queued, Keyed
<1>2. /\ g.retq = Without(h.retq, S)
      /\ g.ret = [i \in Ids |-> IF i \in refused THEN "over"
                                ELSE IF i \in resumed THEN "refresh"
                                ELSE IF i \in fresh THEN "prepare" ELSE h.ret[i]]
      /\ g.preparing = [p \in Providers |->
                          IF \E i \in fresh : Of(d, i) = p
                          THEN CHOOSE i \in fresh : Of(d, i) = p
                          ELSE h.preparing[p]]
      /\ g.queue = h.queue /\ g.task = h.task /\ g.recovered = h.recovered
      /\ g.late = h.late /\ g.call = h.call
      /\ g.cleanQ = h.cleanQ /\ g.worker = h.worker /\ g.cleaning = h.cleaning
  BY <1>1 DEF PumpRetirements, Fields
<1>3. g.retq \in Seq(Ids)
  <2>1. h.retq \in Seq(Ids) /\ g.retq = Without(h.retq, S)
    BY <1>2 DEF Queued
  <2> HIDE DEF g, S
  <2> QED
    BY <2>1, WithoutItems
<1>4. \A p \in Providers : g.preparing[p] = h.preparing[p] \/ g.preparing[p] \in fresh
  BY <1>2, SMTT(30)
<1>5. \A i \in S : h.ret[i] = "queued"
  OBVIOUS
<1>6. \A i \in fresh : h.ret[i] = "queued" /\ ~h.recovered[i]
  OBVIOUS
<1> HIDE DEF g
<1>7. Queued(g)
  BY <1>1, <1>2, <1>3 DEF Queued
<1>8. ASSUME NEW i \in Ids PROVE Spares(h, g, i) /\ Eases(h, g, i) /\ Cleaner(h, g, i)
  <2>1. Dead(h, i) => Dead(g, i)
    BY <1>2 DEF Dead
  <2>2. g.recovered[i] = h.recovered[i] /\ (~NotPreparing(g, i) => Alive(h, i))
    BY <1>2, <1>4, <1>6, SMTT(30) DEF Alive, NotPreparing
  <2>3. \/ g.ret[i] = h.ret[i] \/ g.ret[i] = "over"
        \/ g.ret[i] = "refresh" /\ h.recovered[i]
        \/ g.ret[i] = "prepare" /\ h.ret[i] = "queued" /\ ~h.recovered[i]
    BY <1>2, <1>6
  <2>4. Alive(g, i) => Alive(h, i)
    BY <1>2, <2>2, <2>3 DEF Alive
  <2> QED
    BY <1>2, <2>1, <2>4 DEF Spares, Eases, Cleaner, Cleans
<1> QED
  BY <1>7, <1>8 DEF Milder, g

\* A lane is given up.
LEMMA FreedMilder ==
  ASSUME NEW h, NEW i, Queued(h)
  PROVE  Milder(h, Freed(h, i))
<1> DEFINE g == Freed(h, i)
<1>1. Keyed(g) /\ h = [f \in Fields |-> h[f]]
  BY FreedKeyed DEF Queued, Keyed
<1>2. /\ g.queue = h.queue /\ g.retq = h.retq /\ g.task = h.task /\ g.ret = h.ret
      /\ g.call = h.call /\ g.recovered = h.recovered /\ g.late = h.late
      /\ g.preparing = h.preparing
      /\ g.cleanQ = h.cleanQ /\ g.worker = h.worker /\ g.cleaning = h.cleaning
  BY <1>1 DEF Freed, Fields
<1> HIDE DEF g
<1> QED
  BY <1>1, <1>2 DEF Milder, Queued, Spares, Eases, Cleaner, Dead, Alive, Cleans, NotPreparing, g

\* The worker takes what waited to be cleaned up, or rests.
LEMMA CleanupMilder ==
  ASSUME NEW h, Queued(h)
  PROVE  /\ Milder(h, NextCleanup(h)) /\ Milder(h, PumpCleanup(h))
         /\ Milder(h, LoopCleanup(h)) /\ Milder(h, PausedCleanup(h))
<1>1. /\ h = [f \in Fields |-> h[f]]
      /\ Keyed(NextCleanup(h)) /\ Keyed(LoopCleanup(h)) /\ Keyed(PausedCleanup(h))
  BY CleanupKeyed DEF Queued, Keyed
<1>2. ASSUME NEW g, Keyed(g), \A f \in Fields \ {"cleanQ", "worker", "cleaning", "paused"} : g[f] = h[f],
             g.cleanQ \in Seq(Ids), g.worker # "record",
             \A i \in Ids : Cleans(g, i) => Cleans(h, i)
      PROVE  Milder(h, g)
  <2>1. /\ g.queue = h.queue /\ g.retq = h.retq /\ g.task = h.task /\ g.ret = h.ret
        /\ g.call = h.call /\ g.recovered = h.recovered /\ g.late = h.late
        /\ g.preparing = h.preparing
    BY <1>2 DEF Fields
  <2> QED
    BY <1>2, <2>1 DEF Milder, Queued, Spares, Eases, Cleaner, Dead, Alive, NotPreparing
<1>3. ASSUME NEW g, Keyed(g), \A f \in Fields \ {"cleanQ", "worker", "cleaning", "paused"} : g[f] = h[f],
             g.cleanQ = h.cleanQ, g.worker = "idle", g.cleaning = NoId
      PROVE  Milder(h, g)
  <2>1. \A i \in Ids : Cleans(g, i) => Cleans(h, i)
    BY <1>3, CoordinatorAssumption DEF Cleans
  <2> QED
    BY <1>2, <1>3, <2>1 DEF Queued
<1>4. Milder(h, NextCleanup(h))
  <2> DEFINE g == NextCleanup(h)
  <2>1. \A f \in Fields \ {"cleanQ", "worker", "cleaning", "paused"} : g[f] = h[f]
    BY <1>1 DEF NextCleanup, Fields
  <2>2. CASE h.cleanQ = <<>>
    <3>1. g.cleanQ = h.cleanQ /\ g.worker = "idle" /\ g.cleaning = NoId
      BY <1>1, <2>2 DEF NextCleanup, Fields
    <3> QED
      BY <1>1, <1>3, <2>1, <3>1
  <2>3. CASE h.cleanQ # <<>>
    <3>1. /\ g.cleanQ = Tail(h.cleanQ) /\ g.worker = "finalize"
          /\ g.cleaning = Head(h.cleanQ)
      BY <1>1, <2>3 DEF NextCleanup, Fields
    <3>2. g.cleanQ \in Seq(Ids) /\ Elems(g.cleanQ) \subseteq Elems(h.cleanQ)
      <4> DEFINE q == h.cleanQ  t == Tail(h.cleanQ)
      <4>1. /\ q \in Seq(Ids) /\ t \in Seq(Ids) /\ Len(q) \in Nat /\ Len(t) = Len(q) - 1
            /\ DOMAIN q = 1..Len(q) /\ DOMAIN t = 1..Len(t)
            /\ \A m \in 1..Len(t) : t[m] = q[m + 1]
        BY <2>3, HeadTailProperties, LenProperties DEF Queued
      <4> HIDE DEF q, t
      <4>2. Elems(t) \subseteq Elems(q)
        BY <4>1 DEF Elems
      <4> QED
        BY <3>1, <4>1, <4>2 DEF q, t
    <3>3. g.cleaning \in Elems(h.cleanQ)
      BY <2>3, <3>1, HeadTailProperties, LenProperties DEF Queued, Elems
    <3> HIDE DEF g
    <3>4. \A i \in Ids : Cleans(g, i) => Cleans(h, i)
      BY <3>2, <3>3 DEF Cleans
    <3> QED
      BY <1>1, <1>2, <2>1, <3>1, <3>2, <3>4 DEF g
  <2> QED
    BY <2>2, <2>3
<1>5. Milder(h, h)
  BY DEF Milder, Spares, Eases, Cleaner
<1>6. Milder(h, PausedCleanup(h))
  <2> DEFINE g == PausedCleanup(h)
  <2>1. /\ \A f \in Fields \ {"cleanQ", "worker", "cleaning", "paused"} : g[f] = h[f]
        /\ g.cleanQ = h.cleanQ /\ g.worker = "idle" /\ g.cleaning = NoId
    BY <1>1 DEF PausedCleanup, Fields
  <2> QED
    BY <1>1, <1>3, <2>1
<1>7. Milder(h, LoopCleanup(h))
  <2> DEFINE g == LoopCleanup(h)
  <2>1. CASE Serving
    BY <1>4, <2>1 DEF LoopCleanup
  <2>2. CASE ~Serving
    <3>1. /\ \A f \in Fields \ {"cleanQ", "worker", "cleaning", "paused"} : g[f] = h[f]
          /\ g.cleanQ = h.cleanQ /\ g.worker = "idle" /\ g.cleaning = NoId
      BY <1>1, <2>2 DEF LoopCleanup, Fields
    <3> QED
      BY <1>1, <1>3, <3>1
  <2> QED
    BY <2>1, <2>2
<1> QED
  BY <1>4, <1>5, <1>6, <1>7 DEF PumpCleanup

\* A step that leaves the ledger alone, and eases or settles each launch.
LEMMA IdleAgents ==
  ASSUME Agents, LedgerIdle, Queued(host'), agent' = [j \in Ids |-> agent'[j]],
         status = "closed" /\ Rested(host) => Rested(host'),
         \A j \in Ids :
           \/ /\ agent'[j] = agent[j] /\ Spares(host, host', j)
              /\ Eases(host, host', j) /\ Cleaner(host, host', j)
           \/ Nothing(j)' /\ (~AfterRename => Living(j)' /\ Remembered(j)')
  PROVE  Agents'
<1>1. /\ status' = status /\ mem' = mem /\ disk' = disk /\ ahead' = ahead
      /\ issued' = issued /\ writer' = writer
  BY DEF LedgerIdle, ledgerVars
<1>2. ASSUME NEW j \in Ids, agent'[j] = agent[j], Spares(host, host', j),
             Eases(host, host', j), Cleaner(host, host', j)
      PROVE  Nothing(j)' /\ (~AfterRename => Living(j)' /\ Remembered(j)')
  <2>1. Nothing(j)'
    BY <1>1, <1>2 DEF Agents, Nothing, Failing, Spares, Eases
  <2>2. ASSUME ~AfterRename PROVE Living(j)'
    BY <1>1, <1>2, <2>2 DEF Agents, Living, Eases
  <2>3. ASSUME ~AfterRename PROVE Remembered(j)'
    BY <1>1, <1>2, <2>3 DEF Agents, Remembered, Cleaner
  <2> QED
    BY <2>1, <2>2, <2>3
<1>3. \A j \in Ids : Nothing(j)' /\ (~AfterRename => Living(j)' /\ Remembered(j)')
  BY <1>2
<1> QED
  BY <1>1, <1>3 DEF Agents, Queued

\* One that asks less of every agent.
LEMMA MilderAgents ==
  ASSUME Agents, LedgerIdle, UNCHANGED agent, Milder(host, host'),
         status = "closed" /\ Rested(host) => Rested(host')
  PROVE  Agents'
<1>1. agent' = [j \in Ids |-> agent'[j]]
  BY DEF Agents
<1> QED
  BY <1>1, IdleAgents DEF Milder

\* A mutation takes its turn for launch i.
LEMMA TurnAgents ==
  ASSUME Agents, NEW op, NEW i \in Ids, NEW next, Mutate(next), writer' = [op |-> op, id |-> i],
         \A j \in Ids \ {i} : next.rec[j] = mem.rec[j] /\ next.cleanups[j] = mem.cleanups[j],
         issued \subseteq issued', UNCHANGED agent, Milder(host, host'),
         Nothing(i)', ~AfterRename => Living(i)' /\ Remembered(i)'
  PROVE  Agents'
<1>1. /\ status = "open" /\ status' = "writing" /\ mem' = next
      /\ disk' = disk /\ ahead' = ahead
  BY DEF Mutate
<1>2. ASSUME NEW j \in Ids \ {i}
      PROVE  Nothing(j)' /\ (~AfterRename => Living(j)' /\ Remembered(j)')
  <2>1. Nothing(j)'
    BY <1>1, <1>2 DEF Agents, Nothing, Failing, Milder, Spares, Eases
  <2>2. ASSUME ~AfterRename PROVE Living(j)'
    BY <1>1, <1>2, <2>2 DEF Agents, Living, Milder, Eases
  <2>3. ASSUME ~AfterRename PROVE Remembered(j)'
    <3>1. Op(writer', j) = "nobody"
      BY <1>2 DEF Op
    <3> QED
      BY <1>1, <1>2, <2>3, <3>1 DEF Agents, Remembered, Milder, Cleaner, Tracked
  <2> QED
    BY <2>1, <2>2, <2>3
<1> QED
  BY <1>1, <1>2 DEF Agents, Milder, Queued

\* Its write ends well: the file says what the Maps say.
LEMMA WrittenAgents ==
  ASSUME Control, Agents, NEW op, NEW i, Written(op, i), UNCHANGED agent, Queued(host'),
         \A j \in Ids : Eases(host, host', j) /\ Cleaner(host, host', j),
         \A j \in Ids : mem.rec[j].state = "failed" \/ host.task[j] = "failed"
                          => Spares(host, host', j)
  PROVE  Agents'
<1>1. /\ status = "writing" /\ status' = "open" /\ mem' = mem /\ issued' = issued
      /\ disk' = Encoded(mem, compact) /\ ahead' = FALSE /\ writer' = Nobody
  BY DEF Written, Ends, PersistOk
<1>2. disk'.rec = mem.rec /\ Decoded(disk') = mem
  BY <1>1, WrittenFile DEF Control, IInv, TypeOK
<1>3. \A j : Op(writer', j) = "nobody"
  BY <1>1 DEF Op, Nobody
<1>4. ASSUME NEW j \in Ids
      PROVE  Nothing(j)' /\ (~AfterRename => Living(j)' /\ Remembered(j)')
  <2>1. Nothing(j)'
    BY <1>1, <1>2 DEF Agents, Nothing, Failing, Spares, Eases
  <2>2. host.call[j] = "retire" => mem.rec[j].state = "retiring"
    BY <1>1, DeletingRecorded
  <2>3. ASSUME ~AfterRename PROVE Living(j)'
    BY <1>1, <1>2, <2>2, <2>3 DEF Agents, Living, Eases
  <2>4. ASSUME ~AfterRename PROVE Remembered(j)'
    BY <1>1, <1>2, <1>3, <2>4 DEF Agents, Remembered, Cleaner
  <2> QED
    BY <2>1, <2>3, <2>4
<1> QED
  BY <1>1, <1>4 DEF Agents, Queued

\* Or it fails: the Maps are put back.
LEMMA FailedAgents ==
  ASSUME Control, Agents, NEW op, NEW i, Fails(op, i), UNCHANGED agent, Milder(host, host')
  PROVE  Agents'
<1>1. /\ status = "writing" /\ status' = "open" /\ mem' = undo /\ issued' = issued
      /\ writer' = Nobody /\ (ahead' => AfterRename)
      /\ \/ disk' = disk /\ ahead' = ahead
         \/ disk' = Encoded(mem, compact) /\ ahead' = TRUE
  BY DEF Fails, Ends, PersistFails
<1>2. disk'.rec = disk.rec \/ disk'.rec = mem.rec
  BY <1>1, WrittenFile DEF Control, IInv, TypeOK
<1>3. ~AfterRename => ~ahead /\ ~ahead' /\ disk' = disk /\ Decoded(disk) = undo
  BY <1>1 DEF Agents, Control, IInv
<1>4. \A j : Op(writer', j) = "nobody"
  BY <1>1 DEF Op, Nobody
<1>5. ASSUME NEW j \in Ids
      PROVE  Nothing(j)' /\ (~AfterRename => Living(j)' /\ Remembered(j)')
  <2>0. /\ Change(undo, mem, writer, j) /\ Tasked(host, mem, writer, j)
    BY <1>1 DEF Control, Tended
  <2>1. Nothing(j)'
    <3> SUFFICES ASSUME Failing(j)'
                 PROVE  /\ agent'[j] = "none" /\ Dead(host', j)
                        /\ mem'.rec[j].state \in {"creating", "uncertain", "failed"}
      BY DEF Nothing
    <3>1. undo.rec[j].state = "failed" => mem.rec[j].state = "failed"
      BY <2>0 DEF Change
    <3>2. Failing(j)
      BY <1>1, <1>2, <3>1 DEF Failing, Milder, Eases
    <3>3. /\ agent[j] = "none" /\ Dead(host, j)
          /\ mem.rec[j].state \in {"creating", "uncertain", "failed"}
      BY <1>1, <3>2 DEF Agents, Nothing
    <3>4. undo.rec[j].state \in {"creating", "uncertain", "failed"}
      BY <2>0, <3>3 DEF Change, Tasked, Dead
    <3> QED
      BY <1>1, <3>3, <3>4 DEF Milder, Spares
  <2>2. ASSUME ~AfterRename PROVE Living(j)'
    BY <1>1, <1>3, <2>2, DecodedRecords DEF Agents, Living, Milder, Eases
  <2>3. ASSUME ~AfterRename PROVE Remembered(j)'
    <3>1. agent'[j] = "gone" => Tracked(Decoded(disk'), j) /\ Tracked(mem', j)
      BY <1>1, <1>3, <2>3 DEF Agents, Remembered
    <3>2. Cleans(host', j) => j \in issued /\ mem'.rec[j].state = "absent"
      BY <1>1, <2>0, <2>3 DEF Agents, Remembered, Milder, Cleaner, Change
    <3> QED
      BY <1>1, <1>4, <2>3, <3>1, <3>2 DEF Agents, Remembered, Milder, Cleaner
  <2> QED
    BY <2>1, <2>2, <2>3
<1> QED
  BY <1>1, <1>3, <1>5 DEF Agents, Milder, Queued

\* Nothing moved but what is kept of launch i.
Turned(h, g, i) ==
  /\ g.queue = h.queue /\ g.retq = h.retq /\ g.recovered = h.recovered
  /\ g.cleanQ = h.cleanQ /\ g.worker = h.worker /\ g.cleaning = h.cleaning
  /\ \A p \in Providers : g.preparing[p] \in {h.preparing[p], NoId}
  /\ \A j \in Ids \ {i} : /\ g.task[j] = h.task[j] /\ g.ret[j] = h.ret[j]
                          /\ g.call[j] = h.call[j] /\ g.late[j] = h.late[j]

\* The others are asked what they were.
LEMMA TurnedOthers ==
  ASSUME NEW h, NEW g, NEW i, Turned(h, g, i), NEW j \in Ids \ {i}
  PROVE  Spares(h, g, j) /\ Eases(h, g, j) /\ Cleaner(h, g, j)
<1>1. NotPreparing(h, j) => NotPreparing(g, j)
  BY CoordinatorAssumption DEF Turned, NotPreparing
<1> QED
  BY <1>1 DEF Turned, Spares, Eases, Cleaner, Dead, Alive, Cleans

\* Launch i is asked less.
LEMMA TurnedMilder ==
  ASSUME NEW h, NEW g, NEW i \in Ids, Queued(h), Keyed(g), Turned(h, g, i),
         Dead(h, i) => g.task[i] \in {h.task[i], "lane", "none"} /\ g.ret[i] = "none" /\ g.call[i] = "none",
         g.task[i] = h.task[i] \/ g.task[i] \notin {"failed", "owned"},
         g.call[i] = h.call[i] \/ g.call[i] # "retire",
         g.late[i] = h.late[i] \/ g.late[i] # "rolling",
         \/ g.ret[i] = h.ret[i]
         \/ g.ret[i] \notin {"cancel", "queued", "prepare", "begin", "refresh", "retire"}
         \/ g.ret[i] \in {"begin", "refresh"} /\ h.ret[i] \in {"prepare", "begin"}
  PROVE  Milder(h, g)
<1>1. Queued(g)
  BY DEF Queued, Turned
<1>2. NotPreparing(h, i) => NotPreparing(g, i)
  BY CoordinatorAssumption DEF Turned, NotPreparing
<1>3. Spares(h, g, i)
  BY DEF Spares, Dead, Turned
<1>4. Alive(g, i) => Alive(h, i)
  BY <1>2 DEF Alive, Turned
<1>5. Eases(h, g, i) /\ Cleaner(h, g, i)
  BY <1>4 DEF Eases, Cleaner, Cleans, Turned
<1> QED
  BY <1>1, <1>3, <1>5, TurnedOthers DEF Milder

\* Where the retirement of launch i has come to.
Reached(h, i, pc) == [h EXCEPT !.ret[i] = pc]

\* A retirement that moves past its beginning changes nothing else.
LEMMA RetirementTurned ==
  ASSUME NEW h, NEW i \in Ids, Keyed(h), NEW pc \in RetirePc \ {"queued", "prepare", "begin"},
         NEW g, g = Reached(h, i, pc)
  PROVE  /\ Keyed(g) /\ Turned(h, g, i) /\ g.ret[i] = pc
         /\ g.task = h.task /\ g.call = h.call /\ g.late = h.late
<1>1. h = [f \in Fields |-> h[f]]
  BY DEF Keyed
<1>2. /\ g = [f \in Fields |-> g[f]] /\ g.ret = [h.ret EXCEPT ![i] = pc]
      /\ g.task = h.task /\ g.call = h.call /\ g.late = h.late
      /\ g.queue = h.queue /\ g.retq = h.retq /\ g.recovered = h.recovered
      /\ g.cleanQ = h.cleanQ /\ g.worker = h.worker /\ g.cleaning = h.cleaning
      /\ g.preparing = h.preparing /\ g.waiting = h.waiting /\ g.key = h.key
  BY <1>1 DEF Fields, Reached
<1>3. /\ g.ret \in [Ids -> RetirePc] /\ g.ret[i] = pc
      /\ \A j \in Ids \ {i} : g.ret[j] = h.ret[j]
  <2>1. h.ret \in [Ids -> RetirePc]
    BY DEF Keyed
  <2> QED
    BY <1>2, <2>1
<1>4. Keyed(g)
  <2>1. \A j \in Ids : g.ret[j] \in {"queued", "prepare", "begin"} => g.key[j] \in Keys
    BY <1>2, <1>3 DEF Keyed
  <2> QED
    BY <1>2, <1>3, <2>1 DEF Keyed
<1>5. Turned(h, g, i)
  BY <1>2, <1>3 DEF Turned
<1> QED
  BY <1>2, <1>3, <1>4, <1>5

\* A memory that differs in none of this.
LEMMA UnmovedMilder ==
  ASSUME NEW h, NEW g, Queued(h), Keyed(g),
         g.queue = h.queue, g.retq = h.retq, g.recovered = h.recovered,
         g.cleanQ = h.cleanQ, g.worker = h.worker, g.cleaning = h.cleaning,
         g.preparing = h.preparing, g.task = h.task, g.ret = h.ret,
         g.call = h.call, g.late = h.late
  PROVE  Milder(h, g)
  BY DEF Milder, Queued, Spares, Eases, Cleaner, Dead, Alive, Cleans, NotPreparing

\* Answers that come too late, and the lanes given up after them.
LEMMA IdleMilder ==
  ASSUME Control, Queued(host), Keyed(host'), NEW i \in Ids,
         \/ Deadline(i) \/ BeginRefused(i) \/ PreparationDeadline(i) \/ ReleaseDeadline(i)
         \/ RefreshAborted(i) \/ RetireDeadline(i) \/ RollbackEnds(i)
  PROVE  Milder(host, host')
<1>1. Shaped(host) /\ host = [f \in Fields |-> host[f]]
  BY DEF Control, Shaped, Keyed
<1>2. host.ret = [j \in Ids |-> host.ret[j]]
  BY DEF Queued, Keyed
<1>3. CASE Deadline(i)
  <2>1. /\ Turned(host, host', i) /\ host.task[i] = "call"
        /\ host'.task[i] = "uncertain" /\ host'.ret[i] = host.ret[i]
        /\ host'.call[i] = host.call[i] /\ host'.late[i] = host.late[i]
    BY <1>1, <1>3 DEF Deadline, Turned, Shaped, Fields
  <2> QED
    BY <2>1, TurnedMilder DEF Dead
<1>4. CASE BeginRefused(i)
  <2>1. host.ret[i] = "begin" /\ host' = AfterBeginFails(host, i)
    BY <1>4 DEF BeginRefused
  <2>2. /\ Turned(host, host', i) /\ host'.task = host.task /\ host'.late = host.late
        /\ host'.ret[i] \in {"release", "over"}
        /\ host'.call[i] \in {host.call[i], "release"}
    BY <1>1, <1>2, <2>1 DEF AfterBeginFails, Turned, Shaped, Fields
  <2> QED
    BY <2>1, <2>2, TurnedMilder DEF Dead
<1>5. CASE PreparationDeadline(i)
  <2>1. /\ Turned(host, host', i) /\ host.ret[i] = "prepare"
        /\ host'.task = host.task /\ host'.ret[i] = "begin"
        /\ host'.call = host.call /\ host'.late = host.late
    BY <1>1, <1>2, <1>5 DEF PreparationDeadline, Turned, Shaped, Fields
  <2> QED
    BY <2>1, TurnedMilder DEF Dead
<1>6. CASE ReleaseDeadline(i) \/ RefreshAborted(i)
  <2>1. /\ Turned(host, host', i) /\ host.ret[i] \in {"release", "refresh"}
        /\ host'.task = host.task /\ host'.ret[i] = "over"
        /\ host'.call = host.call /\ host'.late = host.late
    BY ZenonT(60), <1>1, <1>2, <1>6 DEF ReleaseDeadline, RefreshAborted, Turned, Shaped, Fields
  <2> QED
    BY <2>1, TurnedMilder DEF Dead
<1>7. CASE RetireDeadline(i)
  <2>1. /\ Turned(host, host', i) /\ host.ret[i] = "retire"
        /\ host'.task = host.task /\ host'.ret[i] = "over"
        /\ host'.call = host.call /\ host'.late[i] = "armed"
    BY <1>1, <1>2, <1>7 DEF RetireDeadline, Turned, Shaped, Fields
  <2> QED
    BY <2>1, TurnedMilder DEF Dead
<1>8. CASE RollbackEnds(i)
  <2>1. /\ Turned(host, host', i) /\ host'.task = host.task /\ host'.ret = host.ret
        /\ host'.call = host.call /\ host'.late[i] = "none"
    BY <1>1, <1>2, <1>8 DEF RollbackEnds, Turned, Shaped, Fields
  <2> QED
    BY <2>1, TurnedMilder DEF Dead
<1> QED
  BY <1>3, <1>4, <1>5, <1>6, <1>7, <1>8

\* The ends of writes.
LEMMA EndMilder ==
  ASSUME Control, Queued(host), Keyed(host'), NEW i \in Ids,
         \/ MarkFails(i) \/ SettleFails(i) \/ SettleWritten(i) \/ BeginFails(i) \/ FinishFails(i)
         \/ RollbackFails(i) \/ RolledBack(i) \/ Canceled(i) \/ Completed(i)
  PROVE  Milder(host, host')
<1>1. Shaped(host) /\ host = [f \in Fields |-> host[f]]
  BY DEF Control, Shaped, Keyed
<1>2. host.ret = [j \in Ids |-> host.ret[j]]
  BY DEF Queued, Keyed
<1>3. \A op : writer = [op |-> op, id |-> i] /\ status = "writing" => Op(writer, i) = op
  BY DEF Op
<1>4. CASE MarkFails(i) \/ SettleFails(i) \/ SettleWritten(i)
  <2>1. Op(writer, i) \in {"mark", "settle"} /\ status # "closed"
    BY <1>3, <1>4 DEF MarkFails, SettleFails, SettleWritten, Fails, Written, Ends, PersistOk,
       PersistFails
  <2>2. PICK v : host' = [host EXCEPT !.task[i] = "lane", !.visible = v]
    <3>1. CASE MarkFails(i) \/ SettleFails(i)
      <4>1. host' = [host EXCEPT !.task[i] = "lane"]
        BY <3>1 DEF MarkFails, SettleFails
      <4>2. [host EXCEPT !.task[i] = "lane"]
              = [host EXCEPT !.task[i] = "lane", !.visible = host.visible]
        BY <1>1 DEF Fields
      <4> QED
        BY <4>1, <4>2
    <3>2. CASE SettleWritten(i)
      BY <3>2 DEF SettleWritten
    <3> QED
      BY <1>4, <3>1, <3>2
  <2>3. /\ host'.task = [host.task EXCEPT ![i] = "lane"] /\ host'.ret = host.ret
        /\ host'.call = host.call /\ host'.late = host.late
        /\ host'.queue = host.queue /\ host'.retq = host.retq
        /\ host'.recovered = host.recovered /\ host'.preparing = host.preparing
        /\ host'.cleanQ = host.cleanQ /\ host'.worker = host.worker
        /\ host'.cleaning = host.cleaning
    BY <1>1, <2>2 DEF Fields
  <2>4. host.task = [j \in Ids |-> host.task[j]]
    BY <1>1 DEF Shaped
  <2>5. host'.task[i] = "lane" /\ \A j \in Ids \ {i} : host'.task[j] = host.task[j]
    BY <2>3, <2>4
  <2>6. Turned(host, host', i)
    BY <2>3, <2>5 DEF Turned
  <2> QED
    BY <2>3, <2>5, <2>6, TurnedMilder DEF Dead
<1>5. CASE BeginFails(i)
  <2>1. Op(writer, i) = "begin" /\ status # "closed" /\ host' = AfterBeginFails(host, i)
    BY <1>3, <1>5 DEF BeginFails, Fails, Ends, PersistFails
  <2>2. host.ret[i] = "begin"
    BY <2>1 DEF Control, Tended, Retires
  <2>3. /\ Turned(host, host', i) /\ host'.task = host.task /\ host'.late = host.late
        /\ host'.ret[i] \in {"release", "over"}
        /\ host'.call[i] \in {host.call[i], "release"}
    BY <1>1, <1>2, <2>1 DEF AfterBeginFails, Turned, Shaped, Fields
  <2> QED
    BY <2>2, <2>3, TurnedMilder DEF Dead
<1>6. CASE FinishFails(i) \/ Canceled(i) \/ Completed(i)
  <2>1. Op(writer, i) \in {"cancel", "complete"} /\ status # "closed"
    BY <1>3, <1>6 DEF FinishFails, Canceled, Completed, Fails, Written, Ends, PersistOk, PersistFails
  <2>2. host.ret[i] \in {"cancel", "complete"}
    BY <2>1 DEF Control, Tended, Retires
  <2>3. /\ Turned(host, host', i)
        /\ host'.task = host.task /\ host'.ret[i] \in {"over", "republish"}
        /\ host'.call = host.call /\ host'.late = host.late
    BY ZenonT(60), <1>1, <1>2, <1>6 DEF FinishFails, Canceled, Completed, Turned, Shaped, Fields
  <2> QED
    BY <2>2, <2>3, TurnedMilder DEF Dead
<1>7. CASE RollbackFails(i) \/ RolledBack(i)
  <2>1. /\ Turned(host, host', i)
        /\ host'.task = host.task /\ host'.ret = host.ret
        /\ host'.call = host.call /\ host'.late[i] # "rolling"
    BY ZenonT(60), <1>1, <1>2, <1>7 DEF RollbackFails, RolledBack, Turned, Shaped, Fields
  <2> QED
    BY <2>1, TurnedMilder DEF Dead
<1> QED
  BY <1>4, <1>5, <1>6, <1>7

\* A launch joins #queue.
LEMMA AppendEases ==
  ASSUME NEW h, NEW i \in Ids, Queued(h), Once(h.queue), i \notin Elems(h.queue)
  PROVE  LET g == [h EXCEPT !.queue = Append(@, i)]
         IN  /\ Queued(g)
             /\ \A j \in Ids : Eases(h, g, j) /\ Cleaner(h, g, j)
             /\ \A j \in Ids \ {i} : Spares(h, g, j)
<1> DEFINE g == [h EXCEPT !.queue = Append(@, i)]
<1>1. h = [f \in Fields |-> h[f]] /\ h.queue \in Seq(Ids)
  BY DEF Queued, Keyed
<1>2. /\ g = [f \in Fields |-> g[f]] /\ g.queue = Append(h.queue, i)
      /\ g.retq = h.retq /\ g.task = h.task /\ g.ret = h.ret /\ g.waiting = h.waiting
      /\ g.call = h.call /\ g.recovered = h.recovered /\ g.late = h.late
      /\ g.preparing = h.preparing /\ g.key = h.key
      /\ g.cleanQ = h.cleanQ /\ g.worker = h.worker /\ g.cleaning = h.cleaning
  BY <1>1 DEF Fields
<1>3. Append(h.queue, i) \in Seq(Ids) /\ Elems(Append(h.queue, i)) = Elems(h.queue) \cup {i}
  BY <1>1, Appended
<1> HIDE DEF g
<1>4. Queued(g)
  BY <1>2, <1>3 DEF Queued, Keyed
<1>5. \A j \in Ids : Eases(h, g, j) /\ Cleaner(h, g, j)
  BY <1>2 DEF Eases, Cleaner, Alive, Cleans, NotPreparing
<1>6. \A j \in Ids \ {i} : Spares(h, g, j)
  BY <1>2, <1>3 DEF Spares, Dead
<1> QED
  BY <1>4, <1>5, <1>6 DEF g

\* Every end of a write, but that of a start() that fails.
LEMMA EndAgents ==
  ASSUME Control, Agents, Queued(host), Keyed(host'), NEW i \in Ids,
         \/ Interrupted(i) \/ Submitted(i) \/ SubmitFails(i)
         \/ Marked(i) \/ MarkFails(i) \/ SettleWritten(i) \/ SettleFails(i)
         \/ Begun(i) \/ BeginFails(i) \/ Canceled(i) \/ Completed(i) \/ FinishFails(i)
         \/ RolledBack(i) \/ RollbackFails(i) \/ CleanupRecorded(i) \/ RecordFails(i)
  PROVE  Agents'
<1>1. Shaped(host) /\ host = [f \in Fields |-> host[f]]
  BY DEF Control, Shaped, Keyed
<1>2. host.ret = [j \in Ids |-> host.ret[j]]
  BY DEF Queued, Keyed
<1>3. ASSUME NEW op, writer = [op |-> op, id |-> i], status = "writing"
      PROVE  Op(writer, i) = op /\ Change(undo, mem, writer, i) /\ Tends(host, mem, writer, i)
  BY <1>3 DEF Op, Control, Tended, Tends
<1>4. ASSUME NEW op, Written(op, i), Milder(host, host'), UNCHANGED agent PROVE Agents'
  BY <1>4, WrittenAgents DEF Milder
<1>5. CASE MarkFails(i) \/ SettleFails(i) \/ BeginFails(i) \/ FinishFails(i) \/ RollbackFails(i)
  <2>1. UNCHANGED agent
    BY <1>5 DEF MarkFails, SettleFails, BeginFails, FinishFails, RollbackFails, world
  <2>2. \E op : Fails(op, i)
    BY <1>5 DEF MarkFails, SettleFails, BeginFails, FinishFails, RollbackFails
  <2> QED
    BY <1>5, <2>1, <2>2, EndMilder, FailedAgents
<1>6. CASE SettleWritten(i) \/ Canceled(i) \/ Completed(i) \/ RolledBack(i)
  <2>1. UNCHANGED agent
    BY <1>6 DEF SettleWritten, Canceled, Completed, RolledBack, world
  <2>2. \E op : Written(op, i)
    BY <1>6 DEF SettleWritten, Canceled, Completed, RolledBack
  <2> QED
    BY <1>4, <1>6, <2>1, <2>2, EndMilder
<1>7. CASE SubmitFails(i)
  <2>1. Fails("submit", i) /\ UNCHANGED agent /\ host' = host
    BY <1>7 DEF SubmitFails, world
  <2>2. Milder(host, host')
    BY <2>1 DEF Milder, Spares, Eases, Cleaner
  <2> QED
    BY <2>1, <2>2, FailedAgents
<1>8. CASE RecordFails(i)
  <2>1. Fails("record", i) /\ UNCHANGED agent /\ host' = PausedCleanup(host)
    BY <1>8 DEF RecordFails, world
  <2> QED
    BY <2>1, CleanupMilder, FailedAgents
<1>9. CASE CleanupRecorded(i)
  <2>1. Written("record", i) /\ UNCHANGED agent /\ host' = LoopCleanup(host)
    BY <1>9 DEF CleanupRecorded, world
  <2> QED
    BY <1>4, <2>1, CleanupMilder
<1>10. CASE Marked(i)
  <2>1. /\ Written("mark", i) /\ UNCHANGED agent /\ writer = [op |-> "mark", id |-> i]
        /\ status = "writing"
        /\ host' = [host EXCEPT !.task[i] = "call", !.call[i] = "launch"]
    BY <1>10 DEF Marked, world, Written, Ends, PersistOk
  <2>2. host.task[i] = "mark"
    BY <1>3, <2>1 DEF Tends, Tasked
  <2>3. /\ Turned(host, host', i) /\ host'.task[i] = "call" /\ host'.call[i] = "launch"
        /\ host'.ret = host.ret /\ host'.late = host.late
    BY <1>1, <2>1 DEF Turned, Shaped, Fields
  <2>4. Milder(host, host')
    BY <2>2, <2>3, TurnedMilder DEF Dead
  <2> QED
    BY <1>4, <2>1, <2>4
<1>11. CASE Begun(i)
  <2> DEFINE h == [host EXCEPT !.fence = Unfenced(host, host.key[i], i)]
  <2>1. /\ Written("begin", i) /\ UNCHANGED agent /\ writer = [op |-> "begin", id |-> i]
        /\ status = "writing"
        /\ \/ host' = [h EXCEPT !.ret[i] = "over", !.visible = @ \ {i},
                                !.late[i] = IF h.preparing[Of(mem, i)] = i THEN "armed" ELSE "none"]
           \/ host' = [h EXCEPT !.ret[i] = "over"]
           \/ host' = [h EXCEPT !.ret[i] = "refresh", !.visible = @ \ {i}]
    BY <1>11 DEF Begun, world, Written, Ends, PersistOk
  <2>2. host.ret[i] = "begin"
    BY <1>3, <2>1 DEF Tends, Retires
  <2>3. h = [f \in Fields |-> h[f]] /\ \A f \in Fields \ {"fence"} : h[f] = host[f]
    BY <1>1 DEF Fields
  <2>4. Turned(host, h, i) /\ h.task = host.task /\ h.ret = host.ret /\ h.call = host.call
        /\ h.late = host.late /\ h.preparing = host.preparing
    BY <2>3 DEF Turned, Fields
  <2> HIDE DEF h
  <2>5. /\ Turned(host, host', i) /\ host'.task = host.task /\ host'.call = host.call
        /\ host'.ret[i] \in {"over", "refresh"}
        /\ host'.late[i] = host.late[i] \/ host'.late[i] # "rolling"
    <3>1. CASE host' = [h EXCEPT !.ret[i] = "over"]
      BY <1>1, <1>2, <2>3, <2>4, <3>1 DEF Turned, Shaped, Fields
    <3>2. CASE host' = [h EXCEPT !.ret[i] = "refresh", !.visible = @ \ {i}]
      BY <1>1, <1>2, <2>3, <2>4, <3>2 DEF Turned, Shaped, Fields
    <3>3. CASE host' = [h EXCEPT !.ret[i] = "over", !.visible = @ \ {i},
                          !.late[i] = IF h.preparing[Of(mem, i)] = i THEN "armed" ELSE "none"]
      BY <1>1, <1>2, <2>3, <2>4, <3>3 DEF Turned, Shaped, Fields
    <3> QED
      BY <2>1, <3>1, <3>2, <3>3
  <2>6. Milder(host, host')
    BY <2>2, <2>5, TurnedMilder DEF Dead
  <2> QED
    BY <1>4, <2>1, <2>6
<1>12. CASE Interrupted(i) \/ Submitted(i)
  <2> DEFINE h == [host EXCEPT !.queue = Append(@, i)]
  <2>1. PICK op \in {"interrupt", "submit"} : Written(op, i)
    BY <1>12 DEF Interrupted, Submitted
  <2>2. /\ UNCHANGED agent /\ writer = [op |-> op, id |-> i] /\ status = "writing"
        /\ host' = h \/ host' = Pump(h, mem) \/ host' = host
    BY <1>12, <2>1 DEF Interrupted, Submitted, world, Written, Ends, PersistOk
  <2>3. /\ i \notin Elems(host.queue) /\ host.task[i] = "none"
        /\ mem.rec[i].state \in {"uncertain", "requested"}
    BY <1>3, <2>1, <2>2 DEF Tends, Waits, Tasked, Change
  <2>4. /\ Queued(h) /\ \A j \in Ids : Eases(host, h, j) /\ Cleaner(host, h, j)
        /\ \A j \in Ids \ {i} : Spares(host, h, j)
    BY <2>3, AppendEases DEF Control, Lanes
  <2> HIDE DEF h
  <2>5. Milder(h, Pump(h, mem)) /\ Milder(h, h) /\ Milder(host, host)
    BY <2>4, PumpMilder DEF Milder, Spares, Eases, Cleaner
  <2>6. /\ Queued(host') /\ \A j \in Ids : Eases(host, host', j) /\ Cleaner(host, host', j)
        /\ \A j \in Ids \ {i} : Spares(host, host', j)
    BY <2>2, <2>4, <2>5 DEF Milder, Spares, Eases, Cleaner
  <2> QED
    BY <2>1, <2>2, <2>3, <2>6, WrittenAgents
<1> QED
  BY <1>5, <1>6, <1>7, <1>8, <1>9, <1>10, <1>11, <1>12

\* A mutation of one record.
LEMMA MutationAgents ==
  ASSUME Agents, Queued(host), UNCHANGED <<host, agent, issued>>,
         NEW op, NEW i \in Ids, NEW next, Mutate(next), writer' = [op |-> op, id |-> i],
         \A j \in Ids \ {i} : next.rec[j] = mem.rec[j] /\ next.cleanups[j] = mem.cleanups[j],
         Failing(i) => next.rec[i].state \in {"creating", "uncertain", "failed"},
         next.rec[i].state = "failed" => host.task[i] = "failed",
         ~AfterRename =>
           /\ next.rec[i].state = "owned" => agent[i] = "live"
           /\ agent[i] = "gone" => Tracked(next, i)
           /\ Cleans(host, i) => op = "record" /\ next.rec[i] = mem.rec[i]
  PROVE  Agents'
<1>1. /\ status = "open" /\ status' = "writing" /\ mem' = next /\ issued' = issued
      /\ disk' = disk /\ ahead' = ahead /\ host' = host /\ agent' = agent
  BY DEF Mutate
<1>2. Milder(host, host')
  BY <1>1 DEF Milder, Spares, Eases, Cleaner
<1>3. Nothing(i)'
  BY <1>1 DEF Agents, Nothing, Failing
<1>4. ASSUME ~AfterRename PROVE Living(i)'
  BY <1>1, <1>4 DEF Agents, Living
<1>5. ASSUME ~AfterRename PROVE Remembered(i)'
  <2>1. Op(writer', i) = op
    BY DEF Op
  <2> QED
    BY <1>1, <1>5, <2>1 DEF Agents, Remembered
<1>6. issued \subseteq issued' /\ UNCHANGED agent
  BY <1>1
<1> HIDE DEF Nothing, Living, Remembered, Mutate
<1> QED
  BY <1>2, <1>3, <1>4, <1>5, <1>6, TurnAgents

\* The mutations of a task.
LEMMA CreationTurnAgents ==
  ASSUME Control, Agents, Queued(host), NEW i \in Ids,
         MarkTurn(i) \/ SettleTurn(i) \/ Interrupt(i)
  PROVE  Agents'
<1>1. PICK op, from, to :
        /\ \/ op = "mark" /\ from = {"requested"} /\ to = "creating" /\ host.task[i] = "mark"
           \/ /\ op = "settle" /\ from = {"creating", "uncertain"} /\ to = host.task[i]
              /\ host.task[i] \in Answers
           \/ /\ op = "interrupt" /\ from = {"creating"} /\ to = "uncertain"
              /\ host.task[i] = "none"
        /\ mem.rec[i].state \in from /\ UNCHANGED <<host, issued>>
        /\ Mutate(Transitioned(mem, i, from, to)) /\ Turn(op, i)
  BY DEF MarkTurn, SettleTurn, Interrupt, Transition
<1> DEFINE next == Transitioned(mem, i, from, to)
<1>2. /\ \A j \in Ids \ {i} : next.rec[j] = mem.rec[j] /\ next.cleanups[j] = mem.cleanups[j]
      /\ next.rec[i].state = to /\ next.cleanups[i] = mem.cleanups[i]
  BY <1>1, Coherent DEF Control, Transitioned, Document, Entry
<1>3. status = "open" /\ UNCHANGED <<host, agent, issued>> /\ writer' = [op |-> op, id |-> i]
  BY <1>1 DEF Mutate, Turn, world
<1> HIDE DEF next
<1>4. Failing(i) => to \in {"creating", "uncertain", "failed"}
  BY <1>1, <1>3 DEF Agents, Nothing, Dead, Answers
<1>5. to = "failed" => host.task[i] = "failed"
  BY <1>1
<1>6. ASSUME ~AfterRename
      PROVE  /\ to = "owned" => agent[i] = "live"
             /\ agent[i] = "gone" => Tracked(next, i)
             /\ ~Cleans(host, i)
  <2>1. Living(i) /\ Remembered(i)
    BY <1>6 DEF Agents
  <2> QED
    BY <1>1, <1>2, <1>3, <2>1 DEF Living, Remembered, Alive, Tracked
<1> QED
  BY <1>1, <1>2, <1>3, <1>4, <1>5, <1>6, MutationAgents DEF next

\* Those of a retirement, its rollback and its cleanup.
LEMMA RetirementTurnAgents ==
  ASSUME Control, Agents, Queued(host), NEW i \in Ids,
         \/ BeginTurn(i) \/ CancelTurn(i) \/ CompleteTurn(i) \/ RollbackTurn(i)
         \/ RecordTurn(i)
  PROVE  Agents'
<1>1. PICK op, next :
        /\ \/ /\ op = "begin" /\ host.ret[i] = "begin" /\ mem.rec[i].state = "owned"
              /\ next = RetirementBegun(mem, i, host.key[i])
           \/ /\ op \in {"cancel", "rollback"} /\ mem.rec[i].state = "retiring"
              /\ next = RetirementCanceled(mem, i)
              /\ op = "cancel" => host.ret[i] = "cancel"
              /\ op = "rollback" => host.late[i] = "rolling"
           \/ /\ op = "complete" /\ host.ret[i] = "complete" /\ mem.rec[i].state = "retiring"
              /\ next = RetirementCompleted(mem, i, TRUE)
           \/ /\ op = "record" /\ mem.cleanups[i] # NoKey /\ next = CleanupCompleted(mem, i, compact)
              /\ host.worker = "record" /\ host.cleaning = i
        /\ Mutate(next) /\ Turn(op, i) /\ UNCHANGED <<host, issued>>
  BY DEF BeginTurn, CancelTurn, CompleteTurn, RollbackTurn, BeginRetirement,
     CancelRetirement, CompleteRetirement, RecordTurn, CompleteRetirementCleanup
<1>2. /\ mem \in Document /\ RecordsCoherent(mem) /\ OneHomePerLaunch(mem) /\ compact \in BOOLEAN
      /\ mem.rec \in [Ids -> Entry] /\ mem.rec[i] \in Entry
      /\ mem.cleanups \in [Ids -> Keys \cup {NoKey}]
  BY EntryShape DEF Control, IInv, TypeOK, Fit, Sound
<1>3. status = "open" /\ UNCHANGED <<host, agent, issued>> /\ writer' = [op |-> op, id |-> i]
  BY <1>1 DEF Mutate, Turn, world
<1>4. /\ \A j \in Ids \ {i} : next.rec[j] = mem.rec[j] /\ next.cleanups[j] = mem.cleanups[j]
      /\ op = "begin" => next.rec[i].state = "retiring"
      /\ op \in {"cancel", "rollback"} => next.rec[i].state = "owned"
      /\ op = "complete" => next.rec[i].state = "absent" /\ next.cleanups[i] # NoKey
      /\ op = "record" => next.rec[i] = mem.rec[i]
  <2>1. CASE op = "begin"
    <3>1. host.key[i] \in Keys
      BY <1>1, <2>1 DEF Control, Shaped, Keyed
    <3>2. /\ next.cleanups = mem.cleanups
          /\ next.rec = [mem.rec EXCEPT ![i] =
                          [mem.rec[i] EXCEPT !.state = "retiring", !.retireKey = host.key[i]]]
      <4> DEFINE k == host.key[i]
      <4>1. next = RetirementBegun(mem, i, k) /\ k \in Keys
        BY <1>1, <2>1, <3>1
      <4>2. mem \in Document
        BY <1>2
      <4> HIDE DEF k
      <4>3. next.rec = [mem.rec EXCEPT ![i] =
                         [mem.rec[i] EXCEPT !.state = "retiring", !.retireKey = k]]
            /\ next.cleanups = mem.cleanups
        BY ZenonT(60), <4>1, <4>2, BegunShape
      <4> QED
        BY <4>3 DEF k
    <3> QED
      BY <1>2, <2>1, <3>2 DEF Entry
  <2>2. CASE op \in {"cancel", "rollback"}
    <3>1. /\ next.cleanups = mem.cleanups
          /\ next.rec = [mem.rec EXCEPT ![i] =
                          [mem.rec[i] EXCEPT !.state = "owned", !.retireKey = NoKey]]
      BY ZenonT(60), <1>1, <1>2, <2>2, CanceledShape
    <3> QED
      BY <1>2, <2>2, <3>1 DEF Entry
  <2>3. CASE op = "complete"
    <3>1. mem.rec[i].retireKey # NoKey
      BY <1>1, <2>3, <1>2 DEF RecordsCoherent
    <3> QED
      BY <1>1, <1>2, <2>3, <3>1 DEF RetirementCompleted, Absent
  <2>4. CASE op = "record"
    <3>1. next.rec = mem.rec /\ next.cleanups = [mem.cleanups EXCEPT ![i] = NoKey]
      BY <1>1, <1>2, <2>4, CleanupCompletedShape
    <3> QED
      BY <1>2, <2>4, <3>1
  <2> QED
    BY <1>1, <2>1, <2>2, <2>3, <2>4
<1>5. op = "record" => mem.rec[i].state = "absent"
  BY <1>1, <1>2 DEF OneHomePerLaunch, Owing
<1>6. ~Failing(i)
  BY <1>1, <1>3, <1>5 DEF Agents, Nothing
<1>7. next.rec[i].state # "failed"
  BY <1>1, <1>4, <1>5
<1>8. ASSUME ~AfterRename
      PROVE  /\ next.rec[i].state = "owned" => agent[i] = "live"
             /\ agent[i] = "gone" => Tracked(next, i)
             /\ Cleans(host, i) => op = "record" /\ next.rec[i] = mem.rec[i]
  <2>1. Living(i) /\ Remembered(i)
    BY <1>8 DEF Agents
  <2>2. op = "begin" \/ op \in {"cancel", "rollback"} => agent[i] = "live"
    BY <1>1, <1>3, <2>1 DEF Living, Alive
  <2>3. op = "record" => agent[i] # "gone" /\ next.rec[i].state # "owned"
    BY <1>1, <1>3, <1>4, <1>5, <2>1 DEF Remembered
  <2>4. op # "record" => ~Cleans(host, i)
    BY <1>1, <1>3, <2>1 DEF Remembered
  <2> QED
    BY <1>1, <1>4, <2>2, <2>3, <2>4 DEF Tracked
<1> QED
  BY <1>1, <1>3, <1>4, <1>6, <1>7, <1>8, MutationAgents

\* reserve.
LEMMA AdmissionTurnAgents ==
  ASSUME Control, Agents, Queued(host), Keyed(host'), NEW k \in SubmitKeys, SubmitTurn(k)
  PROVE  Agents'
<1>1. PICK i \in Ids \ issued :
        /\ Mutate(Reserved(mem, i, k, host.waiting[k])) /\ issued' = issued \cup {i}
  BY DEF SubmitTurn, Reserve
<1> DEFINE next == Reserved(mem, i, k, host.waiting[k])
<1>2. /\ Turn("submit", i) /\ host' = [host EXCEPT !.waiting[k] = NoRequest]
  <2>1. issued' \ issued = {i}
    BY <1>1
  <2> QED
    BY <2>1 DEF SubmitTurn
<1>3. /\ mem \in Document /\ Shaped(host) /\ Unborn(host, i)
      /\ mem.rec[i].state = "absent" /\ mem.cleanups[i] = NoKey
      /\ Decoded(disk).rec[i].state = "absent" /\ Decoded(disk).cleanups[i] = NoKey
  BY Coherent DEF Control, IInv, Fit, Mentioned, Recorded, Owing
<1>4. Milder(host, host')
  <2>1. /\ host'.ret = host.ret /\ host'.recovered = host.recovered
        /\ host'.task = host.task /\ host'.call = host.call /\ host'.late = host.late
        /\ host'.preparing = host.preparing
        /\ host'.queue = host.queue /\ host'.retq = host.retq
        /\ host'.cleanQ = host.cleanQ /\ host'.worker = host.worker
        /\ host'.cleaning = host.cleaning
    BY <1>2, <1>3 DEF Shaped, Keyed, Fields
  <2> QED
    BY <2>1, UnmovedMilder
<1>5. /\ \A j \in Ids \ {i} : next.rec[j] = mem.rec[j] /\ next.cleanups[j] = mem.cleanups[j]
      /\ next.rec[i].state = "requested" /\ next.cleanups[i] = mem.cleanups[i]
  BY <1>3 DEF Reserved, Document
<1>6. /\ status = "open" /\ status' = "writing" /\ mem' = next /\ disk' = disk /\ ahead' = ahead
      /\ writer' = [op |-> "submit", id |-> i] /\ UNCHANGED agent
  BY <1>1, <1>2 DEF Mutate, Turn, world
<1>7. ~Failing(i)
  BY <1>3, <1>6 DEF Agents, Nothing
<1> HIDE DEF next
<1>8. Nothing(i)'
  BY <1>4, <1>5, <1>6, <1>7 DEF Nothing, Failing, Milder, Eases
<1>9. ASSUME ~AfterRename PROVE Living(i)' /\ Remembered(i)'
  <2>1. Living(i) /\ Remembered(i)
    BY <1>9 DEF Agents
  <2>2. agent[i] # "gone" /\ ~Cleans(host, i)
    BY <1>3, <1>6, <2>1 DEF Remembered, Tracked
  <2>3. Living(i)'
    BY <1>4, <1>5, <1>6, <2>1 DEF Living, Milder, Eases
  <2>4. Remembered(i)'
    BY <1>4, <1>6, <2>2 DEF Remembered, Milder, Cleaner
  <2> QED
    BY <2>3, <2>4
<1> QED
  BY <1>1, <1>4, <1>5, <1>6, <1>8, <1>9, TurnAgents DEF next

-----------------------------------------------------------------------------
(* What the provider answers.                                               *)

\* It answers a creation or a reconciliation.
LEMMA AnswerAgents ==
  ASSUME Control, Agents, Queued(host), Keyed(host'), LedgerIdle, NEW i \in Ids,
         host.call[i] \in {"launch", "reconcile"},
         NEW answer \in {"owned", "failed", "uncertain", "lane"}, host' = Resumed(i, answer),
         NEW x \in {agent[i], "live"}, agent' = [agent EXCEPT ![i] = x],
         answer = "owned" => x = "live",
         answer = "failed" => x = "none"
  PROVE  Agents'
<1>1. Shaped(host) /\ host = [f \in Fields |-> host[f]]
  BY DEF Control, Shaped, Keyed
<1>2. /\ Turned(host, host', i) /\ host'.ret = host.ret /\ host'.late = host.late
      /\ host'.call[i] = "none" /\ host'.preparing = host.preparing
      /\ host'.task[i] = IF host.task[i] = "call" THEN answer ELSE host.task[i]
  BY <1>1 DEF Resumed, Turned, Shaped, Fields
<1>3. Queued(host')
  BY <1>2 DEF Queued, Turned
<1>4. /\ agent' = [j \in Ids |-> agent'[j]] /\ agent'[i] = x
      /\ \A j \in Ids \ {i} : agent'[j] = agent[j]
  BY DEF Agents
<1>5. status = "closed" /\ Rested(host) => Rested(host')
  BY <1>2 DEF Rested, Turned
<1>6. /\ status' = status /\ mem' = mem /\ disk' = disk /\ issued' = issued /\ writer' = writer
  BY DEF LedgerIdle, ledgerVars
<1>7. ~Failing(i)
  BY DEF Agents, Nothing, Dead
<1>8. Nothing(i)'
  <2> SUFFICES ASSUME Failing(i)'
               PROVE  /\ agent'[i] = "none" /\ Dead(host', i)
                      /\ mem'.rec[i].state \in {"creating", "uncertain", "failed"}
    BY DEF Nothing
  <2>1. host.task[i] = "call" /\ answer = "failed" /\ x = "none" /\ host'.task[i] = "failed"
    BY <1>2, <1>6, <1>7 DEF Failing
  <2>2. status # "closed"
    BY <2>1 DEF Agents, Rested
  <2>3. Waits(host, mem, writer, i) /\ Tasked(host, mem, writer, i)
    BY <2>2 DEF Control, Tended
  <2>4. /\ host.ret[i] = "none" /\ i \notin Elems(host.queue)
        /\ mem.rec[i].state \in {"creating", "uncertain"}
    BY <2>1, <2>3 DEF Waits, Tasked, Answers
  <2> QED
    BY <1>2, <1>4, <1>6, <2>1, <2>4 DEF Dead, Turned
<1>9. ASSUME ~AfterRename PROVE Living(i)' /\ Remembered(i)'
  <2>1. Living(i) /\ Remembered(i)
    BY <1>9 DEF Agents
  <2>2. Alive(host', i) => Alive(host, i) \/ x = "live"
    BY <1>2 DEF Alive, NotPreparing, Turned
  <2>3. Living(i)'
    BY <1>2, <1>4, <1>6, <2>1, <2>2 DEF Living
  <2>4. Remembered(i)'
    BY <1>2, <1>4, <1>6, <2>1 DEF Remembered, Cleans, Turned
  <2> QED
    BY <2>3, <2>4
<1> QED
  BY <1>2, <1>3, <1>4, <1>5, <1>8, <1>9, TurnedOthers, IdleAgents

\* The provider answers a creation or a reconciliation.
LEMMA TaskAnswers ==
  ASSUME Control, Agents, Queued(host), Keyed(host'), NEW i \in Ids,
         LaunchSettles(i) \/ ReconcileSettles(i)
  PROVE  Agents'
<1>1. LedgerIdle /\ host.call[i] \in {"launch", "reconcile"}
  BY DEF LaunchSettles, ReconcileSettles, InMemory
<1>2. agent = [j \in Ids |-> agent[j]]
  BY DEF Agents
<1>3. agent = [agent EXCEPT ![i] = agent[i]]
  BY <1>2
<1>4. \E answer \in {"owned", "failed", "uncertain", "lane"}, x \in {agent[i], "live"} :
        /\ host' = Resumed(i, answer) /\ agent' = [agent EXCEPT ![i] = x]
        /\ answer = "owned" => x = "live"
        /\ answer = "failed" => x = "none"
  <2>1. CASE LaunchSettles(i)
    BY <1>3, <2>1 DEF LaunchSettles
  <2>2. CASE ReconcileSettles(i)
    <3>1. agent' = [agent EXCEPT ![i] = agent[i]]
      BY <1>3, <2>2 DEF ReconcileSettles, InMemory, world
    <3> QED
      BY <2>2, <3>1 DEF ReconcileSettles
  <2> QED
    BY <2>1, <2>2
<1> QED
  BY <1>1, <1>4, AnswerAgents

\* It answers a preparation, in time or late.
LEMMA PreparationAgents ==
  ASSUME Control, Agents, Queued(host), Keyed(host'),
         NEW i \in Ids, NEW p \in Providers, PreparationSettles(p, i)
  PROVE  Agents'
<1>1. Shaped(host) /\ host = [f \in Fields |-> host[f]]
  BY DEF Control, Shaped, Keyed
<1>2. host.ret = [j \in Ids |-> host.ret[j]]
  BY DEF Queued, Keyed
<1>3. LedgerIdle /\ UNCHANGED agent /\ host.preparing[p] = i
  BY DEF PreparationSettles, Prepares
<1> DEFINE h == [host EXCEPT !.preparing[p] = NoId]
<1>4. PICK answer :
        host' = IF h.ret[i] # "prepare" THEN LatePreparation(h, i, answer)
                ELSE IF answer = "blocked" THEN [h EXCEPT !.ret[i] = "over"]
                ELSE [h EXCEPT !.ret[i] = "begin", !.seen[i] = answer]
  BY DEF PreparationSettles, Prepared
<1>5. /\ h = [f \in Fields |-> h[f]] /\ \A f \in Fields \ {"preparing"} : h[f] = host[f]
      /\ \A q \in Providers : h.preparing[q] \in {host.preparing[q], NoId}
  BY <1>1 DEF Fields, Shaped
<1>6. /\ h.queue = host.queue /\ h.retq = host.retq /\ h.recovered = host.recovered
      /\ h.cleanQ = host.cleanQ /\ h.worker = host.worker /\ h.cleaning = host.cleaning
      /\ h.task = host.task /\ h.ret = host.ret /\ h.call = host.call /\ h.late = host.late
      /\ h.seen = host.seen
  BY <1>5 DEF Fields
<1> HIDE DEF h
<1>7. /\ Turned(host, host', i) /\ host'.task = host.task /\ host'.call = host.call
      /\ host.ret[i] # "prepare" => host'.ret = host.ret
      /\ host.ret[i] = "prepare" => host'.ret[i] \in {"over", "begin"}
  <2>1. CASE host.ret[i] # "prepare"
    BY <1>1, <1>4, <1>5, <1>6, <2>1 DEF LatePreparation, Turned, Shaped, Fields
  <2>2. CASE host.ret[i] = "prepare" /\ host' = [h EXCEPT !.ret[i] = "over"]
    BY <1>2, <1>5, <1>6, <2>2 DEF Turned, Fields
  <2>3. CASE host.ret[i] = "prepare" /\ host' = [h EXCEPT !.ret[i] = "begin", !.seen[i] = answer]
    BY <1>2, <1>5, <1>6, <2>3 DEF Turned, Fields
  <2> QED
    BY <1>4, <1>6, <2>1, <2>2, <2>3
<1>8. Spares(host, host', i)
  BY <1>7 DEF Spares, Dead, Turned
<1>9. Alive(host, i)
  BY <1>3 DEF Alive, NotPreparing
<1>10. Eases(host, host', i) /\ Cleaner(host, host', i)
  BY <1>7, <1>9 DEF Eases, Cleaner, Cleans, Turned
<1>11. Milder(host, host')
  BY <1>7, <1>8, <1>10, TurnedOthers DEF Milder, Queued, Turned
<1>12. status = "closed" /\ Rested(host) => Rested(host')
  BY <1>7 DEF Rested, Turned
<1> QED
  BY <1>3, <1>11, <1>12, MilderAgents

\* It answers a release.
LEMMA ReleaseAgents ==
  ASSUME Control, Agents, Queued(host), Keyed(host'), NEW i \in Ids, ReleaseSettles(i)
  PROVE  Agents'
<1>1. Shaped(host) /\ host = [f \in Fields |-> host[f]]
  BY DEF Control, Shaped, Keyed
<1>2. host.ret = [j \in Ids |-> host.ret[j]]
  BY DEF Queued, Keyed
<1>3. LedgerIdle /\ UNCHANGED agent /\ host.call[i] = "release"
  BY DEF ReleaseSettles
<1> DEFINE h == [host EXCEPT !.call[i] = "none",
                             !.ret[i] = IF @ = "release" THEN "over" ELSE @]
<1>4. host' = h \/ host' = [h EXCEPT !.fence = Unfenced(h, h.key[i], i)]
  BY DEF ReleaseSettles
<1>5. /\ h = [f \in Fields |-> h[f]] /\ Turned(host, h, i) /\ h.task = host.task
      /\ h.call[i] = "none" /\ h.late = host.late
      /\ h.ret[i] = host.ret[i] \/ (host.ret[i] = "release" /\ h.ret[i] = "over")
  BY <1>1, <1>2 DEF Turned, Shaped, Fields
<1> HIDE DEF h
<1>6. /\ Turned(host, host', i) /\ host'.task = host.task
      /\ host'.call[i] = "none" /\ host'.late = host.late
      /\ host'.ret[i] = host.ret[i] \/ (host.ret[i] = "release" /\ host'.ret[i] = "over")
  <2>1. CASE host' = h
    BY <1>5, <2>1
  <2>2. CASE host' = [h EXCEPT !.fence = Unfenced(h, h.key[i], i)]
    BY <1>5, <2>2 DEF Turned, Fields
  <2> QED
    BY <1>4, <2>1, <2>2
<1>7. Milder(host, host')
  BY <1>3, <1>6, TurnedMilder DEF Dead
<1>8. status = "closed" /\ Rested(host) => Rested(host')
  BY <1>6 DEF Rested, Turned
<1> QED
  BY <1>3, <1>7, <1>8, MilderAgents

\* It answers a deletion: what it deleted is retiring, and what it says it did
\* not delete is alive.
LEMMA DeletionAgents ==
  ASSUME Control, Agents, Queued(host), Keyed(host'), NEW i \in Ids, RetireSettles(i)
  PROVE  Agents'
<1>1. Shaped(host) /\ host = [f \in Fields |-> host[f]]
  BY DEF Control, Shaped, Keyed
<1>2. host.ret = [j \in Ids |-> host.ret[j]] /\ agent = [j \in Ids |-> agent[j]]
  BY DEF Queued, Keyed, Agents
<1>3. LedgerIdle /\ host.call[i] = "retire"
  BY DEF RetireSettles
<1>4. PICK answer \in {"retired", "blocked", "uncertain", "unsupported"} :
        /\ Retired(i, answer)
        /\ agent' = agent \/ agent' = [agent EXCEPT ![i] = "gone"]
        /\ answer = "blocked" => agent[i] = "live" /\ agent' = agent
        /\ answer = "unsupported" => agent' = agent
  BY DEF RetireSettles, Deleted, world
<1> DEFINE h == [host EXCEPT !.call[i] = "none"]
<1>5. host' = IF h.ret[i] # "retire" THEN LateRetirement(h, i, answer)
              ELSE [h EXCEPT !.ret[i] =
                      CASE answer = "retired" -> "complete"
                        [] answer = "blocked" -> "cancel"
                        [] answer = "unsupported" /\ ~h.recovered[i] -> "cancel"
                        [] OTHER -> "over"]
  BY <1>4 DEF Retired
<1>6. /\ h = [f \in Fields |-> h[f]] /\ Turned(host, h, i) /\ h.task = host.task
      /\ h.call[i] = "none" /\ h.late = host.late /\ h.ret = host.ret
      /\ h.recovered = host.recovered /\ h.preparing = host.preparing
  BY <1>1, <1>2 DEF Turned, Shaped, Fields
<1> HIDE DEF h
<1>7. /\ Turned(host, host', i) /\ host'.task = host.task /\ host'.call[i] = "none"
      /\ host'.preparing = host.preparing
      /\ host.ret[i] # "retire" =>
           /\ host'.ret = host.ret
           /\ host'.late[i] = "none" \/ (answer = "blocked" /\ host'.late[i] = "rolling")
      /\ host.ret[i] = "retire" =>
           /\ host'.late = host.late /\ host'.ret[i] \in {"complete", "cancel", "over"}
           /\ host'.ret[i] = "cancel" => answer = "blocked" \/
                                         (answer = "unsupported" /\ ~host.recovered[i])
  <2>1. CASE host.ret[i] # "retire"
    <3>1. host' = [h EXCEPT !.late[i] =
                     IF Serving /\ h.late[i] = "armed" /\ answer = "blocked"
                        /\ mem.rec[i].state = "retiring"
                     THEN "rolling" ELSE "none"]
      BY <1>5, <1>6, <2>1 DEF LateRetirement
    <3> QED
      BY <1>1, <1>6, <2>1, <3>1 DEF Turned, Shaped, Fields
  <2>2. CASE host.ret[i] = "retire"
    <3>1. PICK pc \in {"complete", "cancel", "over"} :
            /\ host' = [h EXCEPT !.ret[i] = pc]
            /\ pc = "cancel" => answer = "blocked" \/
                                (answer = "unsupported" /\ ~h.recovered[i])
      BY <1>4, <1>5, <1>6, <2>2
    <3> QED
      BY <1>2, <1>6, <2>2, <3>1 DEF Turned, Fields
  <2> QED
    BY <2>1, <2>2
<1>8. /\ status' = status /\ mem' = mem /\ disk' = disk /\ issued' = issued /\ writer' = writer
  BY <1>3 DEF LedgerIdle, ledgerVars
<1>9. /\ agent' = [j \in Ids |-> agent'[j]] /\ agent'[i] \in {agent[i], "gone"}
      /\ \A j \in Ids \ {i} : agent'[j] = agent[j]
      /\ answer \in {"blocked", "unsupported"} => agent'[i] = agent[i]
  BY <1>2, <1>4
<1>10. Queued(host')
  BY <1>7 DEF Queued, Turned
<1>11. status = "closed" /\ Rested(host) => Rested(host')
  BY <1>7 DEF Rested, Turned
<1>12. Nothing(i)'
  <2>1. ~Failing(i)
    BY <1>3 DEF Agents, Nothing, Dead
  <2> QED
    BY <1>7, <1>8, <2>1 DEF Nothing, Failing
<1>13. ASSUME ~AfterRename PROVE Living(i)' /\ Remembered(i)'
  <2>1. Living(i) /\ Remembered(i) /\ disk.rec[i].state = "retiring"
    BY <1>3, <1>13 DEF Agents, Living
  <2>2. status # "closed" =>
          /\ mem.rec[i].state = "retiring" /\ NotPreparing(host, i) /\ host.late[i] # "rolling"
          /\ host.task[i] = "none" /\ host.ret[i] \in {"retire", "over"}
    BY <1>3 DEF Control, Tended, Retires, Fenced, Lanes, Laned
  <2>3. status # "closed" /\ Alive(host', i) =>
          host'.ret[i] = "cancel" \/ host'.late[i] = "rolling"
    BY <1>7, <2>2 DEF Alive, NotPreparing
  <2>4. status # "closed" /\ Alive(host', i) => agent'[i] = "live"
    <3> SUFFICES ASSUME status # "closed", Alive(host', i) PROVE agent'[i] = "live"
      OBVIOUS
    <3>1. answer = "blocked" \/ (answer = "unsupported" /\ ~host.recovered[i] /\ host.ret[i] = "retire")
      BY <1>7, <2>2, <2>3
    <3>2. CASE answer = "blocked"
      BY <1>4, <3>2
    <3>3. CASE answer = "unsupported" /\ ~host.recovered[i] /\ host.ret[i] = "retire"
      BY <1>9, <2>1, <3>3 DEF Living, Alive
    <3> QED
      BY <3>1, <3>2, <3>3
  <2>5. Living(i)'
    BY <1>7, <1>8, <2>1, <2>2, <2>4 DEF Living
  <2>6. Tracked(Decoded(disk), i) /\ (status # "closed" => Tracked(mem, i) /\ ~Cleans(host, i))
    BY <2>1, <2>2, DecodedRecords DEF Tracked, Remembered
  <2>7. Remembered(i)'
    BY <1>7, <1>8, <2>6 DEF Remembered, Cleans, Turned
  <2> QED
    BY <2>5, <2>7
<1> QED
  BY <1>3, <1>7, <1>9, <1>10, <1>11, <1>12, <1>13, TurnedOthers, IdleAgents

\* The refresh is over: the provider is told to delete.
LEMMA RefreshedAgents ==
  ASSUME Control, Agents, Queued(host), Keyed(host'), NEW i \in Ids, Refreshed(i)
  PROVE  Agents'
<1>1. Shaped(host) /\ host = [f \in Fields |-> host[f]]
  BY DEF Control, Shaped, Keyed
<1>2. host.ret = [j \in Ids |-> host.ret[j]]
  BY DEF Queued, Keyed
<1>3. /\ LedgerIdle /\ UNCHANGED agent /\ host.ret[i] = "refresh"
      /\ host' = [host EXCEPT !.ret[i] = "retire", !.call[i] = "retire"]
  BY DEF Refreshed, InMemory, world
<1>4. /\ Turned(host, host', i) /\ host'.task = host.task /\ host'.late = host.late
      /\ host'.preparing = host.preparing /\ host'.ret[i] = "retire"
  BY <1>1, <1>2, <1>3 DEF Turned, Shaped, Fields
<1>5. status' = status /\ mem' = mem /\ disk' = disk /\ issued' = issued /\ writer' = writer
  BY <1>3 DEF LedgerIdle, ledgerVars
<1>6. status # "closed"
  BY <1>3 DEF Agents, Rested
<1>7. Queued(host')
  BY <1>4 DEF Queued, Turned
<1>8. Nothing(i)'
  <2>1. ~Failing(i)
    BY <1>3 DEF Agents, Nothing, Dead
  <2> QED
    BY <1>4, <1>5, <2>1 DEF Nothing, Failing
<1>9. ASSUME ~AfterRename PROVE Living(i)' /\ Remembered(i)'
  <2>1. Living(i) /\ Remembered(i) /\ ~ahead
    BY <1>9 DEF Agents
  <2>2. Fenced(host, mem, writer, i)
    BY <1>3, <1>6 DEF Control, Tended, Retires
  <2>3. disk.rec[i].state = "retiring"
    <3>1. status = "writing" => undo.rec[i] = mem.rec[i]
      BY <2>2 DEF Control, Change, Fenced
    <3>2. Decoded(disk) \in {mem, undo} /\ (status = "open" => Decoded(disk) = mem)
      BY <1>6, <2>1 DEF Control, IInv, TypeOK
    <3>3. status \in {"open", "writing"}
      BY <1>6 DEF Control, IInv, TypeOK
    <3> QED
      BY <2>2, <3>1, <3>2, <3>3, DecodedRecords DEF Fenced
  <2>4. Alive(host', i) => Alive(host, i)
    BY <1>3, <1>4 DEF Alive, NotPreparing, Turned
  <2>5. Living(i)'
    BY <1>3, <1>5, <2>1, <2>3, <2>4 DEF Living
  <2>6. Remembered(i)'
    BY <1>3, <1>4, <1>5, <2>1 DEF Remembered, Cleans, Turned
  <2> QED
    BY <2>5, <2>6
<1>10. status = "closed" /\ Rested(host) => Rested(host')
  BY <1>6
<1>11. agent' = [j \in Ids |-> agent'[j]]
  BY <1>3 DEF Agents
<1> QED
  BY <1>3, <1>4, <1>7, <1>8, <1>9, <1>10, <1>11, TurnedOthers, IdleAgents

-----------------------------------------------------------------------------
(* Retirements that begin, cleanups, and the lanes given up.                *)

\* A retirement is accepted of an owned launch, whose agent is alive, or taken
\* up again.
LEMMA RetireAgents ==
  ASSUME Control, Agents, Queued(host), Keyed(host'),
         NEW i \in Ids, NEW k \in RetireKeys[i], Retire(i, k)
  PROVE  Agents'
<1>1. Shaped(host) /\ host = [f \in Fields |-> host[f]] /\ k \in Keys
  BY CoordinatorAssumption DEF Control, Shaped, Keyed
<1>2. host.ret = [j \in Ids |-> host.ret[j]] /\ host.ret \in [Ids -> RetirePc]
      /\ host.key \in [Ids -> Keys \cup {NoKey}]
  BY DEF Queued, Keyed
<1> DEFINE r == (mem.rec[i].state = "retiring")
           h == [host EXCEPT !.retq = Append(@, i), !.ret[i] = "queued", !.key[i] = k,
                             !.recovered[i] = r, !.seen[i] = "none"]
<1>3. /\ LedgerIdle /\ UNCHANGED agent /\ host.ret[i] = "none"
      /\ status # "closed" /\ mem.rec[i].state \in {"owned", "retiring"}
      /\ host' = PumpRetirements(h, mem)
  BY DEF Retire, InMemory, world, Up, Control
<1>4. r \in BOOLEAN
  OBVIOUS
<1> HIDE DEF r
<1>5. /\ h = [f \in Fields |-> h[f]] /\ h.waiting = host.waiting
      /\ h.ret = [host.ret EXCEPT ![i] = "queued"] /\ h.key = [host.key EXCEPT ![i] = k]
      /\ h.queue = host.queue /\ h.retq = Append(host.retq, i)
      /\ h.task = host.task /\ h.call = host.call /\ h.late = host.late
      /\ h.preparing = host.preparing /\ h.recovered[i] = r
      /\ \A j \in Ids \ {i} : h.recovered[j] = host.recovered[j]
      /\ h.cleanQ = host.cleanQ /\ h.worker = host.worker /\ h.cleaning = host.cleaning
  BY <1>1 DEF Fields, Shaped
<1> HIDE DEF h
<1>6. Queued(h)
  <2>1. Append(host.retq, i) \in Seq(Ids)
    BY AppendProperties DEF Queued
  <2>2. Keyed(h)
    <3>1. host.waiting \in [Keys -> Requests \cup {NoRequest}]
      BY DEF Queued, Keyed
    <3>2. h.ret \in [Ids -> RetirePc] /\ h.key \in [Ids -> Keys \cup {NoKey}]
      <4>1. /\ host.ret \in [Ids -> RetirePc] /\ host.key \in [Ids -> Keys \cup {NoKey}]
            /\ k \in Keys /\ "queued" \in RetirePc
        BY <1>1, <1>2 DEF RetirePc
      <4>2. /\ h.ret = [host.ret EXCEPT ![i] = "queued"]
            /\ h.key = [host.key EXCEPT ![i] = k]
        BY <1>5
      <4> QED
        BY <4>1, <4>2
    <3>3. ASSUME NEW j \in Ids, h.ret[j] \in {"queued", "prepare", "begin"}
          PROVE  h.key[j] \in Keys
      <4>1. CASE j = i
        BY <1>1, <1>2, <1>5, <4>1
      <4>2. CASE j # i
        <5>1. h.ret[j] = host.ret[j] /\ h.key[j] = host.key[j]
          BY <1>2, <1>5, <4>2
        <5> QED
          BY <3>3, <5>1 DEF Queued, Keyed
      <4> QED
        BY <4>1, <4>2
    <3> QED
      BY <1>5, <3>1, <3>2, <3>3 DEF Keyed
  <2> QED
    BY <1>5, <2>1, <2>2 DEF Queued
<1>7. Milder(h, host')
  BY <1>3, <1>6, PumpRetirementsMilder
<1>8. ASSUME NEW j \in Ids \ {i}
      PROVE  Spares(host, host', j) /\ Eases(host, host', j) /\ Cleaner(host, host', j)
  <2>1. Spares(host, h, j) /\ Eases(host, h, j) /\ Cleaner(host, h, j)
    <3>1. h.ret[j] = host.ret[j] /\ h.recovered[j] = host.recovered[j]
      BY <1>2, <1>5
    <3>2. Dead(h, j) <=> Dead(host, j)
      BY <1>5, <3>1 DEF Dead
    <3>3. Alive(h, j) <=> Alive(host, j)
      BY <1>5, <3>1 DEF Alive, NotPreparing
    <3> QED
      BY <1>5, <3>2, <3>3 DEF Spares, Eases, Cleaner, Cleans
  <2> QED
    BY <1>7, <2>1 DEF Milder, Spares, Eases, Cleaner
<1>9. /\ status' = status /\ mem' = mem /\ disk' = disk /\ issued' = issued /\ writer' = writer
      /\ agent' = agent
  BY <1>3 DEF LedgerIdle, ledgerVars
<1>10. Nothing(i)'
  <2>1. ~Failing(i)
    BY <1>3 DEF Agents, Nothing
  <2> QED
    BY <1>5, <1>7, <1>9, <2>1 DEF Nothing, Failing, Milder, Eases
<1>11. ASSUME ~AfterRename PROVE Living(i)' /\ Remembered(i)'
  <2>1. Living(i) /\ Remembered(i)
    BY <1>11 DEF Agents
  <2>2. Alive(h, i) => Alive(host, i) \/ mem.rec[i].state = "owned"
    <3>1. h.ret[i] = "queued" /\ (~r => mem.rec[i].state = "owned")
      BY <1>2, <1>3, <1>5 DEF r
    <3>2. ~NotPreparing(h, i) => ~NotPreparing(host, i)
      BY <1>5 DEF NotPreparing
    <3> QED
      BY <1>5, <3>1, <3>2 DEF Alive
  <2>3. /\ Alive(host', i) => Alive(h, i)
        /\ host'.call[i] = "retire" => h.call[i] = "retire"
        /\ Cleaner(h, host', i)
    BY <1>7 DEF Milder, Eases
  <2>4. Living(i)'
    BY <1>3, <1>5, <1>9, <2>1, <2>2, <2>3 DEF Living
  <2>5. Remembered(i)'
    BY <1>5, <1>9, <2>1, <2>3 DEF Remembered, Cleaner, Cleans
  <2> QED
    BY <2>4, <2>5
<1>12. agent' = [j \in Ids |-> agent'[j]] /\ Queued(host')
  BY <1>7, <1>9 DEF Agents, Milder
<1> QED
  BY <1>3, <1>8, <1>9, <1>10, <1>11, <1>12, IdleAgents

\* The provider finalizes a cleanup, or does not.
LEMMA FinalizedAgents ==
  ASSUME Control, Agents, Queued(host), Keyed(host'), NEW i \in Ids, Finalized(i)
  PROVE  Agents'
<1>1. host = [f \in Fields |-> host[f]] /\ agent = [j \in Ids |-> agent[j]]
  BY DEF Queued, Keyed, Agents
<1> DEFINE x == IF agent[i] = "gone" THEN "forgotten" ELSE agent[i]
           cleared == [agent EXCEPT ![i] = x]
<1>2. /\ LedgerIdle /\ host.worker = "finalize" /\ host.cleaning = i
      /\ \/ host' = [host EXCEPT !.worker = "record"] /\ agent' = cleared
         \/ host' = LoopCleanup(host) /\ agent' = agent
         \/ host' = PausedCleanup(host) /\ (agent' = agent \/ agent' = cleared)
  BY <1>1 DEF Finalized
<1>3. /\ agent' = [j \in Ids |-> agent'[j]]
      /\ \A j \in Ids \ {i} : agent'[j] = agent[j]
      /\ agent' = agent \/ (agent' = cleared /\ agent'[i] = x)
  BY <1>1, <1>2
<1>4. \A y \in {"none", "live", "gone"} : agent'[i] = y => agent[i] = y
  BY <1>1, <1>3
<1>5. /\ agent[i] = "live" => agent'[i] = "live"
      /\ agent[i] = "none" => agent'[i] = "none"
      /\ agent' = cleared => agent'[i] # "gone"
  BY <1>1, <1>3
<1> HIDE DEF x, cleared
<1>6. /\ Queued(host') /\ \A j \in Ids : Spares(host, host', j) /\ Eases(host, host', j)
      /\ \A j \in Ids : Cleans(host', j) => Cleans(host, j)
      /\ \A j \in Ids : host'.worker = "record" /\ host'.cleaning = j => j = i /\ agent' = cleared
      /\ host'.task = host.task /\ host'.ret = host.ret
  <2>1. CASE host' = [host EXCEPT !.worker = "record"] /\ agent' = cleared
    <3>1. /\ host'.queue = host.queue /\ host'.retq = host.retq /\ host'.task = host.task
          /\ host'.ret = host.ret /\ host'.call = host.call /\ host'.recovered = host.recovered
          /\ host'.late = host.late /\ host'.preparing = host.preparing
          /\ host'.cleanQ = host.cleanQ /\ host'.cleaning = host.cleaning
      BY <1>1, <2>1 DEF Fields
    <3> QED
      BY <1>2, <2>1, <3>1 DEF Queued, Spares, Eases, Dead, Alive, Cleans, NotPreparing
  <2>2. CASE host' = LoopCleanup(host) \/ host' = PausedCleanup(host)
    <3>1. Milder(host, host')
      BY <2>2, CleanupMilder
    <3>2. host'.task = host.task /\ host'.ret = host.ret
      BY ZenonT(60), <1>1, <2>2 DEF LoopCleanup, NextCleanup, PausedCleanup, Fields
    <3> QED
      BY <1>2, <3>1, <3>2 DEF Milder, Cleaner
  <2> QED
    BY <1>2, <2>1, <2>2
<1>7. /\ status' = status /\ mem' = mem /\ disk' = disk /\ issued' = issued /\ writer' = writer
  BY <1>2 DEF LedgerIdle, ledgerVars
<1>8. ASSUME NEW j \in Ids
      PROVE  Nothing(j)' /\ (~AfterRename => Living(j)' /\ Remembered(j)')
  <2>1. /\ agent[j] = "live" => agent'[j] = "live"
        /\ agent[j] = "none" => agent'[j] = "none"
        /\ agent'[j] = "gone" => agent[j] = "gone"
    BY <1>3, <1>4, <1>5
  <2>2. Nothing(j)'
    BY <1>6, <1>7, <2>1 DEF Agents, Nothing, Failing, Spares, Eases
  <2>3. ASSUME ~AfterRename PROVE Living(j)'
    BY <1>6, <1>7, <2>1, <2>3 DEF Agents, Living, Eases
  <2>4. ASSUME ~AfterRename PROVE Remembered(j)'
    BY <1>5, <1>6, <1>7, <2>1, <2>4 DEF Agents, Remembered
  <2> QED
    BY <2>2, <2>3, <2>4
<1>9. status = "closed" /\ Rested(host) => Rested(host')
  BY <1>6 DEF Rested
<1> QED
  BY <1>2, <1>3, <1>6, <1>8, <1>9, IdleAgents

\* The decision is published; what was deleted joins #cleanupQueue.
LEMMA RepublishedAgents ==
  ASSUME Control, Agents, Queued(host), Keyed(host'), NEW i \in Ids, Republished(i)
  PROVE  Agents'
<1>1. Shaped(host) /\ host = [f \in Fields |-> host[f]]
  BY DEF Control, Shaped, Keyed
<1>2. host.ret = [j \in Ids |-> host.ret[j]] /\ host.ret \in [Ids -> RetirePc]
  BY DEF Queued, Keyed
<1>3. LedgerIdle /\ UNCHANGED agent /\ host.ret[i] = "republish"
  BY DEF Republished, InMemory, world
<1>4. status # "closed"
  BY <1>3 DEF Agents, Rested
<1> DEFINE h == [host EXCEPT !.ret[i] = "over"]
           g == [h EXCEPT !.cleanQ = Append(@, i)]
<1>5. host' = h \/ (mem.cleanups[i] # NoKey /\ host' = PumpCleanup(g))
  BY DEF Republished
<1>6. /\ h = [f \in Fields |-> h[f]] /\ Turned(host, h, i) /\ Keyed(h)
      /\ h.task = host.task /\ h.call = host.call /\ h.late = host.late /\ h.ret[i] = "over"
  <2>1. Keyed(host) /\ "over" \in RetirePc \ {"queued", "prepare", "begin"}
    BY DEF Queued, RetirePc
  <2>2. h = Reached(host, i, "over")
    BY DEF Reached
  <2> HIDE DEF h
  <2>3. /\ Turned(host, h, i) /\ Keyed(h) /\ h.ret[i] = "over"
        /\ h.task = host.task /\ h.call = host.call /\ h.late = host.late
    BY <2>1, <2>2, RetirementTurned
  <2> QED
    BY <2>3 DEF Keyed
<1> HIDE DEF h
<1>7. Milder(host, h)
  BY <1>3, <1>6, TurnedMilder DEF Dead
<1>8. CASE host' = h
  BY <1>3, <1>4, <1>7, <1>8, MilderAgents
<1>9. CASE mem.cleanups[i] # NoKey /\ host' = PumpCleanup(g)
  <2>1. /\ g = [f \in Fields |-> g[f]] /\ g.cleanQ = Append(h.cleanQ, i)
        /\ g.queue = h.queue /\ g.retq = h.retq /\ g.task = h.task /\ g.ret = h.ret
        /\ g.call = h.call /\ g.recovered = h.recovered /\ g.late = h.late
        /\ g.preparing = h.preparing /\ g.waiting = h.waiting /\ g.key = h.key
        /\ g.worker = h.worker /\ g.cleaning = h.cleaning
    BY <1>6 DEF Fields
  <2>2. g.cleanQ \in Seq(Ids) /\ Elems(g.cleanQ) \subseteq Elems(h.cleanQ) \cup {i}
    <3> DEFINE q == h.cleanQ  a == Append(q, i)
    <3>1. /\ q \in Seq(Ids) /\ a \in Seq(Ids) /\ Len(a) = Len(q) + 1 /\ Len(q) \in Nat
          /\ DOMAIN q = 1..Len(q) /\ DOMAIN a = 1..Len(a)
          /\ \A m \in 1..Len(q) : a[m] = q[m]
          /\ a[Len(q) + 1] = i
      BY <1>7, AppendProperties, LenProperties DEF Milder, Queued
    <3> HIDE DEF q, a
    <3>2. Elems(a) \subseteq Elems(q) \cup {i}
      BY <3>1 DEF Elems
    <3> QED
      BY <2>1, <3>1, <3>2 DEF q, a
  <2> HIDE DEF g
  <2>3. Queued(g)
    BY <1>6, <1>7, <2>1, <2>2 DEF Milder, Queued, Keyed
  <2>4. /\ \A j \in Ids : Spares(host, g, j) /\ Eases(host, g, j)
        /\ \A j \in Ids \ {i} : Cleaner(host, g, j)
    BY <1>7, <2>1, <2>2 DEF Milder, Spares, Eases, Cleaner, Dead, Alive, Cleans, NotPreparing
  <2>5. Milder(g, host')
    BY <1>9, <2>3, CleanupMilder
  <2>6. /\ \A j \in Ids : Spares(host, host', j) /\ Eases(host, host', j)
        /\ \A j \in Ids \ {i} : Cleaner(host, host', j)
        /\ host'.worker = "record" /\ host'.cleaning = i =>
             host.worker = "record" /\ host.cleaning = i
    <3>1. g.worker = host.worker /\ g.cleaning = host.cleaning
      BY <1>6, <2>1 DEF Turned
    <3> QED
      BY <2>4, <2>5, <3>1 DEF Milder, Spares, Eases, Cleaner
  <2>7. /\ status' = status /\ mem' = mem /\ disk' = disk /\ issued' = issued /\ writer' = writer
        /\ agent' = agent
    BY <1>3 DEF LedgerIdle, ledgerVars
  <2>8. Nothing(i)'
    BY <2>6, <2>7 DEF Agents, Nothing, Failing, Spares, Eases
  <2>9. ASSUME ~AfterRename PROVE Living(i)' /\ Remembered(i)'
    <3>1. Living(i) /\ Remembered(i)
      BY <2>9 DEF Agents
    <3>2. Living(i)'
      BY <2>6, <2>7, <3>1 DEF Living, Eases
    <3>3. i \in issued /\ mem.rec[i].state = "absent"
      BY <1>9 DEF Control, IInv, Fit, Mentioned, Sound, OneHomePerLaunch, Owing
    <3>4. Op(writer, i) \in {"nobody", "record"}
      <4>1. CASE status = "open"
        <5>1. writer = Nobody
          BY <4>1 DEF Control
        <5> QED
          BY <5>1 DEF Op, Nobody
      <4>2. CASE status = "writing"
        <5>1. /\ Change(undo, mem, writer, i) /\ Laned(host, i)
              /\ Tends(host, mem, writer, i)
          BY <4>2 DEF Control, Lanes, Tended, Tends
        <5> QED
          BY <1>3, <5>1 DEF Change, Tends, Tasked, Retires, Laned, Answers
      <4> QED
        BY <1>4, <4>1, <4>2 DEF Control, IInv, TypeOK
    <3>5. Remembered(i)'
      BY <2>6, <2>7, <3>1, <3>3, <3>4 DEF Remembered
    <3> QED
      BY <3>2, <3>5
  <2>10. agent' = [j \in Ids |-> agent'[j]] /\ Queued(host')
    BY <2>5, <2>7 DEF Agents, Milder
  <2> QED
    BY <1>3, <1>4, <2>6, <2>7, <2>8, <2>9, <2>10, IdleAgents
<1> QED
  BY <1>5, <1>8, <1>9

\* A task or a retirement ends, and its lane goes to whoever waits.
LEMMA LaneAgents ==
  ASSUME Control, Agents, Queued(host), NEW i \in Ids, TaskEnds(i) \/ RetirementEnds(i)
  PROVE  Agents'
<1>1. Shaped(host) /\ host = [f \in Fields |-> host[f]]
  BY DEF Control, Shaped, Keyed
<1>2. host.ret = [j \in Ids |-> host.ret[j]] /\ host.ret \in [Ids -> RetirePc]
  BY DEF Queued, Keyed
<1>3. LedgerIdle /\ UNCHANGED agent
  BY DEF TaskEnds, RetirementEnds, InMemory, world
<1>4. PICK g : /\ \/ g = [host EXCEPT !.task[i] = "none"] /\ host.task[i] = "lane"
                  \/ g = [host EXCEPT !.ret[i] = "none"] /\ host.ret[i] = "over"
               /\ \/ host' = Pump(PumpRetirements(Freed(g, i), mem), mem) /\ Serving
                  \/ host' = PumpRetirements(Pump(Freed(g, i), mem), mem) /\ Serving
                  \/ host' = Freed(g, i)
  BY DEF TaskEnds, RetirementEnds
<1>5. Milder(host, g) /\ (Rested(host) => Rested(g))
  <2>1. CASE g = [host EXCEPT !.task[i] = "none"] /\ host.task[i] = "lane"
    <3>1. /\ Turned(host, g, i) /\ Keyed(g) /\ g.ret = host.ret /\ g.call = host.call
          /\ g.late = host.late /\ g.task[i] = "none"
      BY <1>1, <1>2, <2>1 DEF Turned, Shaped, Keyed, Fields
    <3> QED
      BY <2>1, <3>1, TurnedMilder DEF Dead, Rested
  <2>2. CASE g = [host EXCEPT !.ret[i] = "none"] /\ host.ret[i] = "over"
    <3>1. /\ Turned(host, g, i) /\ Keyed(g) /\ g.task = host.task /\ g.call = host.call
          /\ g.late = host.late /\ g.ret[i] = "none"
      <4>1. Keyed(host) /\ "none" \in RetirePc \ {"queued", "prepare", "begin"}
        BY DEF Queued, RetirePc
      <4>2. g = Reached(host, i, "none")
        BY <2>2 DEF Reached
      <4> QED
        BY <4>1, <4>2, RetirementTurned
    <3> QED
      BY ZenonT(60), <2>2, <3>1, TurnedMilder DEF Dead, Rested, Turned
  <2> QED
    BY <1>4, <2>1, <2>2
<1>6. Milder(host, Freed(g, i)) /\ Queued(Freed(g, i)) /\ (Rested(g) => Rested(Freed(g, i)))
  <2>1. Milder(g, Freed(g, i))
    BY <1>5, FreedMilder DEF Milder
  <2>2. Freed(g, i).task = g.task /\ Freed(g, i).ret = g.ret
    BY <1>5 DEF Freed, Fields, Milder, Queued, Keyed
  <2> HIDE DEF Freed
  <2> QED
    BY <1>5, <2>1, <2>2, MilderStill DEF Milder, Rested
<1>7. Milder(host, host')
  <2> DEFINE f == Freed(g, i)  a == PumpRetirements(f, mem)  b == Pump(f, mem)
  <2> HIDE DEF f, a, b
  <2>1. Milder(f, a) /\ Milder(f, b) /\ Queued(f) /\ Milder(host, f)
    BY <1>6, PumpMilder, PumpRetirementsMilder DEF f, a, b
  <2>2. Milder(host, a) /\ Milder(host, b) /\ Queued(a) /\ Queued(b)
    BY <2>1, MilderStill DEF Milder
  <2>3. Milder(a, Pump(a, mem)) /\ Milder(b, PumpRetirements(b, mem))
    BY <2>2, PumpMilder, PumpRetirementsMilder
  <2>4. Milder(host, Pump(a, mem)) /\ Milder(host, PumpRetirements(b, mem))
    BY <2>2, <2>3, MilderStill
  <2> QED
    BY <1>4, <2>1, <2>4 DEF f, a, b
<1>8. status = "closed" /\ Rested(host) => Rested(host')
  BY <1>4, <1>5, <1>6 DEF Control, Serving
<1> QED
  BY <1>3, <1>7, <1>8, MilderAgents

\* Submissions, deadlines, refusals; the end of start(), and stop().
LEMMA QuietAgents ==
  ASSUME Control, Agents, Queued(host), Keyed(host'),
         \/ \E k \in Keys, r \in Requests : Submit(k, r)
         \/ \E k \in SubmitKeys : SubmitRefused(k)
         \/ StartEnds \/ Stop
         \/ \E i \in Ids : \/ Deadline(i) \/ BeginRefused(i) \/ PreparationDeadline(i)
                           \/ ReleaseDeadline(i) \/ RefreshAborted(i) \/ RetireDeadline(i)
                           \/ RollbackEnds(i)
  PROVE  Agents'
<1>1. Shaped(host) /\ host = [f \in Fields |-> host[f]]
  BY DEF Control, Shaped, Keyed
<1>2. host.ret = [j \in Ids |-> host.ret[j]]
  BY DEF Queued, Keyed
<1>3. CASE \/ \E k \in Keys, r \in Requests : Submit(k, r)
           \/ \E k \in SubmitKeys : SubmitRefused(k)
  <2>1. PICK k, x : /\ LedgerIdle /\ UNCHANGED agent
                    /\ host' = [host EXCEPT !.waiting[k] = x]
    BY <1>3 DEF Submit, SubmitRefused, InMemory, world
  <2>2. /\ host'.queue = host.queue /\ host'.retq = host.retq /\ host'.task = host.task
        /\ host'.ret = host.ret /\ host'.call = host.call /\ host'.recovered = host.recovered
        /\ host'.late = host.late /\ host'.preparing = host.preparing
        /\ host'.cleanQ = host.cleanQ /\ host'.worker = host.worker
        /\ host'.cleaning = host.cleaning
    BY <1>1, <2>1 DEF Fields
  <2>3. Milder(host, host') /\ (Rested(host) => Rested(host'))
    BY <2>2, UnmovedMilder DEF Rested
  <2> QED
    BY <2>1, <2>3, MilderAgents
<1>4. CASE StartEnds
  <2>1. LedgerIdle /\ UNCHANGED agent /\ host' = PumpCleanup(Pump(host, mem))
    BY <1>4 DEF StartEnds, world
  <2>2. status # "closed"
    BY <1>4 DEF StartEnds, Control
  <2>3. Milder(host, Pump(host, mem)) /\ Queued(Pump(host, mem))
    BY PumpMilder DEF Milder
  <2>4. Milder(Pump(host, mem), PumpCleanup(Pump(host, mem)))
    BY <2>3, CleanupMilder
  <2>5. Milder(host, host')
    BY <2>1, <2>3, <2>4, MilderStill
  <2> QED
    BY <2>1, <2>2, <2>5, MilderAgents
<1>5. CASE Stop
  <2>1. /\ LedgerIdle /\ UNCHANGED agent
        /\ host' = [host EXCEPT !.queue = <<>>, !.retq = <<>>,
                          !.ret = [i \in Ids |-> IF host.ret[i] = "queued"
                                                 THEN "none" ELSE host.ret[i]]]
    BY <1>5 DEF Stop, world
  <2>2. status # "closed"
    BY <1>5 DEF Stop, Control, Up
  <2>3. /\ host'.queue = <<>> /\ host'.retq = <<>> /\ host'.task = host.task
        /\ host'.call = host.call /\ host'.recovered = host.recovered
        /\ \A i \in Ids : host'.ret[i] = IF host.ret[i] = "queued" THEN "none" ELSE host.ret[i]
        /\ host'.late = host.late /\ host'.preparing = host.preparing
        /\ host'.cleanQ = host.cleanQ /\ host'.worker = host.worker
        /\ host'.cleaning = host.cleaning
    BY <1>1, <2>1 DEF Fields
  <2>4. Elems(<<>>) = {} /\ <<>> \in Seq(Ids)
    BY DEF Elems
  <2>5. Milder(host, host')
    BY <2>3, <2>4 DEF Milder, Queued, Spares, Eases, Cleaner, Dead, Alive, Cleans, NotPreparing
  <2> QED
    BY <2>1, <2>2, <2>5, MilderAgents
<1>6. ASSUME NEW i \in Ids,
             \/ Deadline(i) \/ BeginRefused(i) \/ PreparationDeadline(i) \/ ReleaseDeadline(i)
             \/ RefreshAborted(i) \/ RetireDeadline(i) \/ RollbackEnds(i)
      PROVE  Agents'
  <2>1. LedgerIdle /\ UNCHANGED agent
    BY <1>6 DEF Deadline, BeginRefused, PreparationDeadline, ReleaseDeadline, RefreshAborted,
                RetireDeadline, RollbackEnds, InMemory, world
  <2>2. Milder(host, host')
    BY <1>6, IdleMilder
  <2>3. status = "closed" /\ Rested(host) => Rested(host')
    <3>1. CASE RollbackEnds(i)
      <4>1. host'.task = host.task /\ host'.ret = host.ret
        BY <1>1, <3>1 DEF RollbackEnds, Fields
      <4> QED
        BY <4>1 DEF Rested
    <3>2. CASE ~RollbackEnds(i)
      BY <1>6, <3>2 DEF Rested, Deadline, BeginRefused, PreparationDeadline, ReleaseDeadline,
                        RefreshAborted, RetireDeadline
    <3> QED
      BY <3>1, <3>2
  <2> QED
    BY <2>1, <2>2, <2>3, MilderAgents
<1> QED
  BY <1>3, <1>4, <1>5, <1>6

\* start() fails after it migrated the file: the records are what they were.
LEMMA StartFailAgents ==
  ASSUME Control, Agents, StartFails
  PROVE  Agents'
<1>1. /\ UNCHANGED <<status, mem, ahead, issued, host, writer, agent>>
      /\ disk' = [disk EXCEPT !.legacy = FALSE]
  BY DEF StartFails, OpenFailsMigrated, world
<1>2. disk'.rec = disk.rec /\ Decoded(disk') = Decoded(disk)
  BY <1>1, DecodedShape, DecodedRecords DEF Control, IInv, TypeOK
<1>3. ASSUME NEW i \in Ids
      PROVE  Nothing(i)' /\ (~AfterRename => Living(i)' /\ Remembered(i)')
  <2>1. Nothing(i)'
    BY <1>1, <1>2 DEF Agents, Nothing, Failing
  <2>2. ASSUME ~AfterRename PROVE Living(i)'
    BY <1>1, <1>2, <2>2 DEF Agents, Living
  <2>3. ASSUME ~AfterRename PROVE Remembered(i)'
    BY <1>1, <1>2, <2>3 DEF Agents, Remembered
  <2> QED
    BY <2>1, <2>2, <2>3
<1> QED
  BY <1>1, <1>3 DEF Agents

\* What a call in flight may have done when the process ends.
LEMMA LostAgents ==
  ASSUME LostEffects
  PROVE  /\ agent' = [i \in Ids |-> agent'[i]]
         /\ \A i \in Ids :
              \/ agent'[i] = agent[i]
              \/ host.call[i] = "launch" /\ agent'[i] = "live"
              \/ host.call[i] = "retire" /\ agent[i] = "live" /\ agent'[i] = "gone"
              \/ host.cleaning = i /\ agent[i] = "gone" /\ agent'[i] = "forgotten"
  BY DEF LostEffects

\* The process is gone, and nobody asks anything of the agents but the file,
\* which is the one before the write in progress or the one after.
LEMMA GoneAgents ==
  ASSUME Control, Agents, LostEffects, host' = Idle, status' = "closed", mem' = Empty \/ mem' = mem,
         disk'.rec \in {disk.rec, mem.rec}, Decoded(disk') \in {Decoded(disk), mem},
         status = "closed" => disk' = disk, ~AfterRename => ~ahead'
  PROVE  Agents'
<1>1. /\ Rested(Idle) /\ Idle.cleanQ = <<>>
      /\ \A i \in Ids : Idle.task[i] = "none" /\ Dead(Idle, i) /\ Idle.call[i] = "none"
  BY DEF Idle, Rested, Dead, Elems
<1>2. <<>> \in Seq(Ids)
  OBVIOUS
<1>3. ASSUME NEW i \in Ids
      PROVE  Nothing(i)' /\ (~AfterRename => Living(i)' /\ Remembered(i)')
  <2>0. /\ \/ agent'[i] = agent[i]
           \/ host.call[i] = "launch" /\ agent'[i] = "live"
           \/ host.call[i] = "retire" /\ agent[i] = "live" /\ agent'[i] = "gone"
           \/ host.cleaning = i /\ agent[i] = "gone" /\ agent'[i] = "forgotten"
        /\ Empty.rec[i].state = "absent"
    BY LostAgents DEF Empty, Absent
  <2>1. Nothing(i)'
    <3> SUFFICES ASSUME Failing(i)' PROVE agent'[i] = "none"
      BY <1>1 DEF Nothing
    <3>1. Failing(i)
      BY <1>1, <2>0 DEF Failing
    <3>2. agent[i] = "none" /\ host.call[i] = "none"
      BY <3>1 DEF Agents, Nothing, Dead
    <3> QED
      BY <2>0, <3>2
  <2>2. CASE ~AfterRename
    <3>1. ~ahead /\ Living(i) /\ Remembered(i)
      BY <2>2 DEF Agents
    <3>2. host.call[i] = "retire" =>
            /\ disk.rec[i].state = "retiring"
            /\ status # "closed" => mem.rec[i].state = "retiring"
      BY <3>1, DeletingRecorded DEF Living
    <3>3. Living(i)'
      <4>1. disk'.rec[i].state = "owned" => agent[i] = "live" /\ host.call[i] # "retire"
        BY <3>1, <3>2 DEF Living
      <4> QED
        BY <1>1, <2>0, <4>1 DEF Living
    <3>4. Remembered(i)'
      <4>1. agent'[i] = "gone" => agent[i] = "gone" \/ host.call[i] = "retire"
        BY <2>0
      <4>2. CASE agent[i] = "gone"
        BY <3>1, <4>2 DEF Remembered
      <4>3. CASE host.call[i] = "retire"
        <5>1. Tracked(Decoded(disk), i) /\ (status # "closed" => Tracked(mem, i))
          BY <3>2, <4>3, DecodedRecords DEF Tracked
        <5> QED
          BY <5>1 DEF Remembered
      <4> QED
        BY <4>1, <4>2, <4>3 DEF Remembered
    <3> QED
      BY <2>1, <3>3, <3>4
  <2> QED
    BY <2>1, <2>2
<1> QED
  BY <1>1, <1>2, <1>3, LostAgents DEF Agents

\* The process dies, fails to start, or ends after stop().
LEMMA EndingAgents ==
  ASSUME Control, Agents, Dies \/ Exits \/ \E i \in Ids : InterruptFails(i)
  PROVE  Agents'
<1>1. CASE Dies \/ \E i \in Ids : InterruptFails(i)
  <2>1. Crash /\ LostEffects /\ host' = Idle
    BY <1>1 DEF Dies, InterruptFails, ProcessEnds
  <2>2. /\ status # "closed" /\ status' = "closed" /\ mem' = Empty /\ ahead' = FALSE
        /\ disk' = disk \/ (status = "writing" /\ disk' = Encoded(mem, compact))
    BY <2>1 DEF Crash, Forgotten
  <2>3. Encoded(mem, compact).rec = mem.rec /\ Decoded(Encoded(mem, compact)) = mem
    BY WrittenFile DEF Control, IInv, TypeOK
  <2>4. disk'.rec \in {disk.rec, mem.rec} /\ Decoded(disk') \in {Decoded(disk), mem}
    BY <2>2, <2>3
  <2> QED
    BY <2>1, <2>2, <2>4, GoneAgents
<1>2. CASE Exits
  <2>1. /\ status = "closed" /\ LostEffects /\ host' = Idle
        /\ status' = status /\ mem' = mem /\ disk' = disk /\ ahead' = ahead
    BY <1>2 DEF Exits, LedgerIdle, ledgerVars, Control
  <2>2. ~AfterRename => ~ahead
    BY DEF Agents
  <2> QED
    BY <2>1, <2>2, GoneAgents
<1> QED
  BY <1>1, <1>2

\* stop() closes the ledger: nobody works any more.
LEMMA ReleasedAgents ==
  ASSUME Control, Agents, Queued(host), Released
  PROVE  Agents'
<1>1. /\ status' = "closed" /\ mem' = Empty /\ ahead' = FALSE
      /\ disk' = disk /\ agent' = agent /\ Rested(host)
  BY DEF Released, Close, Forgotten, world, Rested
<1>2. /\ host'.queue = host.queue /\ host'.task = host.task /\ host'.ret = host.ret
      /\ host'.call = host.call /\ host'.cleanQ = host.cleanQ
  BY DEF Released, Queued, Keyed, Fields
<1>3. ASSUME NEW i \in Ids
      PROVE  Nothing(i)' /\ (~AfterRename => Living(i)' /\ Remembered(i)')
  <2>1. Empty.rec[i].state = "absent"
    BY DEF Empty, Absent
  <2>2. Nothing(i)'
    BY <1>1, <1>2, <2>1 DEF Agents, Nothing, Failing, Dead
  <2>3. ASSUME ~AfterRename PROVE Living(i)'
    BY <1>1, <1>2, <2>3 DEF Agents, Living
  <2>4. ASSUME ~AfterRename PROVE Remembered(i)'
    BY <1>1, <2>4 DEF Agents, Remembered
  <2> QED
    BY <2>2, <2>3, <2>4
<1>4. Rested(host')
  BY <1>1, <1>2 DEF Rested
<1> QED
  BY <1>1, <1>2, <1>3, <1>4 DEF Agents

\* What start() has loaded works for no dead launch, holds nothing to be alive
\* and cleans up what the file owes.
LEMMA LoadedAgents ==
  ASSUME NEW d \in Document, RecordsCoherent(d), NEW cq \in Fresh(Owing(d)),
         NEW q \in Fresh(InState(d, {"requested", "uncertain"})),
         NEW r \in Fresh(InState(d, {"retiring"})), NEW h, h = Loaded(d, cq, q, r)
  PROVE  /\ Queued(h)
         /\ \A i \in Ids :
              /\ h.task[i] = "none" /\ h.call[i] = "none" /\ ~Alive(h, i)
              /\ d.rec[i].state = "failed" => Dead(h, i)
              /\ h.worker = "idle" /\ (Cleans(h, i) => i \in Owing(d))
<1>1. Keyed(h)
  BY LoadedKeyed
<1>2. /\ h.queue = q /\ h.retq = r /\ h.cleanQ = cq
      /\ h.task = Idle.task /\ h.call = Idle.call /\ h.late = Idle.late
      /\ h.preparing = Idle.preparing /\ h.worker = Idle.worker /\ h.cleaning = Idle.cleaning
      /\ h.ret = [i \in Ids |-> IF i \in InState(d, {"retiring"}) THEN "queued" ELSE "none"]
      /\ h.recovered = [i \in Ids |-> i \in InState(d, {"retiring"})]
  BY DEF Loaded, Idle
<1>3. /\ q \in Seq(Ids) /\ Elems(q) \subseteq InState(d, {"requested", "uncertain"})
      /\ r \in Seq(Ids) /\ cq \in Seq(Ids) /\ Elems(cq) \subseteq Owing(d)
  BY FreshQueue DEF InState, Owing
<1>4. Queued(h)
  BY <1>1, <1>2, <1>3 DEF Queued
<1>5. ASSUME NEW i \in Ids
      PROVE  /\ h.task[i] = "none" /\ h.call[i] = "none" /\ ~Alive(h, i)
             /\ d.rec[i].state = "failed" => Dead(h, i)
             /\ h.worker = "idle" /\ (Cleans(h, i) => i \in Owing(d))
  <2>1. /\ h.task[i] = "none" /\ h.call[i] = "none" /\ h.late[i] = "none"
        /\ h.worker = "idle" /\ h.cleaning = NoId /\ NotPreparing(h, i)
    BY <1>2, CoordinatorAssumption DEF Idle, NotPreparing
  <2>2. h.ret[i] = IF i \in InState(d, {"retiring"}) THEN "queued" ELSE "none"
    BY <1>2
  <2>3. h.recovered[i] = (i \in InState(d, {"retiring"}))
    BY <1>2
  <2>4. ~Alive(h, i)
    BY <2>1, <2>2, <2>3 DEF Alive
  <2>5. d.rec[i].state = "failed" => Dead(h, i)
    BY <1>2, <1>3, <2>1, <2>2 DEF Dead, InState
  <2>6. Cleans(h, i) => i \in Owing(d)
    BY <1>2, <1>3, <2>1, CoordinatorAssumption DEF Cleans
  <2> QED
    BY <2>1, <2>4, <2>5, <2>6
<1> QED
  BY <1>4, <1>5

\* start(): the Maps say what the file says.
LEMMA StartAgents ==
  ASSUME Control, IInv', Agents, Start
  PROVE  Agents'
<1>1. /\ status = "closed" /\ status' = "open" /\ writer' = Nobody /\ issued' = issued
      /\ agent' = agent /\ ahead' = FALSE
      /\ mem' = Decoded(disk) /\ disk' = [disk EXCEPT !.legacy = FALSE]
      /\ mem' \in Document /\ RecordsCoherent(mem')
  BY DEF Start, Open, Control, IInv, Fit, Sound
<1>2. disk'.rec = disk.rec /\ Decoded(disk') = mem' /\ mem'.rec = disk.rec
  BY <1>1, DecodedShape, DecodedRecords DEF Control, IInv, TypeOK
<1>3. PICK d, cq, q, r :
        /\ d = mem'
        /\ cq \in Fresh(Owing(d))
        /\ q \in Fresh(InState(d, {"requested", "uncertain"}))
        /\ r \in Fresh(InState(d, {"retiring"}))
        /\ host' = PumpCleanup(PumpRetirements(Loaded(d, cq, q, r), d))
  BY DEF Start
<1> DEFINE h == Loaded(d, cq, q, r)  g == PumpRetirements(h, d)
<1>4. /\ Queued(h)
      /\ \A i \in Ids :
           /\ h.task[i] = "none" /\ h.call[i] = "none" /\ ~Alive(h, i)
           /\ d.rec[i].state = "failed" => Dead(h, i)
           /\ h.worker = "idle" /\ (Cleans(h, i) => i \in Owing(d))
  <2>1. d \in Document /\ RecordsCoherent(d)
    BY <1>1, <1>3
  <2> QED
    BY <1>3, <2>1, LoadedAgents
<1>5. host' = PumpCleanup(g)
  BY <1>3
<1> HIDE DEF h
<1>6. Milder(h, g) /\ Queued(g)
  BY <1>4, PumpRetirementsMilder DEF Milder
<1> HIDE DEF g
<1>7. Milder(h, host')
  BY <1>5, <1>6, CleanupMilder, MilderStill
<1>8. ASSUME NEW i \in Ids
      PROVE  Nothing(i)' /\ (~AfterRename => Living(i)' /\ Remembered(i)')
  <2>1. Spares(h, host', i) /\ Eases(h, host', i) /\ Cleaner(h, host', i)
    BY <1>7 DEF Milder
  <2>2. Nothing(i)'
    <3> SUFFICES ASSUME Failing(i)'
                 PROVE  /\ agent'[i] = "none" /\ Dead(host', i)
                        /\ mem'.rec[i].state = "failed"
      BY DEF Nothing
    <3>1. disk.rec[i].state = "failed"
      BY <1>2, <1>4, <2>1 DEF Failing, Eases
    <3> QED
      BY <1>1, <1>2, <1>3, <1>4, <2>1, <3>1 DEF Agents, Nothing, Failing, Spares
  <2>3. ASSUME ~AfterRename PROVE Living(i)'
    BY <1>1, <1>2, <1>4, <2>1, <2>3 DEF Agents, Living, Eases
  <2>4. ASSUME ~AfterRename PROVE Remembered(i)'
    <3>1. i \in Owing(d) => i \in issued /\ mem'.rec[i].state = "absent"
      BY <1>1, <1>3 DEF IInv, Fit, Sound, Mentioned, OneHomePerLaunch
    <3>2. Op(writer', i) = "nobody"
      BY <1>1 DEF Op, Nobody
    <3>3. agent'[i] = "gone" => Tracked(Decoded(disk'), i) /\ Tracked(mem', i)
      BY <1>1, <1>2, <2>4 DEF Agents, Remembered
    <3> QED
      BY <1>1, <1>4, <2>1, <3>1, <3>2, <3>3 DEF Remembered, Cleaner
  <2> QED
    BY <2>2, <2>3, <2>4
<1>9. agent' = [i \in Ids |-> agent'[i]]
  BY <1>1 DEF Agents
<1> QED
  BY <1>1, <1>7, <1>8, <1>9 DEF Agents, Milder, Queued

-----------------------------------------------------------------------------
(* Every step keeps the agents.                                             *)

\* Before the first process starts, the agents fit the file it will open.
LEMMA AgentsInit == CoordinatorInit => Agents
<1> SUFFICES ASSUME CoordinatorInit PROVE Agents
  OBVIOUS
<1>1. /\ status = "closed" /\ mem = Empty /\ ahead = FALSE /\ host = Idle
      /\ agent \in [Ids -> {"none", "live"}]
      /\ \A i \in Ids :
           /\ disk.rec[i].state = "owned" => agent[i] = "live"
           /\ disk.rec[i].state \in {"absent", "requested", "failed"} => agent[i] = "none"
  BY DEF CoordinatorInit, Init, AgentsFor
<1>2. /\ Rested(Idle) /\ Idle.cleanQ = <<>> /\ <<>> \in Seq(Ids)
      /\ \A i \in Ids : Idle.task[i] = "none" /\ Dead(Idle, i) /\ Idle.call[i] = "none"
  BY DEF Idle, Rested, Dead, Elems
<1>3. ASSUME NEW i \in Ids PROVE Nothing(i) /\ Living(i) /\ Remembered(i)
  <2>1. Empty.rec[i].state = "absent"
    BY DEF Empty, Absent
  <2>2. Nothing(i)
    BY <1>1, <1>2, <2>1 DEF Nothing, Failing
  <2>3. Living(i)
    BY <1>1, <1>2 DEF Living
  <2>4. Remembered(i)
    BY <1>1 DEF Remembered
  <2> QED
    BY <2>2, <2>3, <2>4
<1> QED
  BY <1>1, <1>2, <1>3 DEF Agents

\* Every step of the coordinator keeps Agents.
LEMMA AgentsStep == Control /\ Agents /\ [CoordinatorNext]_coordinatorVars => Agents'
<1> SUFFICES ASSUME Control, Agents, [CoordinatorNext]_coordinatorVars PROVE Agents'
  OBVIOUS
<1>1. Queued(host) /\ Keyed(host)
  BY DEF Control, Shaped, Agents, Queued
<1>2. IInv' /\ Keyed(host')
  BY <1>1, CoordinatorStep, NextInv DEF Control
<1>3. CASE UNCHANGED coordinatorVars
  <2>1. LedgerIdle /\ UNCHANGED <<host, agent>>
    BY <1>3 DEF coordinatorVars, LedgerIdle, world
  <2>2. Milder(host, host')
    BY <1>1, <2>1 DEF Milder, Spares, Eases, Cleaner
  <2> QED
    BY <2>1, <2>2, MilderAgents
<1>4. CASE Clients
  BY <1>1, <1>2, <1>4, QuietAgents, RetireAgents, CoordinatorAssumption DEF Clients
<1>5. CASE Operator
  BY <1>1, <1>2, <1>5, StartFailAgents, QuietAgents, EndingAgents DEF Operator
<1>6. CASE Start \/ Starting \/ Admission \/ Released
  <2>1. CASE Start
    BY <1>2, <2>1, StartAgents
  <2>2. CASE Starting
    BY <1>1, <1>2, <2>2, CreationTurnAgents, EndAgents, EndingAgents, QuietAgents DEF Starting
  <2>3. CASE Admission
    BY <1>1, <1>2, <2>3, AdmissionTurnAgents, QuietAgents, EndAgents DEF Admission
  <2>4. CASE Released
    BY <1>1, <2>4, ReleasedAgents
  <2> QED
    BY <1>6, <2>1, <2>2, <2>3, <2>4
<1>7. ASSUME NEW i \in Ids, Creation(i) PROVE Agents'
  BY <1>1, <1>2, <1>7, CreationTurnAgents, EndAgents, QuietAgents, LaneAgents DEF Creation
<1>8. ASSUME NEW i \in Ids, Retirement(i) PROVE Agents'
  BY <1>1, <1>2, <1>8, RetirementTurnAgents, EndAgents, QuietAgents, RefreshedAgents,
     RepublishedAgents, LaneAgents
  DEF Retirement
<1>9. ASSUME NEW i \in Ids, Cleanup(i) PROVE Agents'
  BY <1>1, <1>2, <1>9, RetirementTurnAgents, EndAgents, FinalizedAgents DEF Cleanup
<1>10. ASSUME NEW p \in Providers, Settles(p) PROVE Agents'
  BY <1>1, <1>2, <1>10, PreparationAgents, TaskAnswers, ReleaseAgents, DeletionAgents DEF Settles
<1> QED
  BY <1>3, <1>4, <1>5, <1>6, <1>7, <1>8, <1>9, <1>10 DEF CoordinatorNext, Internal

\* What the coordinator, its file and the provider know of each agent agrees,
\* whatever clients, provider, disk and process do.
THEOREM AgentsInvariant == CoordinatorSpec => []Agents
<1>1. CoordinatorInit => Agents
  BY AgentsInit
<1>2. Control /\ Agents /\ [CoordinatorNext]_coordinatorVars => Agents'
  BY AgentsStep
<1> QED
  BY <1>1, <1>2, ControlInvariant, PTL DEF CoordinatorSpec

\* A launch that failed has no agent, and nothing under way could make one: a
\* late answer, a restart or a failed write never turns a failure into a leak.
THEOREM FailedNothing == CoordinatorSpec => []FailedIsNothing
<1>1. Agents => FailedIsNothing
  BY DEF Agents, Nothing, Failing, Dead, FailedIsNothing
<1> QED
  BY <1>1, AgentsInvariant, PTL

\* Unless a write can throw after its rename, a launch the file says is owned
\* has its agent: no crash, late answer or rollback leaves the file claiming an
\* agent that was deleted.
THEOREM OwnedLives ==
  ASSUME ~AfterRename
  PROVE  CoordinatorSpec => []OwnedIsLive
<1>1. Agents => OwnedIsLive
  BY DEF Agents, Living, OwnedIsLive
<1> QED
  BY <1>1, AgentsInvariant, PTL

\* And what the provider keeps of a deleted agent is never forgotten: the file
\* has the launch retiring, or its cleanup owed, until the provider forgot it.
THEOREM CleanupsTracked ==
  ASSUME ~AfterRename
  PROVE  CoordinatorSpec => []CleanupTracked
<1>1. Agents => CleanupTracked
  BY DecodedRecords DEF Agents, Remembered, Tracked, CleanupTracked
<1> QED
  BY <1>1, AgentsInvariant, PTL
=============================================================================
