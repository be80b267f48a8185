----------------------------- MODULE CursorAdapter -----------------------------
(***************************************************************************)
(* CursorSdkAdapter of adapters/cursor-sdk.js between the launch            *)
(* coordinator above it, its own provenance file beside it                  *)
(* (CursorProvenance) and the bridge below it (CursorBridge).               *)
(*                                                                         *)
(* An action is what runs between two awaits.  Operations on one agent run  *)
(* one after another (#exclusiveAgent; launch and reconcileLaunch, which do *)
(* not take their turn there, are not overlapped by the coordinator), so an *)
(* agent has one operation, with the record it has read and what it does    *)
(* next.  Discovery runs beside it.  The process may die between any two    *)
(* steps and be started again.                                              *)
(*                                                                         *)
(* ledger stands for the coordinator's own record of the launch, in as far  *)
(* as it decides which calls it makes (LaunchCoordinator has the rest).     *)
(***************************************************************************)
EXTENDS CursorProvenance, CursorBridge

CONSTANTS
  Crashes,   \* may the process die?
  Aborts     \* may an operation be aborted, at its deadline or at shutdown?

ASSUME AdapterAssumption == {Crashes, Aborts} \subseteq BOOLEAN

VARIABLES
  life,    \* "down", "recovering", "up" or "closing"
  op,      \* per attempt: the operation under way
  caps,    \* per attempt: the capabilities last published
  ledger,  \* per attempt: "none", "creating", "uncertain", "owned",
           \* "retiring", "done" or "cleaned"
  hkey     \* per attempt: the key the ledger retires it under

hostVars == <<caps, ledger, hkey, life>>
adapterVars == <<file, bridgeVars, op, hostVars>>

Names == {"none", "launch", "reconcile", "prompt", "interrupt", "read",
          "prepare", "unprepare", "retire"}
Pcs == {"reserve", "call", "sent", "own", "get", "context", "look", "inspect", "begin",
        "commit", "restore", "read", "mark", "send", "retired", "cancel", "release",
        "answer"}
Results == {"silent", "owned", "vague", "done", "prepared", "released", "blocked",
            "conflict", "retired"}
Ops == [name: Names, pc: Pcs, was: Records, key: Keys \cup {NoKey},
        run: Runs \cup {NoRun}, aborted: BOOLEAN, answer: Results]

NoOp == [name |-> "none", pc |-> "answer", was |-> Absent, key |-> NoKey,
         run |-> NoRun, aborted |-> FALSE, answer |-> "silent"]
New(name, pc, key) == [NoOp EXCEPT !.name = name, !.pc = pc, !.key = key]

AdapterInit ==
  /\ ProvenanceInit /\ BridgeInit
  /\ life = "down"
  /\ op = [a \in Attempts |-> NoOp]
  /\ caps = [a \in Attempts |-> {}]
  /\ ledger = [a \in Attempts |-> "none"]
  /\ hkey = [a \in Attempts |-> NoKey]

\* An operation is at pc; it goes on there, or it is over.
At(a, name, pc) == op[a].name = name /\ op[a].pc = pc
Goes(a, pc) == op' = [op EXCEPT ![a].pc = pc]
GoesWith(a, pc, record) == op' = [op EXCEPT ![a].pc = pc, ![a].was = record]
Over(a, answer) ==
  op' = [op EXCEPT ![a].pc = "answer", ![a].answer = answer,
                   ![a].was = Absent, ![a].run = NoRun]
Fails(a) == Over(a, "vague")

NoBridge == UNCHANGED bridgeVars
NoHost == UNCHANGED hostVars
OnlyOp == UNCHANGED file /\ NoBridge /\ NoHost
InStore == NoBridge /\ NoHost
InBridge == UNCHANGED file /\ NoHost

\* A call that sends nothing else than its request.
JustSends(a, q) == Sends(a, q) /\ UNCHANGED <<client, cancels>>
JustReplied(a, answer) == Replied(a, answer) /\ UNCHANGED <<client, cancels>>
JustGivesUp(a) == GivesUp(a) /\ UNCHANGED <<client, cancels>>

-----------------------------------------------------------------------------
(* launch() and reconcileLaunch().                                          *)

LaunchReserves(a) ==
  /\ At(a, "launch", "reserve")
  /\ \/ Reserve(a, TRUE) /\ Goes(a, "call")
     \/ Reserve(a, FALSE) /\ Fails(a)
  /\ InStore

LaunchCalls(a) ==
  /\ At(a, "launch", "call")
  /\ \/ JustSends(a, Ask("create")) /\ InBridge /\ Goes(a, "sent")
     \/ Fails(a) /\ OnlyOp

\* Variant: an agent the bridge has refused to create is owned all the same.
LaunchAnsweredLoosely(a) ==
  /\ At(a, "launch", "sent")
  /\ \/ \E answer \in {"ok", "rejected"} : JustReplied(a, answer) /\ Goes(a, "own")
     \/ JustGivesUp(a) /\ Fails(a)
  /\ InBridge

LaunchAnswered(a) ==
  /\ At(a, "launch", "sent")
  /\ \/ JustReplied(a, "ok") /\ Goes(a, "own")
     \/ (JustReplied(a, "rejected") \/ JustGivesUp(a)) /\ Fails(a)
  /\ InBridge

Owns(a) ==
  /\ op[a].name \in {"launch", "reconcile"} /\ op[a].pc = "own"
  /\ \/ MarkOwned(a, TRUE) /\ Over(a, "owned")
     \/ MarkOwned(a, FALSE) /\ Fails(a)
  /\ InStore

ReconcileReads(a) ==
  /\ At(a, "reconcile", "get")
  /\ \/ Read(TRUE) /\ file[a].state # "absent" /\ GoesWith(a, "look", file[a])
     \/ Fails(a)
  /\ UNCHANGED file /\ InStore

ReconcileLooks(a) ==
  /\ At(a, "reconcile", "look")
  /\ \/ \E s \in StatusesOf(a) :
          /\ Looked(a, s)
          /\ IF op[a].was.state = "owned" THEN Over(a, "owned") ELSE Goes(a, "own")
     \/ NoBridge /\ Fails(a)
  /\ InBridge

-----------------------------------------------------------------------------
(* prompt(), interrupt() and read(): #actionContext first.                  *)

Actions == {"prompt", "interrupt", "read"}
Resting == {"idle", "error"}

\* What #agent publishes, given the record, the agent's status and the run's.
Capabilities(r, s, t) ==
  IF r.pending THEN {}
  ELSE {c \in Actions :
          CASE c = "prompt" -> s \in Resting /\ (r.run # NoRun => t = "terminal")
            [] c = "interrupt" -> s = "working" /\ t = "working" /\ r.cancel = NoRun
            [] c = "read" -> s \in Resting /\ r.run # NoRun /\ t = "terminal"}

\* What #actionContext asks of the record and the agent before it looks at
\* the run.
Admits(name, r, s) ==
  /\ ~r.pending
  /\ CASE name = "prompt" -> s \in Resting
       [] name = "interrupt" -> s = "working" /\ r.cancel = NoRun /\ r.run # NoRun
       [] name = "read" -> s \in Resting /\ r.run # NoRun

ActionReads(a) ==
  /\ op[a].name \in Actions /\ op[a].pc = "context"
  /\ \/ Read(TRUE) /\ file[a].state = "owned" /\ GoesWith(a, "look", file[a])
     \/ Fails(a)
  /\ UNCHANGED file /\ InStore

ActionLooks(a) ==
  /\ op[a].name \in Actions /\ op[a].pc = "look"
  /\ \/ \E s \in StatusesOf(a) :
          /\ Looked(a, s)
          /\ IF ~Admits(op[a].name, op[a].was, s) THEN Fails(a)
             ELSE Goes(a, IF op[a].name = "read" THEN "read"
                          ELSE IF op[a].was.run # NoRun THEN "inspect" ELSE "begin")
     \/ NoBridge /\ Fails(a)
  /\ InBridge

ActionInspects(a) ==
  /\ op[a].name \in {"prompt", "interrupt"} /\ op[a].pc = "inspect"
  /\ \/ /\ (IF op[a].name = "prompt" THEN "terminal" ELSE "working")
             \in RunStatuses(a, op[a].was.run)
        /\ Goes(a, "begin")
     \/ Fails(a)
  /\ OnlyOp

\* readRunLocal: the exact run, and only when it has ended.
ReadsRun(a) ==
  /\ At(a, "read", "read")
  /\ \/ "terminal" \in RunStatuses(a, op[a].was.run) /\ Over(a, "done")
     \/ Fails(a)
  /\ OnlyOp

PromptBegins(a) ==
  /\ At(a, "prompt", "begin")
  /\ \/ BeginRun(a, TRUE) /\ Goes(a, "call")
     \/ BeginRun(a, FALSE) /\ Fails(a)
  /\ InStore

\* Before the bridge is invoked anything that fails restores the run.  Then
\* sendLocal refuses a busy agent without a disposition, or resumes the agent
\* first; a disposition is lost when the operation has been aborted.
PromptCalls(a) ==
  /\ At(a, "prompt", "call")
  /\ \/ Goes(a, "restore") /\ OnlyOp
     \/ Busy(a) /\ Fails(a) /\ OnlyOp
     \/ ~Busy(a) /\ (IF op[a].aborted THEN Fails(a) ELSE Goes(a, "restore")) /\ OnlyOp
     \/ SendLocal(a) /\ InBridge /\ Goes(a, "sent")

\* Variant: an ambiguous delivery is taken back too.
PromptAnsweredLoosely(a) ==
  /\ At(a, "prompt", "sent")
  /\ \/ SendAccepted(a) /\ op' = [op EXCEPT ![a].pc = "commit", ![a].run = NextRun(a) - 1]
     \/ (SendRejected(a) \/ SendUncertain(a)) /\ Goes(a, "restore")
  /\ InBridge

PromptAnswered(a) ==
  /\ At(a, "prompt", "sent")
  /\ \/ SendAccepted(a) /\ op' = [op EXCEPT ![a].pc = "commit", ![a].run = NextRun(a) - 1]
     \/ SendRejected(a) /\ (IF op[a].aborted THEN Fails(a) ELSE Goes(a, "restore"))
     \/ SendUncertain(a) /\ Fails(a)
  /\ InBridge

PromptCommits(a) ==
  /\ At(a, "prompt", "commit")
  /\ \/ CommitRun(a, op[a].run, TRUE) /\ Over(a, "done")
     \/ CommitRun(a, op[a].run, FALSE) /\ Fails(a)
  /\ InStore

PromptRestores(a) ==
  /\ At(a, "prompt", "restore")
  /\ \E ok \in BOOLEAN : RestoreRun(a, ok)
  /\ Fails(a) /\ InStore

InterruptBegins(a) ==
  /\ At(a, "interrupt", "begin")
  /\ \/ BeginCancel(a, op[a].was.run, TRUE) /\ Goes(a, "call")
     \/ BeginCancel(a, op[a].was.run, FALSE) /\ Fails(a)
  /\ InStore

InterruptCalls(a) ==
  /\ At(a, "interrupt", "call")
  /\ \/ Goes(a, "restore") /\ OnlyOp
     \/ ~Cancellable(a, op[a].was.run) /\ Fails(a) /\ OnlyOp
     \/ /\ active[a] = NoRun
        /\ (IF op[a].aborted THEN Fails(a) ELSE Goes(a, "restore")) /\ OnlyOp
     \/ CancelLocal(a, op[a].was.run) /\ InBridge /\ Goes(a, "sent")

\* Variant: a cancellation that may have arrived is taken back.
InterruptAnsweredLoosely(a) ==
  /\ At(a, "interrupt", "sent")
  /\ \/ JustReplied(a, "ok") /\ Over(a, "done")
     \/ (CancelRejected(a) \/ JustGivesUp(a)) /\ Goes(a, "restore")
  /\ InBridge

InterruptAnswered(a) ==
  /\ At(a, "interrupt", "sent")
  /\ \/ JustReplied(a, "ok") /\ Over(a, "done")
     \/ CancelRejected(a) /\ (IF op[a].aborted THEN Fails(a) ELSE Goes(a, "restore"))
     \/ JustGivesUp(a) /\ Fails(a)
  /\ InBridge

InterruptRestores(a) ==
  /\ At(a, "interrupt", "restore")
  /\ \E ok \in BOOLEAN : RestoreCancel(a, op[a].was.run, ok)
  /\ Fails(a) /\ InStore

-----------------------------------------------------------------------------
(* prepareLaunchRetirement() and cancelLaunchRetirementPreparation().       *)

\* The state file cannot take a reservation more: cursor_provenance_capacity.
Full(a) == file[a].key = NoKey /\ UNCHANGED file /\ Over(a, "blocked")

PrepareReads(a) ==
  /\ At(a, "prepare", "get")
  /\ \/ /\ Read(TRUE) /\ file[a].state = "owned"
        /\ IF NotReservedByOther(a, op[a].key) THEN Goes(a, "reserve") ELSE Over(a, "conflict")
     \/ Fails(a)
  /\ UNCHANGED file /\ InStore

PrepareReserves(a) ==
  /\ At(a, "prepare", "reserve")
  /\ \/ /\ ReserveRetirement(a, op[a].key, TRUE)
        /\ IF op[a].aborted THEN Fails(a) ELSE Over(a, "prepared")
     \/ ReserveRetirement(a, op[a].key, FALSE) /\ Fails(a)
     \/ Full(a)
  /\ InStore

Unprepares(a) ==
  /\ At(a, "unprepare", "release")
  /\ \/ /\ ReleaseRetirementReservation(a, op[a].key, TRUE)
        /\ IF op[a].aborted THEN Fails(a) ELSE Over(a, "released")
     \/ ReleaseRetirementReservation(a, op[a].key, FALSE) /\ Fails(a)
  /\ InStore

-----------------------------------------------------------------------------
(* retireLaunch().                                                          *)

Replaying(r) == r.state = "retiring" /\ r.del = "yes"
Unsettled(r) == r.pending \/ r.cancel # NoRun

\* A delete that may have been sent is sent again without asking.
RetireGoes(a, r) ==
  GoesWith(a, IF Replaying(r) THEN "send" ELSE IF Unsettled(r) THEN "cancel" ELSE "look", r)

RetireReads(a) ==
  /\ At(a, "retire", "get")
  /\ \/ /\ Read(TRUE) /\ file[a].state \in {"owned", "retiring", "retired"}
        /\ IF file[a].state = "retired" THEN Over(a, "retired")
           ELSE /\ NotReservedByOther(a, op[a].key)
                /\ IF file[a].state = "owned" /\ ~file[a].reserved THEN Goes(a, "reserve")
                   ELSE RetireGoes(a, file[a])
     \/ Fails(a)
  /\ UNCHANGED file /\ InStore

RetireReserves(a) ==
  /\ At(a, "retire", "reserve")
  /\ \/ ReserveRetirement(a, op[a].key, TRUE) /\ RetireGoes(a, file'[a])
     \/ ReserveRetirement(a, op[a].key, FALSE) /\ Fails(a)
     \/ Full(a)
  /\ InStore

Fence(r) == IF r.state = "owned" THEN "begin" ELSE "mark"

RetireLooks(a) ==
  /\ At(a, "retire", "look")
  /\ \/ \E s \in StatusesOf(a) :
          /\ Looked(a, s)
          /\ Goes(a, IF s \notin Resting THEN "cancel"
                     ELSE IF op[a].was.run # NoRun THEN "inspect" ELSE Fence(op[a].was))
     \/ NoBridge /\ Fails(a)
  /\ InBridge

RetireInspects(a) ==
  /\ At(a, "retire", "inspect")
  /\ \/ \E t \in RunStatuses(a, op[a].was.run) :
          Goes(a, IF t = "terminal" THEN Fence(op[a].was) ELSE "cancel")
     \/ Fails(a)
  /\ OnlyOp

RetireBegins(a) ==
  /\ At(a, "retire", "begin")
  /\ \/ BeginRetirement(a, op[a].key, TRUE) /\ Goes(a, "mark")
     \/ BeginRetirement(a, op[a].key, FALSE) /\ Fails(a)
  /\ InStore

\* onInvoke of deleteLocal: the attempt is on file before the request leaves.
RetireMarks(a) ==
  /\ At(a, "retire", "mark")
  /\ \/ MarkDeleteAttempted(a, op[a].key, TRUE) /\ Goes(a, "send")
     \/ MarkDeleteAttempted(a, op[a].key, FALSE) /\ Fails(a)
     \/ UNCHANGED file /\ Fails(a)
  /\ InStore

RetireSends(a) ==
  /\ At(a, "retire", "send")
  /\ \/ JustSends(a, Ask(IF Replaying(op[a].was) THEN "delete again" ELSE "delete"))
        /\ InBridge /\ Goes(a, "sent")
     \/ Replaying(op[a].was) /\ Fails(a) /\ OnlyOp

\* Variant: a delete sent before is taken back when its repetition is refused.
RetireAnsweredLoosely(a) ==
  /\ At(a, "retire", "sent")
  /\ \/ Replied(a, "ok") /\ DeleteConfirmed(a) /\ Goes(a, "retired")
     \/ Replied(a, "missing") /\ DeleteConfirmed(a) /\ Goes(a, "retired")
     \/ JustReplied(a, "rejected") /\ Goes(a, "cancel")
     \/ JustGivesUp(a) /\ Fails(a)
  /\ InBridge

RetireAnswered(a) ==
  /\ At(a, "retire", "sent")
  /\ \/ Replied(a, "ok") /\ DeleteConfirmed(a) /\ Goes(a, "retired")
     \/ /\ Replaying(op[a].was)
        /\ \/ Replied(a, "missing") /\ DeleteConfirmed(a) /\ Goes(a, "retired")
           \/ JustReplied(a, "rejected") /\ Fails(a)
     \/ /\ ~Replaying(op[a].was)
        /\ (JustReplied(a, "missing") \/ JustReplied(a, "rejected")) /\ Goes(a, "cancel")
     \/ JustGivesUp(a) /\ Fails(a)
  /\ InBridge

RetireRecords(a) ==
  /\ At(a, "retire", "retired")
  /\ \/ MarkRetired(a, op[a].key, TRUE) /\ Over(a, "retired")
     \/ MarkRetired(a, op[a].key, FALSE) /\ Fails(a)
  /\ InStore

RetireBlocked(a) ==
  /\ At(a, "retire", "cancel")
  /\ \/ CancelRetirement(a, op[a].key, TRUE) /\ Over(a, "blocked")
     \/ CancelRetirement(a, op[a].key, FALSE) /\ Fails(a)
  /\ InStore

-----------------------------------------------------------------------------
(* The coordinator and the registry: which calls are made, and what the     *)
(* ledger makes of an answer, unless the answer comes too late for it or    *)
(* its own write fails.                                                     *)

Free(a) == life = "up" /\ op[a] = NoOp
Calls(a, name, pc, key) ==
  /\ Free(a) /\ op' = [op EXCEPT ![a] = New(name, pc, key)]
  /\ UNCHANGED <<file, caps, hkey, life>> /\ NoBridge

HostLaunches(a) ==
  /\ ledger[a] = "none" /\ Calls(a, "launch", "reserve", NoKey)
  /\ ledger' = [ledger EXCEPT ![a] = "creating"]
HostReconciles(a) ==
  /\ ledger[a] = "uncertain" /\ Calls(a, "reconcile", "get", NoKey) /\ UNCHANGED ledger
HostPrepares(a, k) ==
  /\ ledger[a] = "owned" /\ Calls(a, "prepare", "get", k) /\ UNCHANGED ledger
HostRetires(a) ==
  /\ ledger[a] = "retiring" /\ Calls(a, "retire", "get", hkey[a]) /\ UNCHANGED ledger

\* An action of a client on an agent that was published with it.
HostActs(a, name) ==
  /\ name \in caps[a] /\ Calls(a, name, "context", NoKey) /\ UNCHANGED ledger

\* The coordinator does not wait for a preparation beyond its deadline.
HostGivesUpPreparing(a) ==
  /\ op[a].name = "prepare" /\ op[a].pc # "answer" /\ ledger[a] = "owned"
  /\ ledger' = [ledger EXCEPT ![a] = "retiring"]
  /\ hkey' = [hkey EXCEPT ![a] = op[a].key]
  /\ UNCHANGED <<file, op, caps, life>> /\ NoBridge

Concluded(name, answer, was) ==
  CASE name \in {"launch", "reconcile"} -> {"uncertain"} \cup ({answer} \cap {"owned"})
    [] name = "prepare" /\ answer \in {"blocked", "conflict"} -> {was, "owned"}
    [] name = "prepare" -> {was, "retiring"}
    [] name = "retire" /\ answer = "retired" -> {was, "done"}
    [] name = "retire" /\ answer = "blocked" -> {was, "owned"}
    [] OTHER -> {was}

HostTakes(a) ==
  /\ op[a].name # "none" /\ op[a].pc = "answer"
  /\ \E s \in Concluded(op[a].name, op[a].answer, ledger[a]) :
       /\ ledger' = [ledger EXCEPT ![a] = s]
       /\ hkey' = [hkey EXCEPT ![a] = IF s # "retiring" THEN IF s = "done" THEN @ ELSE NoKey
                                      ELSE IF op[a].name = "prepare" THEN op[a].key ELSE @]
       /\ \/ op' = [op EXCEPT ![a] = NoOp]
          \/ /\ op[a].name = "prepare" /\ op[a].answer \in {"prepared", "vague"}
             /\ s = "owned" /\ life = "up"
             /\ op' = [op EXCEPT ![a] = New("unprepare", "release", op[a].key)]
  /\ UNCHANGED <<file, caps, life>> /\ NoBridge

\* finalizeLaunchRetirement, and the ledger's record of it.
HostFinalizes(a) ==
  /\ life = "up" /\ ledger[a] = "done"
  /\ \E ok \in BOOLEAN :
       /\ RemoveRetired(a, hkey[a], ok)
       /\ ledger' \in {ledger} \cup (IF ok THEN {[ledger EXCEPT ![a] = "cleaned"]} ELSE {})
  /\ UNCHANGED <<op, caps, hkey, life>> /\ NoBridge

\* discoverOwned, for one record: what is published may soon be out of date.
Discovers(a) ==
  /\ life = "up" /\ ledger[a] = "owned" /\ file[a].state = "owned"
  /\ \/ \E s \in StatusesOf(a), t \in RunStatuses(a, file[a].run) \cup {"unseen"} :
          /\ Looked(a, s)
          /\ caps' = [caps EXCEPT ![a] = Capabilities(file[a], s, t)]
     \/ NoBridge /\ caps' = [caps EXCEPT ![a] = {}]
  /\ UNCHANGED <<file, op, ledger, hkey, life>>

Aborted(a) ==
  /\ Aborts /\ op[a].name \in {"prompt", "interrupt", "prepare", "unprepare"}
  /\ op[a].pc # "answer" /\ ~op[a].aborted
  /\ op' = [op EXCEPT ![a].aborted = TRUE]
  /\ OnlyOp

-----------------------------------------------------------------------------
(* open(), recoverLaunchRetirementPreparations(), close(), and the end of   *)
(* the process.                                                             *)

Opens ==
  /\ life = "down" /\ life' = "recovering"
  /\ UNCHANGED <<file, op, caps, ledger, hkey>> /\ NoBridge

Reservations == {a \in Attempts : ledger[a] = "owned" /\ file[a].reserved}

Recovers(a) ==
  /\ life = "recovering" /\ a \in Reservations
  /\ \/ ReleaseRetirementReservation(a, file[a].key, TRUE) /\ UNCHANGED life
     \/ ReleaseRetirementReservation(a, file[a].key, FALSE) /\ life' = "down"
  /\ UNCHANGED <<op, caps, ledger, hkey>> /\ NoBridge

Recovered ==
  /\ life = "recovering" /\ Reservations = {} /\ life' = "up"
  /\ UNCHANGED <<file, op, caps, ledger, hkey>> /\ NoBridge

Closes ==
  /\ life = "up" /\ life' = "closing"
  /\ UNCHANGED <<file, op, caps, ledger, hkey>> /\ NoBridge

\* The operations under way are awaited first.
Closed ==
  /\ life = "closing" /\ \A a \in Attempts : op[a] = NoOp
  /\ life' = "down" /\ caps' = [a \in Attempts |-> {}]
  /\ ClientForgets
  /\ UNCHANGED <<file, op, ledger, hkey>>

Dies ==
  /\ Crashes /\ life # "down"
  /\ life' = "down" /\ caps' = [a \in Attempts |-> {}]
  /\ op' = [a \in Attempts |-> NoOp]
  /\ ledger' = [a \in Attempts |-> IF ledger[a] = "creating" THEN "uncertain" ELSE ledger[a]]
  /\ ClientForgets
  /\ UNCHANGED <<file, hkey>>

-----------------------------------------------------------------------------
OperationStep(a) ==
  \/ LaunchReserves(a) \/ LaunchCalls(a) \/ LaunchAnswered(a) \/ Owns(a)
  \/ ReconcileReads(a) \/ ReconcileLooks(a)
  \/ ActionReads(a) \/ ActionLooks(a) \/ ActionInspects(a) \/ ReadsRun(a)
  \/ PromptBegins(a) \/ PromptCalls(a) \/ PromptAnswered(a)
  \/ PromptCommits(a) \/ PromptRestores(a)
  \/ InterruptBegins(a) \/ InterruptCalls(a) \/ InterruptAnswered(a)
  \/ InterruptRestores(a)
  \/ PrepareReads(a) \/ PrepareReserves(a) \/ Unprepares(a)
  \/ RetireReads(a) \/ RetireReserves(a) \/ RetireLooks(a) \/ RetireInspects(a)
  \/ RetireBegins(a) \/ RetireMarks(a) \/ RetireSends(a) \/ RetireAnswered(a)
  \/ RetireRecords(a) \/ RetireBlocked(a)

HostStep(a) ==
  \/ HostLaunches(a) \/ HostReconciles(a) \/ HostRetires(a) \/ HostTakes(a)
  \/ \E k \in Keys : HostPrepares(a, k)
  \/ \E name \in Actions : HostActs(a, name)
  \/ HostGivesUpPreparing(a) \/ HostFinalizes(a) \/ Discovers(a) \/ Aborted(a)

OutsideStep(a) ==
  /\ BridgeStep(a) \/ StreamEnds(a)
  /\ UNCHANGED <<file, op>> /\ NoHost

AdapterNext ==
  \/ \E a \in Attempts :
       OperationStep(a) \/ HostStep(a) \/ OutsideStep(a) \/ Recovers(a)
  \/ Opens \/ Recovered \/ Closes \/ Closed \/ Dies

AdapterSpec == AdapterInit /\ [][AdapterNext]_adapterVars
-----------------------------------------------------------------------------
(* Properties.                                                              *)

\* The state stays in its domains.
AdapterTypeOK ==
  /\ file \in [Attempts -> Records]
  /\ svc \in [Attempts -> {"none", "live", "deleted"}]
  /\ runs \in [Attempts -> [Runs -> {"none", "live", "over"}]]
  /\ wire \in [Attempts -> SUBSET Request]
  /\ waiting \in [Attempts -> Request \cup {NoRequest}]
  /\ reply \in [Attempts -> {"none", "ok", "rejected", "missing"}]
  /\ active \in [Attempts -> Runs \cup {NoRun}]
  /\ asked \in [Attempts -> BOOLEAN]
  /\ sending \in [Attempts -> {"none", "open", "uncertain", "accepted"}]
  /\ cancels \in [Attempts -> [Runs -> Nat]]
  /\ op \in [Attempts -> Ops]
  /\ life \in {"down", "recovering", "up", "closing"}
  /\ caps \in [Attempts -> SUBSET Actions]
  /\ ledger \in [Attempts -> {"none", "creating", "uncertain", "owned", "retiring",
                              "done", "cleaned"}]
  /\ hkey \in [Attempts -> Keys \cup {NoKey}]

\* However a prompt is lost, aborted or interrupted by the end of the process,
\* the agent it was meant for never works on two runs: what may still start
\* one keeps runPending in the file (prompt() and #actionContext).
OneLiveRun == \A a \in Attempts : Cardinality(LiveRuns(a)) <= 1

\* A run is asked to end at most once, unless the bridge has refused: also
\* when the answer was lost or the process restarted (cancelAttemptedRunId).
CancelOnce == \A a \in Attempts, r \in Runs : cancels[a][r] <= 1

\* An agent is deleted only behind the fence that survives a crash, with
\* nothing running on it and nothing under way that could start a run
\* (retireLaunch() checks all of it before the request leaves).
DeletesIdle ==
  [][\A a \in Attempts :
       svc[a] = "live" /\ svc'[a] = "deleted" =>
         /\ file[a].state = "retiring" /\ file[a].del = "yes"
         /\ LiveRuns(a) = {} /\ Ask("send") \notin wire[a]]_adapterVars

\* What the coordinator has on file is true of the bridge and of the adapter's
\* own file: a launch it shows has its agent, and one it calls retired has
\* none (launch(), retireLaunch() and finalizeLaunchRetirement() answer only
\* after their own record is durable).
LedgerTellsTruth ==
  \A a \in Attempts :
    /\ ledger[a] = "owned" => svc[a] = "live" /\ file[a].state = "owned"
    /\ ledger[a] = "retiring" => file[a].state \in {"owned", "retiring", "retired"}
    /\ ledger[a] = "done" => svc[a] = "deleted" /\ file[a].state \in {"retired", "absent"}
    /\ ledger[a] = "cleaned" => svc[a] = "deleted" /\ file[a].state = "absent"

\* The adapter is a launch provider as the coordinator needs one.  A preparation
\* that is blocked because the agent is reserved under another key ("conflict",
\* code cursor_retirement_conflict) promises nothing of that reservation, which
\* stays, and is no answer of the contract's.
Provider ==
  INSTANCE LaunchProvider WITH
    agent <- [a \in Attempts |->
                CASE svc[a] # "deleted" -> svc[a]
                  [] svc[a] = "deleted" /\ file[a].state # "absent" -> "gone"
                  [] OTHER -> "forgotten"],
    reserved <- [a \in Attempts |-> IF svc[a] = "live" THEN file[a].key ELSE NoKey],
    told <- [a \in Attempts |->
                IF op[a].pc # "answer" THEN "silent"
                ELSE IF op[a].answer \in {"done", "conflict"} THEN "vague"
                ELSE op[a].answer]

\* Every step of the adapter, of the bridge and of a crash is a step the
\* provider's contract allows.
ImplementsProvider == Provider!ProviderSpec
=============================================================================
