------------------------------ MODULE CursorProofs ------------------------------
(***************************************************************************)
(* The Cursor adapter never lets an agent work on two runs, never asks a    *)
(* run to end twice, deletes an agent only behind its fence, and is the     *)
(* launch provider the coordinator relies on, for any launches, keys and    *)
(* bound on the runs, whatever is lost, refused, aborted or cut short.      *)
(*                                                                         *)
(* Launches have nothing to do with each other, so the invariant is stated  *)
(* of one: what its record says of the agent (Filed), of the requests that  *)
(* may still be carried out (OnWire) and of the runs (Prompted), what the   *)
(* operation under way has made sure of so far (Doing), and what the        *)
(* coordinator's ledger adds (Agrees).                                      *)
(***************************************************************************)
EXTENDS CursorAdapter, FiniteSetTheorems, TLAPS

\* The variables are functions on the launches.
Typed ==
  /\ file \in [Attempts -> Records] /\ op \in [Attempts -> Ops]
  /\ hkey \in [Attempts -> Keys \cup {NoKey}]
  /\ svc = [a \in Attempts |-> svc[a]] /\ wire = [a \in Attempts |-> wire[a]]
  /\ waiting = [a \in Attempts |-> waiting[a]] /\ reply = [a \in Attempts |-> reply[a]]
  /\ ledger = [a \in Attempts |-> ledger[a]]
  /\ runs \in [Attempts -> [Runs -> {"none", "live", "over"}]]
  /\ cancels \in [Attempts -> [Runs -> Nat]]

\* The process is not there, or has not recovered yet: nothing is under way.
Resumable == life \in {"down", "recovering"} => \A a \in Attempts : op[a] = NoOp

Deleting(a) == \E q \in wire[a] : q.kind \in Deletes
Fenced(a) == file[a].state = "retiring" /\ file[a].del = "yes"
Known(a) == Started(a) = 1..file[a].run

\* What the record says of the agent.
Filed(a) ==
  /\ ValidRecord(file[a])
  /\ file[a].state = "intent" => svc[a] # "deleted"
  /\ file[a].state = "owned" => svc[a] = "live" /\ ~Deleting(a)
  /\ file[a].state = "retiring" => /\ ~Unsettled(file[a]) /\ LiveRuns(a) = {}
                                   /\ svc[a] \in {"live", "deleted"}
                                   /\ file[a].del # "yes" => svc[a] = "live" /\ ~Deleting(a)
  /\ file[a].state = "retired" => svc[a] = "deleted"

\* What is true of the agent while a request may still be carried out.
OnWire(a) ==
  /\ \A q \in wire[a] : q \in Request /\ (q.kind = "cancel" => q.run \in Runs)
  /\ Ask("create") \in wire[a] => svc[a] = "none"
  /\ Ask("send") \in wire[a] => /\ file[a].state = "owned" /\ file[a].pending
                                /\ LiveRuns(a) = {} /\ Known(a)
  /\ Deleting(a) => svc[a] = "deleted" \/ Fenced(a)

\* The record names the last run, unless a prompt is in doubt; a run asked to
\* end is an earlier one or is on record as such.
Prompted(a) ==
  /\ \A r, s \in LiveRuns(a) : r = s
  /\ svc[a] # "deleted" =>
       Known(a) \/ (file[a].pending /\ Started(a) = 1..(file[a].run + 1))
  /\ \A r \in Runs :
       /\ cancels[a][r] \in {0, 1}
       /\ CancelOf(r) \in wire[a] => cancels[a][r] = 1
       /\ cancels[a][r] = 1 /\ svc[a] # "deleted" =>
            r <= file[a].run /\ (r = file[a].run => file[a].cancel = r)

\* What launch() and reconcileLaunch() have made sure of.
Launching(a) ==
  /\ At(a, "launch", "reserve") => file[a].state = "absent" /\ svc[a] = "none" /\ wire[a] = {}
  /\ At(a, "launch", "call") => file[a].state = "intent" /\ svc[a] = "none" /\ wire[a] = {}
  /\ At(a, "launch", "sent") => /\ file[a].state = "intent" /\ waiting[a] = Ask("create")
                                /\ reply[a] = "ok" => svc[a] = "live"
  /\ At(a, "reconcile", "look") => op[a].was = file[a] /\ file[a].state \in {"intent", "owned"}
  /\ At(a, "launch", "own") \/ At(a, "reconcile", "own") =>
       file[a].state = "intent" /\ svc[a] = "live"

\* What prompt(), interrupt() and read() have.
Acting(a) ==
  /\ op[a].name \in Actions /\ op[a].pc \in {"look", "inspect", "begin"} =>
       op[a].was = file[a] /\ file[a].state = "owned"
  /\ op[a].name \in {"prompt", "interrupt"} /\ op[a].pc \in {"inspect", "begin"} =>
       /\ ~file[a].pending
       /\ op[a].name = "prompt" => LiveRuns(a) = {}
       /\ op[a].name = "interrupt" => file[a].cancel = NoRun /\ file[a].run # NoRun
  /\ op[a].name = "prompt" /\ op[a].pc \in {"call", "sent", "commit", "restore"} =>
       file[a].state = "owned" /\ file[a].pending
  /\ op[a].name = "prompt" /\ op[a].pc \in {"call", "restore"} =>
       Ask("send") \notin wire[a] /\ Known(a)
  /\ At(a, "prompt", "call") => LiveRuns(a) = {}
  /\ At(a, "prompt", "sent") =>
       /\ waiting[a] = Ask("send")
       /\ reply[a] = "ok" => /\ Ask("send") \notin wire[a]
                             /\ Started(a) = 1..(file[a].run + 1)
       /\ reply[a] = "rejected" => Ask("send") \notin wire[a] /\ Known(a)
  /\ At(a, "prompt", "commit") =>
       /\ Ask("send") \notin wire[a] /\ op[a].run = file[a].run + 1
       /\ Started(a) = 1..op[a].run
  /\ op[a].name = "interrupt" /\ op[a].pc \in {"call", "sent", "restore"} =>
       /\ file[a].state = "owned" /\ file[a].run # NoRun
       /\ file[a].cancel = file[a].run /\ op[a].was.run = file[a].run
       /\ op[a].pc # "sent" \/ reply[a] = "rejected" => cancels[a][file[a].run] = 0
  /\ At(a, "interrupt", "sent") => waiting[a] = CancelOf(file[a].run)

\* What prepareLaunchRetirement() has.
Preparing(a) ==
  /\ op[a].name \in {"prepare", "unprepare"} => op[a].key \in Keys
  /\ At(a, "prepare", "reserve") =>
       file[a].state = "owned" /\ NotReservedByOther(a, op[a].key)

\* What retireLaunch() has.
Retiring(a) ==
  /\ At(a, "retire", "reserve") => file[a].state = "owned"
  /\ op[a].name = "retire" /\ op[a].pc \in {"look", "inspect", "begin"} =>
       /\ op[a].was = file[a] /\ file[a].state \in {"owned", "retiring"}
       /\ ~Replaying(file[a]) /\ ~Unsettled(file[a])
  /\ op[a].name = "retire" /\ op[a].pc \in {"inspect", "begin"} => LiveRuns(a) = {}
  /\ At(a, "retire", "begin") => file[a].state = "owned"
  /\ At(a, "retire", "mark") => /\ file[a].state = "retiring" /\ file[a].del # "yes"
                                /\ ~Replaying(op[a].was)
  /\ op[a].name = "retire" /\ op[a].pc \in {"send", "sent", "retired"} => Fenced(a)
  /\ At(a, "retire", "send") /\ ~Replaying(op[a].was) => svc[a] = "live" /\ ~Deleting(a)
  /\ At(a, "retire", "sent") =>
       /\ waiting[a].kind \in Deletes
       /\ reply[a] \in {"ok", "missing"} => svc[a] = "deleted"
       /\ ~Replaying(op[a].was) =>
            /\ waiting[a] = Ask("delete") /\ reply[a] # "missing"
            /\ reply[a] # "ok" => svc[a] = "live"
            /\ \A q \in wire[a] : q.kind \in Deletes => q = Ask("delete") /\ reply[a] = "none"
  /\ At(a, "retire", "retired") => svc[a] = "deleted"
  /\ At(a, "retire", "cancel") => /\ file[a].state \in {"owned", "retiring"}
                                  /\ svc[a] = "live" /\ ~Deleting(a)

\* What is told is true until the coordinator has taken it.
Telling(a) ==
  op[a].pc = "answer" =>
    /\ op[a].answer \in {"owned", "prepared", "released", "blocked", "conflict"} =>
         file[a].state = "owned"
    /\ op[a].answer = "prepared" => file[a].key # NoKey
    /\ op[a].answer \in {"released", "blocked"} => file[a].key = NoKey
    /\ op[a].answer = "retired" => op[a].name = "retire" /\ file[a].state = "retired"

\* An operation waits for the bridge only where it has sent something.
Waits(a) ==
  /\ op[a].name = "none" => op[a] = NoOp
  /\ op[a].pc # "sent" => waiting[a] = NoRequest /\ reply[a] = "none"

Doing(a) ==
  Launching(a) /\ Acting(a) /\ Preparing(a) /\ Retiring(a) /\ Telling(a) /\ Waits(a)

\* The ledger, and the operations it leads to.
Agrees(a) ==
  /\ op[a].name = "launch" => ledger[a] = "creating"
  /\ op[a].name = "reconcile" => ledger[a] = "uncertain"
  /\ op[a].name = "prepare" => ledger[a] \in {"owned", "retiring"}
  /\ op[a].name = "retire" => ledger[a] = "retiring"
  /\ ledger[a] = "none" => file[a] = Absent /\ svc[a] = "none" /\ wire[a] = {}
  /\ ledger[a] \in {"creating", "uncertain"} => file[a].state \in {"absent", "intent", "owned"}
  /\ ledger[a] = "owned" => file[a].state = "owned"
  /\ ledger[a] = "retiring" => file[a].state \in {"owned", "retiring", "retired"}
  /\ ledger[a] = "done" => svc[a] = "deleted" /\ file[a].state \in {"retired", "absent"}
  /\ ledger[a] = "cleaned" => svc[a] = "deleted" /\ file[a].state = "absent"

Fine(a) == Filed(a) /\ OnWire(a) /\ Prompted(a) /\ Doing(a) /\ Agrees(a)

CursorInv == Typed /\ Resumable /\ \A a \in Attempts : Fine(a)
-----------------------------------------------------------------------------
(* What an action is made of. *)

\* Nothing of launch b is touched.
Same(b) ==
  /\ file'[b] = file[b] /\ op'[b] = op[b] /\ ledger'[b] = ledger[b]
  /\ svc'[b] = svc[b] /\ wire'[b] = wire[b] /\ runs'[b] = runs[b] /\ cancels'[b] = cancels[b]
  /\ waiting'[b] = waiting[b] /\ reply'[b] = reply[b]
Others(a) == \A b \in Attempts \ {a} : Same(b)

\* The operation of a is at another point; nothing else of it is another.
Moves(a, pc) ==
  /\ op' \in [Attempts -> Ops] /\ \A b \in Attempts \ {a} : op'[b] = op[b]
  /\ op'[a].name = op[a].name /\ op'[a].pc = pc
  /\ op'[a].key = op[a].key /\ op'[a].aborted = op[a].aborted

\* Goes.
LEMMA GoesMoves ==
  ASSUME Typed, NEW a \in Attempts, NEW pc \in Pcs, Goes(a, pc)
  PROVE  /\ Moves(a, pc) /\ op'[a].was = op[a].was
         /\ op'[a].run = op[a].run /\ op'[a].answer = op[a].answer
<1>1. op[a] \in Ops /\ op'[a] = [op[a] EXCEPT !.pc = pc]
  BY DEF Typed, Goes
<1>2. [op[a] EXCEPT !.pc = pc] \in Ops
  BY <1>1 DEF Ops
<1>3. op' \in [Attempts -> Ops] /\ \A b \in Attempts \ {a} : op'[b] = op[b]
  BY <1>1, <1>2 DEF Typed, Goes
<1> QED
  BY <1>1, <1>3 DEF Moves, Ops

\* GoesWith.
LEMMA GoesWithMoves ==
  ASSUME Typed, NEW a \in Attempts, NEW pc \in Pcs, NEW r \in Records, GoesWith(a, pc, r)
  PROVE  /\ Moves(a, pc) /\ op'[a].was = r
         /\ op'[a].run = op[a].run /\ op'[a].answer = op[a].answer
<1>1. op[a] \in Ops /\ op'[a] = [op[a] EXCEPT !.pc = pc, !.was = r]
  BY DEF Typed, GoesWith
<1>2. [op[a] EXCEPT !.pc = pc, !.was = r] \in Ops
  BY <1>1 DEF Ops
<1>3. op' \in [Attempts -> Ops] /\ \A b \in Attempts \ {a} : op'[b] = op[b]
  BY <1>1, <1>2 DEF Typed, GoesWith
<1> QED
  BY <1>1, <1>3 DEF Moves, Ops

\* The record nobody has written yet is one.
LEMMA AbsentRecord == Absent \in Records /\ ValidRecord(Absent)
  BY DEF Absent, Records, ValidRecord, Runs

\* Over.
LEMMA OverMoves ==
  ASSUME Typed, NEW a \in Attempts, NEW answer \in Results, Over(a, answer)
  PROVE  Moves(a, "answer") /\ op'[a].answer = answer
<1>1. op[a] \in Ops
      /\ op'[a] = [op[a] EXCEPT !.pc = "answer", !.answer = answer, !.was = Absent, !.run = NoRun]
  BY DEF Typed, Over
<1>2. [op[a] EXCEPT !.pc = "answer", !.answer = answer, !.was = Absent, !.run = NoRun] \in Ops
  BY <1>1, AbsentRecord DEF Ops, Pcs
<1>3. op' \in [Attempts -> Ops] /\ \A b \in Attempts \ {a} : op'[b] = op[b]
  BY <1>1, <1>2 DEF Typed, Over
<1> QED
  BY <1>1, <1>3 DEF Moves, Ops

\* Fails.
LEMMA FailsMoves ==
  ASSUME Typed, NEW a \in Attempts, Fails(a)
  PROVE  Moves(a, "answer") /\ op'[a].answer = "vague"
  BY OverMoves DEF Fails, Results

\* Write: the operation throws and the record stays, or what it found was
\* allowed and what it has written is valid.
LEMMA WriteDoes ==
  ASSUME Typed, NEW a \in Attempts, NEW allowed, NEW next \in Records, NEW ok,
         Write(a, allowed, next, ok)
  PROVE  /\ file' \in [Attempts -> Records] /\ \A b \in Attempts \ {a} : file'[b] = file[b]
         /\ \/ ~ok /\ file' = file
            \/ allowed /\ ValidRecord(next) /\ file'[a] = next
<1>1. CASE UNCHANGED file /\ ~ok
  BY <1>1 DEF Typed
<1>2. CASE allowed /\ ValidRecord(next) /\ file' = [file EXCEPT ![a] = next]
  BY <1>2 DEF Typed
<1> QED
  BY <1>1, <1>2 DEF Write

\* What is left alone stays typed.
LEMMA StoreStep ==
  ASSUME Typed, NEW a \in Attempts, InStore,
         file' \in [Attempts -> Records], \A b \in Attempts \ {a} : file'[b] = file[b],
         op' \in [Attempts -> Ops], \A b \in Attempts \ {a} : op'[b] = op[b]
  PROVE  /\ Typed' /\ Others(a) /\ life' = life
         /\ svc' = svc /\ wire' = wire /\ runs' = runs /\ cancels' = cancels
         /\ waiting' = waiting /\ reply' = reply /\ ledger' = ledger
<1>1. /\ svc' = svc /\ wire' = wire /\ runs' = runs /\ cancels' = cancels
      /\ waiting' = waiting /\ reply' = reply
      /\ ledger' = ledger /\ hkey' = hkey /\ life' = life
  BY DEF InStore, NoBridge, NoHost, hostVars, bridgeVars, service, network
<1> QED
  BY <1>1 DEF Typed, Others, Same

-----------------------------------------------------------------------------
(* What a step does to the agent and its record, as the provider shows it.  *)

Stays(a) ==
  /\ svc'[a] = svc[a] /\ file'[a].key = file[a].key
  /\ svc[a] = "deleted" => (file'[a].state = "absent" <=> file[a].state = "absent")
Creating(a) == svc[a] = "none" /\ svc'[a] = "live" /\ file[a].key = NoKey /\ file'[a] = file[a]
Reserving(a) ==
  /\ svc[a] = "live" /\ svc'[a] = "live"
  /\ file[a].key = NoKey /\ file'[a].key # NoKey
Releasing(a) ==
  /\ svc[a] = "live" /\ svc'[a] = "live"
  /\ file[a].key # NoKey /\ file'[a].key = NoKey
Removing(a) ==
  /\ svc[a] = "live" /\ svc'[a] = "deleted" /\ file'[a] = file[a]
  /\ Fenced(a) /\ LiveRuns(a) = {} /\ Ask("send") \notin wire[a]
Forgetting(a) ==
  /\ svc[a] = "deleted" /\ svc'[a] = "deleted"
  /\ file[a].state # "absent" /\ file'[a].state = "absent"

Shows(a) ==
  Stays(a) \/ Creating(a) \/ Reserving(a) \/ Releasing(a) \/ Removing(a) \/ Forgetting(a)

\* A step of launch a: it leaves the others alone and keeps what is true of a.
Does(a) == Typed' /\ Others(a) /\ Fine(a)' /\ Shows(a) /\ life' = life

-----------------------------------------------------------------------------
(* An operation that looks, decides or gives up.                            *)

\* Record, agent and runs are left as they are.
LEMMA WorldStays ==
  ASSUME NEW a \in Attempts, file'[a] = file[a], svc'[a] = svc[a], wire'[a] = wire[a],
         runs'[a] = runs[a], cancels'[a] = cancels[a]
  PROVE  /\ Deleting(a)' <=> Deleting(a)
         /\ Started(a)' = Started(a) /\ LiveRuns(a)' = LiveRuns(a) /\ (Known(a)' <=> Known(a))
         /\ Filed(a) => Filed(a)'
         /\ OnWire(a) => OnWire(a)'
         /\ Prompted(a) => Prompted(a)'
         /\ Stays(a)
<1>1. /\ Deleting(a)' <=> Deleting(a)
      /\ Started(a)' = Started(a) /\ LiveRuns(a)' = LiveRuns(a)
  BY DEF Deleting, Started, LiveRuns
<1>2. Known(a)' <=> Known(a)
  BY <1>1 DEF Known
<1>3. Filed(a) => Filed(a)'
  BY <1>1 DEF Filed
<1>4. OnWire(a) => OnWire(a)'
  BY <1>1, <1>2 DEF OnWire, Fenced
<1>5. Prompted(a) => Prompted(a)'
  BY <1>1, <1>2 DEF Prompted
<1> QED
  BY <1>1, <1>2, <1>3, <1>4, <1>5 DEF Stays

\* An operation that has failed has nothing to answer for.
LEMMA NothingTold ==
  ASSUME Typed, NEW a \in Attempts, op[a].name # "none", Preparing(a),
         Moves(a, "answer"), op'[a].answer \in {"vague", "done"},
         waiting'[a] = NoRequest, reply'[a] = "none"
  PROVE  Doing(a)'
  BY DEF Doing, Launching, Acting, Preparing, Retiring, Telling, Waits, At, Moves

\* The step of an operation that changes nothing but where it is.
LEMMA Thinks ==
  ASSUME CursorInv, NEW a \in Attempts, NEW pc, Moves(a, pc),
         UNCHANGED <<file, svc, wire, runs, cancels, waiting, reply, hostVars>>
  PROVE  Typed' /\ Others(a) /\ Filed(a)' /\ OnWire(a)' /\ Prompted(a)' /\ Agrees(a)'
         /\ Shows(a) /\ life' = life
<1>1. Typed' /\ Others(a) /\ life' = life
  BY DEF CursorInv, Typed, Others, Same, Moves, hostVars
<1>2. Filed(a)' /\ OnWire(a)' /\ Prompted(a)' /\ Shows(a)
  BY WorldStays DEF CursorInv, Fine, Shows
<1>3. Agrees(a)'
  BY DEF CursorInv, Fine, Agrees, Moves, hostVars
<1> QED
  BY <1>1, <1>2, <1>3

\* It gives up before it has sent anything.
LEMMA GivesUpEarly ==
  ASSUME CursorInv, NEW a \in Attempts, op[a].name # "none", op[a].pc # "sent", Fails(a),
         UNCHANGED <<file, svc, wire, runs, cancels, waiting, reply, hostVars>>
  PROVE  Does(a)
<1>1. Moves(a, "answer") /\ op'[a].answer = "vague"
  BY FailsMoves DEF CursorInv
<1>2. Doing(a)'
  BY <1>1, NothingTold DEF CursorInv, Fine, Doing, Waits
<1> QED
  BY <1>1, <1>2, Thinks DEF Does, Fine

\* getLocal finds a live agent, at rest only if no run of it is live.
LEMMA StatusTells ==
  ASSUME NEW a \in Attempts, NEW s \in StatusesOf(a)
  PROVE  svc[a] = "live" /\ (s \in Resting => LiveRuns(a) = {})
  BY DEF StatusesOf, Resting

\* What does not move the file, the bridge or the host.
LEMMA Idles ==
  /\ OnlyOp => UNCHANGED <<file, svc, wire, runs, cancels, waiting, reply, hostVars>>
  /\ UNCHANGED file /\ InStore =>
       UNCHANGED <<file, svc, wire, runs, cancels, waiting, reply, hostVars>>
  /\ \A a, s : Looked(a, s) /\ InBridge =>
       UNCHANGED <<file, svc, wire, runs, cancels, waiting, reply, hostVars>>
  /\ NoBridge /\ InBridge => UNCHANGED <<file, svc, wire, runs, cancels, waiting, reply, hostVars>>
  BY DEF OnlyOp, InStore, InBridge, NoBridge, NoHost, Looked, bridgeVars, service, network

\* reconcileLaunch: reads the record.
LEMMA ReconcileReadsDoes ==
  ASSUME CursorInv, NEW a \in Attempts, ReconcileReads(a)
  PROVE  Does(a)
<1>1. op[a].name = "reconcile" /\ op[a].pc = "get" /\ file[a] \in Records /\ Fine(a)
  BY DEF ReconcileReads, At, CursorInv, Typed
<1>2. UNCHANGED <<file, svc, wire, runs, cancels, waiting, reply, hostVars>>
  BY Idles DEF ReconcileReads
<1>3. CASE Fails(a)
  BY <1>1, <1>2, <1>3, GivesUpEarly
<1>4. CASE file[a].state # "absent" /\ GoesWith(a, "look", file[a])
  <2>1. Moves(a, "look") /\ op'[a].was = file[a]
    BY <1>1, <1>4, GoesWithMoves DEF Pcs, CursorInv
  <2>2. file[a].state \in {"intent", "owned"}
    BY <1>1, <1>4 DEF Fine, Agrees
  <2>3. Doing(a)'
    BY <1>1, <1>2, <2>1, <2>2
       DEF Moves, Fine, Doing, Launching, Acting, Preparing, Retiring, Telling, Waits, At, Actions
  <2> QED
    BY <1>2, <2>1, <2>3, Thinks DEF Does, Fine
<1> QED
  BY <1>3, <1>4 DEF ReconcileReads

\* It looks at the agent.
LEMMA ReconcileLooksDoes ==
  ASSUME CursorInv, NEW a \in Attempts, ReconcileLooks(a)
  PROVE  Does(a)
<1>1. op[a].name = "reconcile" /\ op[a].pc = "look" /\ Fine(a)
  BY DEF ReconcileLooks, At, CursorInv
<1>2. UNCHANGED <<file, svc, wire, runs, cancels, waiting, reply, hostVars>>
  BY Idles DEF ReconcileLooks
<1>3. CASE Fails(a)
  BY <1>1, <1>2, <1>3, GivesUpEarly
<1>4. ASSUME NEW s \in StatusesOf(a),
             IF op[a].was.state = "owned" THEN Over(a, "owned") ELSE Goes(a, "own")
      PROVE  Does(a)
  <2>1. op[a].was = file[a] /\ file[a].state \in {"intent", "owned"} /\ svc[a] = "live"
    BY <1>1, <1>4, StatusTells DEF Fine, Doing, Launching, At
  <2>2. CASE file[a].state = "owned" /\ Over(a, "owned")
    <3>1. Moves(a, "answer") /\ op'[a].answer = "owned"
      BY <2>2, OverMoves DEF CursorInv, Results
    <3>2. Doing(a)'
      BY <1>1, <1>2, <2>2, <3>1
         DEF Moves, Fine, Doing, Launching, Acting, Preparing, Retiring, Telling, Waits, At, Actions
    <3> QED
      BY <1>2, <3>1, <3>2, Thinks DEF Does, Fine
  <2>3. CASE file[a].state = "intent" /\ Goes(a, "own")
    <3>1. Moves(a, "own")
      BY <2>3, GoesMoves DEF CursorInv, Pcs
    <3>2. Doing(a)'
      BY <1>1, <1>2, <2>1, <2>3, <3>1
         DEF Moves, Fine, Doing, Launching, Acting, Preparing, Retiring, Telling, Waits, At, Actions
    <3> QED
      BY <1>2, <3>1, <3>2, Thinks DEF Does, Fine
  <2> QED
    BY <1>4, <2>1, <2>2, <2>3
<1> QED
  BY <1>3, <1>4 DEF ReconcileLooks

\* #actionContext: reads the record.
LEMMA ActionReadsDoes ==
  ASSUME CursorInv, NEW a \in Attempts, ActionReads(a)
  PROVE  Does(a)
<1>1. op[a].name \in Actions /\ op[a].pc = "context" /\ file[a] \in Records /\ Fine(a)
  BY DEF ActionReads, At, CursorInv, Typed
<1>2. UNCHANGED <<file, svc, wire, runs, cancels, waiting, reply, hostVars>>
  BY Idles DEF ActionReads
<1>3. CASE Fails(a)
  BY <1>1, <1>2, <1>3, GivesUpEarly DEF Actions
<1>4. CASE file[a].state = "owned" /\ GoesWith(a, "look", file[a])
  <2>1. Moves(a, "look") /\ op'[a].was = file[a]
    BY <1>1, <1>4, GoesWithMoves DEF Pcs, CursorInv
  <2>2. Doing(a)'
    BY <1>1, <1>2, <1>4, <2>1
       DEF Moves, Fine, Doing, Launching, Acting, Preparing, Retiring, Telling, Waits, At, Actions
  <2> QED
    BY <1>2, <2>1, <2>2, Thinks DEF Does, Fine
<1> QED
  BY <1>3, <1>4 DEF ActionReads

\* It looks at the agent, and admits the action or not.
LEMMA ActionLooksDoes ==
  ASSUME CursorInv, NEW a \in Attempts, ActionLooks(a)
  PROVE  Does(a)
<1>1. op[a].name \in Actions /\ op[a].pc = "look" /\ Fine(a)
  BY DEF ActionLooks, CursorInv
<1>2. UNCHANGED <<file, svc, wire, runs, cancels, waiting, reply, hostVars>>
  BY Idles DEF ActionLooks
<1>3. CASE Fails(a)
  BY <1>1, <1>2, <1>3, GivesUpEarly DEF Actions
<1>4. ASSUME NEW s \in StatusesOf(a), NEW pc \in {"read", "inspect", "begin"},
             Admits(op[a].name, op[a].was, s), Goes(a, pc)
      PROVE  Does(a)
  <2>1. op[a].was = file[a] /\ file[a].state = "owned"
    BY <1>1 DEF Fine, Doing, Acting
  <2>2. Moves(a, pc) /\ op'[a].was = file[a]
    BY <1>4, <2>1, GoesMoves DEF CursorInv, Pcs
  <2>3. /\ ~file[a].pending
        /\ op[a].name = "prompt" => LiveRuns(a) = {}
        /\ op[a].name = "interrupt" => file[a].cancel = NoRun /\ file[a].run # NoRun
    BY <1>1, <1>4, <2>1, StatusTells DEF Admits, Actions
  <2>4. LiveRuns(a)' = LiveRuns(a)
    BY <1>2 DEF LiveRuns
  <2>5. Acting(a)'
    BY <1>1, <1>2, <1>4, <2>1, <2>2, <2>3, <2>4 DEF Moves, Acting, At, Actions
  <2>6. Doing(a)'
    BY <1>1, <1>2, <1>4, <2>2, <2>5
       DEF Moves, Fine, Doing, Launching, Preparing, Retiring, Telling, Waits, At, Actions
  <2> QED
    BY <1>2, <2>2, <2>6, Thinks DEF Does, Fine
<1> QED
  BY <1>3, <1>4 DEF ActionLooks

\* It looks at the run.
LEMMA ActionInspectsDoes ==
  ASSUME CursorInv, NEW a \in Attempts, ActionInspects(a)
  PROVE  Does(a)
<1>1. op[a].name \in {"prompt", "interrupt"} /\ op[a].pc = "inspect" /\ Fine(a)
  BY DEF ActionInspects, CursorInv
<1>2. UNCHANGED <<file, svc, wire, runs, cancels, waiting, reply, hostVars>>
  BY Idles DEF ActionInspects
<1>3. CASE Fails(a)
  BY <1>1, <1>2, <1>3, GivesUpEarly
<1>4. CASE Goes(a, "begin")
  <2>1. Moves(a, "begin") /\ op'[a].was = op[a].was
    BY <1>4, GoesMoves DEF CursorInv, Pcs
  <2>2. LiveRuns(a)' = LiveRuns(a)
    BY <1>2 DEF LiveRuns
  <2>3. Acting(a)'
    BY <1>1, <1>2, <2>1, <2>2 DEF Moves, Fine, Doing, Acting, At, Actions
  <2>4. Doing(a)'
    BY <1>1, <1>2, <2>1, <2>3
       DEF Moves, Fine, Doing, Launching, Preparing, Retiring, Telling, Waits, At
  <2> QED
    BY <1>2, <2>1, <2>4, Thinks DEF Does, Fine
<1> QED
  BY <1>3, <1>4 DEF ActionInspects

\* read() reads a run that has ended.
LEMMA ReadsRunDoes ==
  ASSUME CursorInv, NEW a \in Attempts, ReadsRun(a)
  PROVE  Does(a)
<1>1. op[a].name = "read" /\ op[a].pc = "read" /\ Fine(a)
  BY DEF ReadsRun, CursorInv, At
<1>2. UNCHANGED <<file, svc, wire, runs, cancels, waiting, reply, hostVars>>
  BY Idles DEF ReadsRun
<1>3. CASE Fails(a)
  BY <1>1, <1>2, <1>3, GivesUpEarly
<1>4. CASE Over(a, "done")
  <2>1. Moves(a, "answer") /\ op'[a].answer = "done"
    BY <1>4, OverMoves DEF CursorInv, Results
  <2>2. Doing(a)'
    BY <1>1, <1>2, <2>1, NothingTold DEF CursorInv, Fine, Doing, Waits
  <2> QED
    BY <1>2, <2>1, <2>2, Thinks DEF Does, Fine
<1> QED
  BY <1>3, <1>4 DEF ReadsRun

\* prepareLaunchRetirement: reads the record.
LEMMA PrepareReadsDoes ==
  ASSUME CursorInv, NEW a \in Attempts, PrepareReads(a)
  PROVE  Does(a)
<1>1. op[a].name = "prepare" /\ op[a].pc = "get" /\ Fine(a)
  BY DEF PrepareReads, CursorInv, At
<1>2. UNCHANGED <<file, svc, wire, runs, cancels, waiting, reply, hostVars>>
  BY Idles DEF PrepareReads
<1>3. CASE Fails(a)
  BY <1>1, <1>2, <1>3, GivesUpEarly
<1>4. CASE file[a].state = "owned" /\ NotReservedByOther(a, op[a].key) /\ Goes(a, "reserve")
  <2>1. Moves(a, "reserve")
    BY <1>4, GoesMoves DEF CursorInv, Pcs
  <2>2. Doing(a)'
    BY <1>1, <1>2, <1>4, <2>1
       DEF Moves, Fine, Doing, Launching, Acting, Preparing, Retiring, Telling, Waits, At,
           Actions, NotReservedByOther
  <2> QED
    BY <1>2, <2>1, <2>2, Thinks DEF Does, Fine
<1>5. CASE file[a].state = "owned" /\ Over(a, "conflict")
  <2>1. Moves(a, "answer") /\ op'[a].answer = "conflict"
    BY <1>5, OverMoves DEF CursorInv, Results
  <2>2. Doing(a)'
    BY <1>1, <1>2, <1>5, <2>1
       DEF Moves, Fine, Doing, Launching, Acting, Preparing, Retiring, Telling, Waits, At, Actions
  <2> QED
    BY <1>2, <2>1, <2>2, Thinks DEF Does, Fine
<1> QED
  BY <1>3, <1>4, <1>5 DEF PrepareReads

\* retireLaunch goes on with the record it has: the clauses of Retiring that
\* an operation at each of its next points needs.
LEMMA RetireGoesOn ==
  ASSUME CursorInv, NEW a \in Attempts, op[a].name = "retire", op[a].pc # "sent",
         NEW r, r = file'[a], file' \in [Attempts -> Records], Filed(a)',
         r.state \in {"owned", "retiring"}, RetireGoes(a, r),
         waiting' = waiting, reply' = reply
  PROVE  (\E pc \in Pcs : Moves(a, pc)) /\ Doing(a)'
<1>1. r \in Records
  OBVIOUS
<1>2. CASE Replaying(r) /\ GoesWith(a, "send", r)
  <2>1. Moves(a, "send") /\ op'[a].was = r
    BY <1>1, <1>2, GoesWithMoves DEF CursorInv, Pcs
  <2>2. Doing(a)'
    BY <1>2, <2>1
       DEF Moves, CursorInv, Fine, Doing, Launching, Acting, Preparing, Retiring, Telling, Waits,
           At, Actions, Fenced, Replaying
  <2> QED
    BY <2>1, <2>2 DEF Pcs
<1>3. CASE ~Replaying(r) /\ Unsettled(r) /\ GoesWith(a, "cancel", r)
  <2>1. Moves(a, "cancel")
    BY <1>1, <1>3, GoesWithMoves DEF CursorInv, Pcs
  <2>2. svc'[a] = "live" /\ ~Deleting(a)'
    BY <1>3 DEF Filed
  <2>3. Doing(a)'
    BY <2>1, <2>2
       DEF Moves, CursorInv, Fine, Doing, Launching, Acting, Preparing, Retiring, Telling, Waits,
           At, Actions
  <2> QED
    BY <2>1, <2>3 DEF Pcs
<1>4. CASE ~Replaying(r) /\ ~Unsettled(r) /\ GoesWith(a, "look", r)
  <2>1. Moves(a, "look") /\ op'[a].was = r
    BY <1>1, <1>4, GoesWithMoves DEF CursorInv, Pcs
  <2>2. Doing(a)'
    BY <1>4, <2>1
       DEF Moves, CursorInv, Fine, Doing, Launching, Acting, Preparing, Retiring, Telling, Waits,
           At, Actions, Replaying, Unsettled
  <2> QED
    BY <2>1, <2>2 DEF Pcs
<1> QED
  BY <1>2, <1>3, <1>4 DEF RetireGoes

\* It reads the record.
LEMMA RetireReadsDoes ==
  ASSUME CursorInv, NEW a \in Attempts, RetireReads(a)
  PROVE  Does(a)
<1>1. op[a].name = "retire" /\ op[a].pc = "get" /\ Fine(a) /\ file[a] \in Records
  BY DEF RetireReads, CursorInv, At, Typed
<1>2. UNCHANGED <<file, svc, wire, runs, cancels, waiting, reply, hostVars>>
  BY Idles DEF RetireReads
<1>3. CASE Fails(a)
  BY <1>1, <1>2, <1>3, GivesUpEarly
<1>4. CASE file[a].state = "retired" /\ Over(a, "retired")
  <2>1. Moves(a, "answer") /\ op'[a].answer = "retired"
    BY <1>4, OverMoves DEF CursorInv, Results
  <2>2. Doing(a)'
    BY <1>1, <1>2, <1>4, <2>1
       DEF Moves, Fine, Doing, Launching, Acting, Preparing, Retiring, Telling, Waits, At, Actions
  <2> QED
    BY <1>2, <2>1, <2>2, Thinks DEF Does, Fine
<1>5. CASE file[a].state = "owned" /\ Goes(a, "reserve")
  <2>1. Moves(a, "reserve")
    BY <1>5, GoesMoves DEF CursorInv, Pcs
  <2>2. Doing(a)'
    BY <1>1, <1>2, <1>5, <2>1
       DEF Moves, Fine, Doing, Launching, Acting, Preparing, Retiring, Telling, Waits, At, Actions
  <2> QED
    BY <1>2, <2>1, <2>2, Thinks DEF Does, Fine
<1>6. CASE file[a].state \in {"owned", "retiring"} /\ RetireGoes(a, file[a])
  <2>1. Filed(a)' /\ file' \in [Attempts -> Records]
    BY <1>1, <1>2, WorldStays DEF CursorInv, Fine, Typed
  <2>2. (\E pc \in Pcs : Moves(a, pc)) /\ Doing(a)'
    BY <1>1, <1>2, <1>6, <2>1, RetireGoesOn
  <2> QED
    BY <1>2, <2>2, Thinks DEF Does, Fine
<1> QED
  BY <1>3, <1>4, <1>5, <1>6 DEF RetireReads

\* It looks at the agent.
LEMMA RetireLooksDoes ==
  ASSUME CursorInv, NEW a \in Attempts, RetireLooks(a)
  PROVE  Does(a)
<1>1. op[a].name = "retire" /\ op[a].pc = "look" /\ Fine(a)
  BY DEF RetireLooks, CursorInv, At
<1>2. UNCHANGED <<file, svc, wire, runs, cancels, waiting, reply, hostVars>>
  BY Idles DEF RetireLooks
<1>3. CASE Fails(a)
  BY <1>1, <1>2, <1>3, GivesUpEarly
<1>4. ASSUME NEW s \in StatusesOf(a), NEW pc,
             Goes(a, pc),
             \/ pc = "cancel"
             \/ s \in Resting /\ pc = "inspect"
             \/ s \in Resting /\ pc = Fence(op[a].was)
      PROVE  Does(a)
  <2>1. /\ op[a].was = file[a] /\ file[a].state \in {"owned", "retiring"}
        /\ ~Replaying(file[a]) /\ ~Unsettled(file[a]) /\ svc[a] = "live"
        /\ s \in Resting => LiveRuns(a) = {}
    BY <1>1, <1>4, StatusTells DEF Fine, Doing, Retiring
  <2>2. pc \in Pcs
    BY <1>4 DEF Fence, Pcs
  <2>3. Moves(a, pc) /\ op'[a].was = file[a]
    BY <1>4, <2>1, <2>2, GoesMoves DEF CursorInv
  <2>4. LiveRuns(a)' = LiveRuns(a) /\ (Deleting(a)' <=> Deleting(a))
    BY <1>2 DEF LiveRuns, Deleting
  <2>5. ~Deleting(a)
    BY <1>1, <2>1 DEF Fine, Filed, Replaying
  <2>6. Retiring(a)'
    BY <1>1, <1>2, <1>4, <2>1, <2>3, <2>4, <2>5
       DEF Moves, Retiring, At, Fence, Replaying, Unsettled
  <2>7. Doing(a)'
    BY <1>1, <1>2, <1>4, <2>3, <2>6
       DEF Moves, Fine, Doing, Launching, Acting, Preparing, Telling, Waits, At, Actions, Fence
  <2> QED
    BY <1>2, <2>3, <2>7, Thinks DEF Does, Fine
<1> QED
  BY <1>3, <1>4 DEF RetireLooks

\* It looks at the run.
LEMMA RetireInspectsDoes ==
  ASSUME CursorInv, NEW a \in Attempts, RetireInspects(a)
  PROVE  Does(a)
<1>1. op[a].name = "retire" /\ op[a].pc = "inspect" /\ Fine(a)
  BY DEF RetireInspects, CursorInv, At
<1>2. UNCHANGED <<file, svc, wire, runs, cancels, waiting, reply, hostVars>>
  BY Idles DEF RetireInspects
<1>3. CASE Fails(a)
  BY <1>1, <1>2, <1>3, GivesUpEarly
<1>4. ASSUME NEW pc, Goes(a, pc), pc \in {"cancel", Fence(op[a].was)}
      PROVE  Does(a)
  <2>1. /\ op[a].was = file[a] /\ file[a].state \in {"owned", "retiring"}
        /\ ~Replaying(file[a]) /\ ~Unsettled(file[a]) /\ LiveRuns(a) = {}
    BY <1>1 DEF Fine, Doing, Retiring
  <2>2. pc \in Pcs
    BY <1>4 DEF Fence, Pcs
  <2>3. Moves(a, pc) /\ op'[a].was = file[a]
    BY <1>4, <2>1, <2>2, GoesMoves DEF CursorInv
  <2>4. LiveRuns(a)' = LiveRuns(a) /\ (Deleting(a)' <=> Deleting(a))
    BY <1>2 DEF LiveRuns, Deleting
  <2>5. svc[a] = "live" /\ ~Deleting(a)
    BY <1>1, <2>1 DEF Fine, Filed, Replaying
  <2>6. Retiring(a)'
    BY <1>1, <1>2, <1>4, <2>1, <2>3, <2>4, <2>5
       DEF Moves, Retiring, At, Fence, Replaying, Unsettled
  <2>7. Doing(a)'
    BY <1>1, <1>2, <1>4, <2>3, <2>6
       DEF Moves, Fine, Doing, Launching, Acting, Preparing, Telling, Waits, At, Actions, Fence
  <2> QED
    BY <1>2, <2>3, <2>7, Thinks DEF Does, Fine
<1> QED
  BY <1>3, <1>4 DEF RetireInspects

-----------------------------------------------------------------------------
(* An operation that has its record written.                                *)

\* It has written the record, whatever it has made of that.
Wrote(a) ==
  /\ file' \in [Attempts -> Records] /\ \A b \in Attempts \ {a} : file'[b] = file[b]
  /\ Filed(a)' /\ OnWire(a)' /\ Prompted(a)' /\ Shows(a)

\* The operation has written the record and goes on.
LEMMA WritesOn ==
  ASSUME CursorInv, NEW a \in Attempts, InStore, Wrote(a), NEW pc, Moves(a, pc),
         Doing(a)', Agrees(a)'
  PROVE  Does(a)
  BY StoreStep DEF CursorInv, Wrote, Moves, Does, Fine

\* The operation has written the record and throws all the same.
LEMMA WritesAndFails ==
  ASSUME CursorInv, NEW a \in Attempts, op[a].name # "none", op[a].pc # "sent",
         InStore, Wrote(a), Fails(a), Moves(a, "answer") => Agrees(a)'
  PROVE  Does(a)
<1>1. Moves(a, "answer") /\ op'[a].answer = "vague"
  BY FailsMoves DEF CursorInv
<1>2. waiting' = waiting /\ reply' = reply
  BY DEF InStore, NoBridge, bridgeVars, network
<1>3. Doing(a)'
  BY <1>1, <1>2, NothingTold DEF CursorInv, Fine, Doing, Waits
<1> QED
  BY <1>1, <1>3, WritesOn

\* The operation throws, and the record is as it was.
LEMMA WritesNothing ==
  ASSUME CursorInv, NEW a \in Attempts, op[a].name # "none", op[a].pc # "sent",
         InStore, file' = file, Fails(a)
  PROVE  Does(a)
  BY Idles, GivesUpEarly

\* What a write leaves alone.
LEMMA StoreLeaves ==
  ASSUME NEW a \in Attempts, InStore
  PROVE  /\ svc'[a] = svc[a] /\ wire'[a] = wire[a] /\ runs'[a] = runs[a]
         /\ cancels'[a] = cancels[a] /\ waiting'[a] = waiting[a] /\ reply'[a] = reply[a]
         /\ waiting' = waiting /\ reply' = reply
         /\ ledger'[a] = ledger[a] /\ (Deleting(a)' <=> Deleting(a))
         /\ Started(a)' = Started(a) /\ LiveRuns(a)' = LiveRuns(a)
  BY DEF InStore, NoBridge, NoHost, bridgeVars, service, network, hostVars,
         Deleting, Started, LiveRuns

\* reserve: the intent is on file before anything is asked of the bridge.
LEMMA LaunchReservesDoes ==
  ASSUME CursorInv, NEW a \in Attempts, LaunchReserves(a)
  PROVE  Does(a)
<1> DEFINE next == [Absent EXCEPT !.state = "intent"]
<1>1. /\ op[a].name = "launch" /\ op[a].pc = "reserve" /\ Fine(a) /\ InStore
      /\ file[a].state = "absent" /\ svc[a] = "none" /\ wire[a] = {} /\ file[a] \in Records
  BY DEF LaunchReserves, CursorInv, At, Fine, Doing, Launching, Typed
<1>2. /\ next \in Records /\ next.state = "intent" /\ next.run = NoRun /\ ~next.pending
      /\ next.key = NoKey /\ next.cancel = NoRun
  BY DEF Absent, Records
<1> HIDE DEF next
<1>3. PICK ok \in BOOLEAN : Reserve(a, ok) /\ (IF ok THEN Goes(a, "call") ELSE Fails(a))
  BY DEF LaunchReserves
<1>4. /\ file' \in [Attempts -> Records] /\ \A b \in Attempts \ {a} : file'[b] = file[b]
      /\ (~ok /\ file' = file) \/ (ValidRecord(next) /\ file'[a] = next)
  BY <1>2, <1>3, WriteDoes DEF Reserve, next, CursorInv
<1>5. CASE ~ok /\ file' = file
  BY <1>1, <1>3, <1>5, WritesNothing
<1>6. CASE ValidRecord(next) /\ file'[a] = next
  <2>1. /\ file[a].run = NoRun /\ file[a].key = NoKey
        /\ ~file[a].pending /\ file[a].cancel = NoRun
    BY <1>1 DEF Fine, Filed, ValidRecord, Absent
  <2>2. Wrote(a)
    BY <1>1, <1>2, <1>4, <1>6, <2>1, StoreLeaves
       DEF Wrote, Fine, Filed, OnWire, Prompted, Shows, Stays, Known, Deleting
  <2>3. ASSUME NEW pc, Moves(a, pc)
        PROVE  Agrees(a)'
    BY <1>1, <1>2, <1>6, <2>3, StoreLeaves DEF Moves, Agrees, Fine, Absent
  <2>4. CASE Fails(a)
    BY <1>1, <2>2, <2>3, <2>4, WritesAndFails
  <2>5. CASE Goes(a, "call")
    <3>1. Moves(a, "call")
      BY <2>5, GoesMoves DEF CursorInv, Pcs
    <3>2. Doing(a)'
      BY <1>1, <1>2, <1>6, <3>1, StoreLeaves
         DEF Moves, Fine, Doing, Launching, Acting, Preparing, Retiring, Telling, Waits, At, Actions
    <3> QED
      BY <1>1, <2>2, <2>3, <3>1, <3>2, WritesOn
  <2> QED
    BY <1>3, <2>4, <2>5
<1> QED
  BY <1>4, <1>5, <1>6

\* markOwned: the agent is this host's once the bridge has it.
LEMMA OwnsDoes ==
  ASSUME CursorInv, NEW a \in Attempts, Owns(a)
  PROVE  Does(a)
<1> DEFINE next == [file[a] EXCEPT !.state = "owned"]
<1>1. /\ op[a].name \in {"launch", "reconcile"} /\ op[a].pc = "own" /\ Fine(a) /\ InStore
      /\ file[a].state = "intent" /\ svc[a] = "live" /\ file[a] \in Records
  BY DEF Owns, CursorInv, At, Fine, Doing, Launching, Typed
<1>2. /\ next \in Records /\ next.state = "owned" /\ next.run = file[a].run
      /\ next.pending = file[a].pending /\ next.key = file[a].key /\ next.cancel = file[a].cancel
  BY <1>1 DEF Records
<1> HIDE DEF next
<1>3. PICK ok \in BOOLEAN : MarkOwned(a, ok) /\ (IF ok THEN Over(a, "owned") ELSE Fails(a))
  BY DEF Owns
<1>4. /\ file' \in [Attempts -> Records] /\ \A b \in Attempts \ {a} : file'[b] = file[b]
      /\ (~ok /\ file' = file) \/ (ValidRecord(next) /\ file'[a] = next)
  BY <1>2, <1>3, WriteDoes DEF MarkOwned, next, CursorInv
<1>5. CASE ~ok /\ file' = file
  BY <1>1, <1>3, <1>5, WritesNothing
<1>6. CASE ValidRecord(next) /\ file'[a] = next
  <2>1. ~Deleting(a) /\ Ask("send") \notin wire[a]
    BY <1>1 DEF Fine, OnWire, Fenced
  <2>2. Wrote(a)
    BY <1>1, <1>2, <1>4, <1>6, <2>1, StoreLeaves
       DEF Wrote, Fine, Filed, OnWire, Prompted, Shows, Stays, Known
  <2>3. ASSUME NEW pc, Moves(a, pc)
        PROVE  Agrees(a)'
    BY <1>1, <1>2, <1>6, <2>3, StoreLeaves DEF Moves, Agrees, Fine, Absent
  <2>4. CASE Fails(a)
    BY <1>1, <2>2, <2>3, <2>4, WritesAndFails
  <2>5. CASE Over(a, "owned")
    <3>1. Moves(a, "answer") /\ op'[a].answer = "owned"
      BY <2>5, OverMoves DEF CursorInv, Results
    <3>2. Doing(a)'
      BY <1>1, <1>2, <1>6, <3>1, StoreLeaves
         DEF Moves, Fine, Doing, Launching, Acting, Preparing, Retiring, Telling, Waits, At, Actions
    <3> QED
      BY <1>1, <2>2, <2>3, <3>1, <3>2, WritesOn
  <2> QED
    BY <1>3, <2>4, <2>5
<1> QED
  BY <1>4, <1>5, <1>6

\* beginRun: the prompt is in doubt before it is sent.
LEMMA PromptBeginsDoes ==
  ASSUME CursorInv, NEW a \in Attempts, PromptBegins(a)
  PROVE  Does(a)
<1> DEFINE next == [file[a] EXCEPT !.pending = TRUE]
<1>1. /\ op[a].name = "prompt" /\ op[a].pc = "begin" /\ Fine(a) /\ InStore
      /\ file[a].state = "owned" /\ ~file[a].pending /\ LiveRuns(a) = {} /\ file[a] \in Records
  BY DEF PromptBegins, CursorInv, At, Fine, Doing, Acting, Actions, Typed
<1>2. /\ next \in Records /\ next.state = "owned" /\ next.key = file[a].key /\ next.pending
      /\ next.run = file[a].run /\ next.cancel = file[a].cancel
  BY <1>1 DEF Records
<1> HIDE DEF next
<1>3. PICK ok \in BOOLEAN : BeginRun(a, ok) /\ (IF ok THEN Goes(a, "call") ELSE Fails(a))
  BY DEF PromptBegins
<1>4. /\ file' \in [Attempts -> Records] /\ \A b \in Attempts \ {a} : file'[b] = file[b]
      /\ (~ok /\ file' = file) \/ (ValidRecord(next) /\ file'[a] = next)
  BY <1>2, <1>3, WriteDoes DEF BeginRun, UpdateOwned, next, CursorInv
<1>5. CASE ~ok /\ file' = file
  BY <1>1, <1>3, <1>5, WritesNothing
<1>6. CASE ValidRecord(next) /\ file'[a] = next
  <2>1. Ask("send") \notin wire[a] /\ svc[a] = "live" /\ Known(a)
    BY <1>1 DEF Fine, Filed, OnWire, Prompted
  <2>2. Wrote(a)
    BY <1>1, <1>2, <1>4, <1>6, <2>1, StoreLeaves
       DEF Wrote, Fine, Filed, OnWire, Prompted, Shows, Stays, Known
  <2>3. ASSUME NEW pc, Moves(a, pc)
        PROVE  Agrees(a)'
    BY <1>1, <1>2, <1>6, <2>3, StoreLeaves DEF Moves, Agrees, Fine, Absent
  <2>4. CASE Fails(a)
    BY <1>1, <2>2, <2>3, <2>4, WritesAndFails
  <2>5. CASE Goes(a, "call")
    <3>1. Moves(a, "call") /\ op'[a].was = op[a].was /\ op'[a].run = op[a].run
      BY <2>5, GoesMoves DEF CursorInv, Pcs
    <3>2. Doing(a)'
      BY <1>1, <1>2, <1>6, <2>1, <3>1, StoreLeaves
         DEF Moves, Fine, Doing, Launching, Acting, Preparing, Retiring, Telling, Waits, At, Actions, Known
    <3> QED
      BY <1>1, <2>2, <2>3, <3>1, <3>2, WritesOn
  <2> QED
    BY <1>3, <2>4, <2>5
<1> QED
  BY <1>4, <1>5, <1>6

\* commitRun: the run the prompt has started is on record.
LEMMA PromptCommitsDoes ==
  ASSUME CursorInv, NEW a \in Attempts, PromptCommits(a)
  PROVE  Does(a)
<1> DEFINE next == [file[a] EXCEPT !.run = op[a].run, !.pending = FALSE, !.cancel = NoRun]
<1>1. /\ op[a].name = "prompt" /\ op[a].pc = "commit" /\ Fine(a) /\ InStore
      /\ file[a].state = "owned" /\ file[a] \in Records /\ op[a] \in Ops
      /\ Ask("send") \notin wire[a] /\ op[a].run = file[a].run + 1
      /\ Started(a) = 1..op[a].run
  BY DEF PromptCommits, CursorInv, At, Fine, Doing, Acting, Actions, Typed
<1>2. /\ next \in Records /\ next.state = "owned" /\ next.key = file[a].key /\ ~next.pending
      /\ next.run = op[a].run /\ next.cancel = NoRun
  BY <1>1 DEF Records, Ops
<1> HIDE DEF next
<1>3. PICK ok \in BOOLEAN : CommitRun(a, op[a].run, ok) /\ (IF ok THEN Over(a, "done") ELSE Fails(a))
  BY DEF PromptCommits
<1>4. /\ file' \in [Attempts -> Records] /\ \A b \in Attempts \ {a} : file'[b] = file[b]
      /\ (~ok /\ file' = file) \/ (ValidRecord(next) /\ file'[a] = next)
  BY <1>2, <1>3, WriteDoes DEF CommitRun, UpdateOwned, next, CursorInv
<1>5. CASE ~ok /\ file' = file
  BY <1>1, <1>3, <1>5, WritesNothing
<1>6. CASE ValidRecord(next) /\ file'[a] = next
  <2>1. /\ svc[a] = "live" /\ file[a].run \in Nat
        /\ \A r \in Runs : r \in Nat /\ (cancels[a][r] = 1 => r <= file[a].run)
    BY <1>1, RunsAssumption DEF Fine, Filed, Prompted, Records, Runs, NoRun
  <2>2. Wrote(a)
    BY <1>1, <1>2, <1>4, <1>6, <2>1, StoreLeaves
       DEF Wrote, Fine, Filed, OnWire, Prompted, Shows, Stays, Known
  <2>3. ASSUME NEW pc, Moves(a, pc)
        PROVE  Agrees(a)'
    BY <1>1, <1>2, <1>6, <2>3, StoreLeaves DEF Moves, Agrees, Fine, Absent
  <2>4. CASE Fails(a)
    BY <1>1, <2>2, <2>3, <2>4, WritesAndFails
  <2>5. CASE Over(a, "done")
    <3>1. Moves(a, "answer") /\ op'[a].answer = "done"
      BY <2>5, OverMoves DEF CursorInv, Results
    <3>2. Doing(a)'
      BY <1>1, <1>2, <1>6, <2>1, <3>1, StoreLeaves
         DEF Moves, Fine, Doing, Launching, Acting, Preparing, Retiring, Telling, Waits, At, Actions
    <3> QED
      BY <1>1, <2>2, <2>3, <3>1, <3>2, WritesOn
  <2> QED
    BY <1>3, <2>4, <2>5
<1> QED
  BY <1>4, <1>5, <1>6

\* beginCancel: the run is on record as asked to end before it is.
LEMMA InterruptBeginsDoes ==
  ASSUME CursorInv, NEW a \in Attempts, InterruptBegins(a)
  PROVE  Does(a)
<1> DEFINE next == [file[a] EXCEPT !.cancel = file[a].run]
<1>1. /\ op[a].name = "interrupt" /\ op[a].pc = "begin" /\ Fine(a) /\ InStore
      /\ file[a].state = "owned" /\ ~file[a].pending /\ file[a] \in Records
      /\ op[a].was = file[a] /\ file[a].cancel = NoRun /\ file[a].run # NoRun
  BY DEF InterruptBegins, CursorInv, At, Fine, Doing, Acting, Actions, Typed
<1>2. /\ next \in Records /\ next.state = "owned" /\ next.key = file[a].key /\ next.pending = file[a].pending
      /\ next.run = file[a].run /\ next.cancel = file[a].run
  BY <1>1 DEF Records
<1> HIDE DEF next
<1>3. PICK ok \in BOOLEAN :
       BeginCancel(a, op[a].was.run, ok) /\ (IF ok THEN Goes(a, "call") ELSE Fails(a))
  BY DEF InterruptBegins
<1>4. /\ file' \in [Attempts -> Records] /\ \A b \in Attempts \ {a} : file'[b] = file[b]
      /\ (~ok /\ file' = file) \/ (ValidRecord(next) /\ file'[a] = next)
  BY <1>1, <1>2, <1>3, WriteDoes DEF BeginCancel, UpdateOwned, next, CursorInv
<1>5. CASE ~ok /\ file' = file
  BY <1>1, <1>3, <1>5, WritesNothing
<1>6. CASE ValidRecord(next) /\ file'[a] = next
  <2>1. /\ svc[a] = "live" /\ file[a].run \in Runs
        /\ cancels[a][file[a].run] = 0
    BY <1>1 DEF Fine, Filed, Prompted, Records, Runs, NoRun
  <2>2. Wrote(a)
    BY <1>1, <1>2, <1>4, <1>6, <2>1, StoreLeaves
       DEF Wrote, Fine, Filed, OnWire, Prompted, Shows, Stays, Known
  <2>3. ASSUME NEW pc, Moves(a, pc)
        PROVE  Agrees(a)'
    BY <1>1, <1>2, <1>6, <2>3, StoreLeaves DEF Moves, Agrees, Fine, Absent
  <2>4. CASE Fails(a)
    BY <1>1, <2>2, <2>3, <2>4, WritesAndFails
  <2>5. CASE Goes(a, "call")
    <3>1. Moves(a, "call") /\ op'[a].was = op[a].was /\ op'[a].run = op[a].run
      BY <2>5, GoesMoves DEF CursorInv, Pcs
    <3>2. Doing(a)'
      BY <1>1, <1>2, <1>6, <2>1, <3>1, StoreLeaves
         DEF Moves, Fine, Doing, Launching, Acting, Preparing, Retiring, Telling, Waits, At, Actions
    <3> QED
      BY <1>1, <2>2, <2>3, <3>1, <3>2, WritesOn
  <2> QED
    BY <1>3, <2>4, <2>5
<1> QED
  BY <1>4, <1>5, <1>6

\* restoreRun: no prompt is in doubt when the bridge has none.
LEMMA PromptRestoresDoes ==
  ASSUME CursorInv, NEW a \in Attempts, PromptRestores(a)
  PROVE  Does(a)
<1> DEFINE next == [file[a] EXCEPT !.pending = FALSE]
<1>1. /\ op[a].name = "prompt" /\ op[a].pc = "restore" /\ Fine(a) /\ InStore
      /\ file[a].state = "owned" /\ file[a] \in Records
      /\ Ask("send") \notin wire[a] /\ Known(a)
  BY DEF PromptRestores, CursorInv, At, Fine, Doing, Acting, Actions, Typed
<1>2. /\ next \in Records /\ next.state = "owned" /\ next.key = file[a].key /\ ~next.pending
      /\ next.run = file[a].run /\ next.cancel = file[a].cancel
  BY <1>1 DEF Records
<1> HIDE DEF next
<1>3. PICK ok \in BOOLEAN : RestoreRun(a, ok) /\ Fails(a)
  BY DEF PromptRestores
<1>4. /\ file' \in [Attempts -> Records] /\ \A b \in Attempts \ {a} : file'[b] = file[b]
      /\ (~ok /\ file' = file) \/ (ValidRecord(next) /\ file'[a] = next)
  BY <1>2, <1>3, WriteDoes DEF RestoreRun, UpdateOwned, next, CursorInv
<1>5. CASE ~ok /\ file' = file
  BY <1>1, <1>3, <1>5, WritesNothing
<1>6. CASE ValidRecord(next) /\ file'[a] = next
  <2>1. svc[a] = "live"
    BY <1>1 DEF Fine, Filed
  <2>2. Wrote(a)
    BY <1>1, <1>2, <1>4, <1>6, <2>1, StoreLeaves
       DEF Wrote, Fine, Filed, OnWire, Prompted, Shows, Stays, Known
  <2>3. ASSUME NEW pc, Moves(a, pc)
        PROVE  Agrees(a)'
    BY <1>1, <1>2, <1>6, <2>3, StoreLeaves DEF Moves, Agrees, Fine, Absent
  <2>4. CASE Fails(a)
    BY <1>1, <2>2, <2>3, <2>4, WritesAndFails
  <2> QED
    BY <1>3, <2>4
<1> QED
  BY <1>4, <1>5, <1>6

\* restoreCancel: the run may be asked to end again when it has not been.
LEMMA InterruptRestoresDoes ==
  ASSUME CursorInv, NEW a \in Attempts, InterruptRestores(a)
  PROVE  Does(a)
<1> DEFINE next == [file[a] EXCEPT !.cancel = NoRun]
<1>1. /\ op[a].name = "interrupt" /\ op[a].pc = "restore" /\ Fine(a) /\ InStore
      /\ file[a].state = "owned" /\ file[a] \in Records
      /\ file[a].run # NoRun /\ cancels[a][file[a].run] = 0
  BY DEF InterruptRestores, CursorInv, At, Fine, Doing, Acting, Actions, Typed
<1>2. /\ next \in Records /\ next.state = "owned" /\ next.key = file[a].key /\ next.pending = file[a].pending
      /\ next.run = file[a].run /\ next.cancel = NoRun
  BY <1>1 DEF Records
<1> HIDE DEF next
<1>3. PICK ok \in BOOLEAN : RestoreCancel(a, op[a].was.run, ok) /\ Fails(a)
  BY DEF InterruptRestores
<1>4. /\ file' \in [Attempts -> Records] /\ \A b \in Attempts \ {a} : file'[b] = file[b]
      /\ (~ok /\ file' = file) \/ (ValidRecord(next) /\ file'[a] = next)
  BY <1>2, <1>3, WriteDoes DEF RestoreCancel, UpdateOwned, next, CursorInv
<1>5. CASE ~ok /\ file' = file
  BY <1>1, <1>3, <1>5, WritesNothing
<1>6. CASE ValidRecord(next) /\ file'[a] = next
  <2>1. svc[a] = "live" /\ file[a].run \in Runs
    BY <1>1 DEF Fine, Filed, Records
  <2>2. Wrote(a)
    BY <1>1, <1>2, <1>4, <1>6, <2>1, StoreLeaves
       DEF Wrote, Fine, Filed, OnWire, Prompted, Shows, Stays, Known
  <2>3. ASSUME NEW pc, Moves(a, pc)
        PROVE  Agrees(a)'
    BY <1>1, <1>2, <1>6, <2>3, StoreLeaves DEF Moves, Agrees, Fine, Absent
  <2>4. CASE Fails(a)
    BY <1>1, <2>2, <2>3, <2>4, WritesAndFails
  <2> QED
    BY <1>3, <2>4
<1> QED
  BY <1>4, <1>5, <1>6

\* There is no room for a reservation.
LEMMA FullDoes ==
  ASSUME CursorInv, NEW a \in Attempts, Full(a), InStore, file[a].state = "owned",
         op[a].name \in {"prepare", "retire"}, op[a].pc # "sent"
  PROVE  Does(a)
<1>1. Moves(a, "answer") /\ op'[a].answer = "blocked" /\ file[a].key = NoKey /\ Fine(a)
  BY OverMoves DEF CursorInv, Results, Full
<1>2. UNCHANGED <<file, svc, wire, runs, cancels, waiting, reply, hostVars>>
  BY Idles DEF Full
<1>3. Doing(a)'
  BY <1>1, <1>2
     DEF Moves, Fine, Doing, Launching, Acting, Preparing, Retiring, Telling, Waits, At, Actions
<1> QED
  BY <1>1, <1>2, <1>3, Thinks DEF Does, Fine

\* reserveRetirement: the agent is held for the key, and stays owned.
LEMMA Reserves ==
  ASSUME CursorInv, NEW a \in Attempts, InStore, file[a].state = "owned",
         NEW ok, ReserveRetirement(a, op[a].key, ok)
  PROVE  \/ ~ok /\ file' = file
         \/ /\ Wrote(a) /\ file'[a].state = "owned" /\ file'[a].key # NoKey
            /\ \A pc : Moves(a, pc) => Agrees(a)'
<1> DEFINE next == [file[a] EXCEPT !.key = op[a].key, !.reserved = TRUE, !.del = "no"]
<1>1. Fine(a) /\ file[a] \in Records /\ op[a] \in Ops
  BY DEF CursorInv, Typed
<1>2. /\ next \in Records /\ next.state = "owned" /\ next.key = op[a].key /\ next.reserved
      /\ next.run = file[a].run /\ next.pending = file[a].pending /\ next.cancel = file[a].cancel
  BY <1>1 DEF Records, Ops
<1> HIDE DEF next
<1>3. /\ file' \in [Attempts -> Records] /\ \A b \in Attempts \ {a} : file'[b] = file[b]
      /\ \/ ~ok /\ file' = file
         \/ NotReservedByOther(a, op[a].key) /\ ValidRecord(next) /\ file'[a] = next
  BY <1>2, WriteDoes DEF ReserveRetirement, UpdateOwned, next, CursorInv
<1>4. CASE NotReservedByOther(a, op[a].key) /\ ValidRecord(next) /\ file'[a] = next
  <2>1. svc[a] = "live" /\ next.key # NoKey /\ file[a].key \in {NoKey, next.key}
    BY <1>1, <1>2, <1>4 DEF Fine, Filed, ValidRecord, NotReservedByOther
  <2>2. Wrote(a)
    BY <1>1, <1>2, <1>3, <1>4, <2>1, StoreLeaves
       DEF Wrote, Fine, Filed, OnWire, Prompted, Shows, Stays, Reserving, Known
  <2>3. ASSUME NEW pc, Moves(a, pc)
        PROVE  Agrees(a)'
    BY <1>1, <1>2, <1>4, <2>3, StoreLeaves DEF Moves, Agrees, Fine, Absent
  <2> QED
    BY <1>2, <1>4, <2>1, <2>2, <2>3
<1> QED
  BY <1>3, <1>4

\* prepareLaunchRetirement: reserves.
LEMMA PrepareReservesDoes ==
  ASSUME CursorInv, NEW a \in Attempts, PrepareReserves(a)
  PROVE  Does(a)
<1>1. /\ op[a].name = "prepare" /\ op[a].pc = "reserve" /\ Fine(a) /\ InStore
      /\ file[a].state = "owned"
  BY DEF PrepareReserves, CursorInv, At, Fine, Doing, Preparing
<1>2. CASE Full(a)
  BY <1>1, <1>2, FullDoes
<1>3. ASSUME NEW ok \in BOOLEAN, ReserveRetirement(a, op[a].key, ok),
             Fails(a) \/ (ok /\ Over(a, "prepared"))
      PROVE  Does(a)
  <2>1. \/ ~ok /\ file' = file
        \/ /\ Wrote(a) /\ file'[a].state = "owned" /\ file'[a].key # NoKey
           /\ \A pc : Moves(a, pc) => Agrees(a)'
    BY <1>1, <1>3, Reserves
  <2>2. CASE ~ok /\ file' = file
    BY <1>1, <1>3, <2>2, WritesNothing
  <2>3. CASE /\ Wrote(a) /\ file'[a].state = "owned" /\ file'[a].key # NoKey
             /\ \A pc : Moves(a, pc) => Agrees(a)'
    <3>1. CASE Fails(a)
      BY <1>1, <2>3, <3>1, WritesAndFails
    <3>2. CASE Over(a, "prepared")
      <4>1. Moves(a, "answer") /\ op'[a].answer = "prepared"
        BY <3>2, OverMoves DEF CursorInv, Results
      <4>2. Doing(a)'
        BY <1>1, <2>3, <4>1, StoreLeaves
           DEF Moves, Fine, Doing, Launching, Acting, Preparing, Retiring, Telling, Waits, At,
               Actions
      <4> QED
        BY <1>1, <2>3, <4>1, <4>2, WritesOn
    <3> QED
      BY <1>3, <3>1, <3>2
  <2> QED
    BY <2>1, <2>2, <2>3
<1> QED
  BY <1>1, <1>2, <1>3 DEF PrepareReserves

\* retireLaunch: reserves what is not reserved yet.
LEMMA RetireReservesDoes ==
  ASSUME CursorInv, NEW a \in Attempts, RetireReserves(a)
  PROVE  Does(a)
<1>1. /\ op[a].name = "retire" /\ op[a].pc = "reserve" /\ Fine(a) /\ InStore
      /\ file[a].state = "owned"
  BY DEF RetireReserves, CursorInv, At, Fine, Doing, Retiring
<1>2. CASE Full(a)
  BY <1>1, <1>2, FullDoes
<1>3. ASSUME NEW ok \in BOOLEAN, ReserveRetirement(a, op[a].key, ok),
             Fails(a) \/ (ok /\ RetireGoes(a, file'[a]))
      PROVE  Does(a)
  <2>1. \/ ~ok /\ file' = file
        \/ /\ Wrote(a) /\ file'[a].state = "owned"
           /\ \A pc : Moves(a, pc) => Agrees(a)'
    BY <1>1, <1>3, Reserves
  <2>2. CASE ~ok /\ file' = file
    BY <1>1, <1>3, <2>2, WritesNothing
  <2>3. CASE /\ Wrote(a) /\ file'[a].state = "owned"
             /\ \A pc : Moves(a, pc) => Agrees(a)'
    <3>1. CASE Fails(a)
      BY <1>1, <2>3, <3>1, WritesAndFails
    <3>2. CASE RetireGoes(a, file'[a])
      <4>1. PICK r : r = file'[a]
        OBVIOUS
      <4>2. (\E pc \in Pcs : Moves(a, pc)) /\ Doing(a)'
        BY <1>1, <2>3, <3>2, <4>1, RetireGoesOn, StoreLeaves DEF Wrote
      <4> QED
        BY <1>1, <2>3, <4>2, WritesOn
    <3> QED
      BY <1>3, <3>1, <3>2
  <2> QED
    BY <2>1, <2>2, <2>3
<1> QED
  BY <1>1, <1>2, <1>3 DEF RetireReserves

\* releaseRetirementReservation: the agent is held no longer, and stays owned.
LEMMA Releases ==
  ASSUME CursorInv, NEW a \in Attempts, NEW k, NEW ok, ReleaseRetirementReservation(a, k, ok),
         svc' = svc, wire' = wire, runs' = runs, cancels' = cancels
  PROVE  \/ ~ok /\ file' = file
         \/ /\ Wrote(a) /\ file[a].state = "owned"
            /\ file'[a].state = "owned" /\ file'[a].key = NoKey
            /\ op'[a].name = op[a].name /\ ledger'[a] = ledger[a] => Agrees(a)'
<1> DEFINE next == Unreserved(file[a])
<1>1. Fine(a) /\ file[a] \in Records
  BY DEF CursorInv, Typed
<1>2. /\ next \in Records /\ next.state = file[a].state /\ next.key = NoKey
      /\ next.run = file[a].run /\ next.pending = file[a].pending /\ next.cancel = file[a].cancel
  BY <1>1 DEF Records, Unreserved
<1> HIDE DEF next
<1>3. /\ file' \in [Attempts -> Records] /\ \A b \in Attempts \ {a} : file'[b] = file[b]
      /\ \/ ~ok /\ file' = file
         \/ /\ file[a].state = "owned" /\ file[a].reserved
            /\ ValidRecord(next) /\ file'[a] = next
  BY <1>2, WriteDoes DEF ReleaseRetirementReservation, UpdateOwned, next, CursorInv
<1>4. CASE file[a].state = "owned" /\ file[a].reserved /\ ValidRecord(next) /\ file'[a] = next
  <2>1. svc[a] = "live" /\ file[a].key # NoKey
    BY <1>1, <1>4 DEF Fine, Filed, ValidRecord
  <2>2. /\ Deleting(a)' <=> Deleting(a)
        /\ Started(a)' = Started(a) /\ LiveRuns(a)' = LiveRuns(a)
    BY DEF Deleting, Started, LiveRuns
  <2>3. Wrote(a)
    BY <1>1, <1>2, <1>3, <1>4, <2>1, <2>2
       DEF Wrote, Fine, Filed, OnWire, Prompted, Shows, Releasing, Known
  <2>4. op'[a].name = op[a].name /\ ledger'[a] = ledger[a] => Agrees(a)'
    BY <1>1, <1>2, <1>4 DEF Agrees, Fine, Absent
  <2> QED
    BY <1>2, <1>4, <2>1, <2>3, <2>4
<1> QED
  BY <1>3, <1>4

\* cancelLaunchRetirementPreparation: releases.
LEMMA UnpreparesDoes ==
  ASSUME CursorInv, NEW a \in Attempts, Unprepares(a)
  PROVE  Does(a)
<1>1. op[a].name = "unprepare" /\ op[a].pc = "release" /\ Fine(a) /\ InStore
  BY DEF Unprepares, CursorInv, At
<1>2. PICK ok \in BOOLEAN : /\ ReleaseRetirementReservation(a, op[a].key, ok)
                            /\ Fails(a) \/ (ok /\ Over(a, "released"))
  BY DEF Unprepares
<1>3. \/ ~ok /\ file' = file
      \/ /\ Wrote(a) /\ file'[a].state = "owned" /\ file'[a].key = NoKey
         /\ op'[a].name = op[a].name => Agrees(a)'
  BY <1>1, <1>2, Releases
     DEF InStore, NoBridge, NoHost, bridgeVars, service, network, hostVars
<1>4. CASE ~ok /\ file' = file
  BY <1>1, <1>2, <1>4, WritesNothing
<1>5. CASE /\ Wrote(a) /\ file'[a].state = "owned" /\ file'[a].key = NoKey
           /\ op'[a].name = op[a].name => Agrees(a)'
  <2>1. \A pc : Moves(a, pc) => Agrees(a)'
    BY <1>5 DEF Moves
  <2>2. CASE Fails(a)
    BY <1>1, <1>5, <2>1, <2>2, WritesAndFails
  <2>3. CASE Over(a, "released")
    <3>1. Moves(a, "answer") /\ op'[a].answer = "released"
      BY <2>3, OverMoves DEF CursorInv, Results
    <3>2. Doing(a)'
      BY <1>1, <1>5, <3>1, StoreLeaves
         DEF Moves, Fine, Doing, Launching, Acting, Preparing, Retiring, Telling, Waits, At, Actions
    <3> QED
      BY <1>1, <1>5, <2>1, <3>1, <3>2, WritesOn
  <2> QED
    BY <1>2, <2>2, <2>3
<1> QED
  BY <1>3, <1>4, <1>5

\* beginRetirement: the fence that survives a crash.
LEMMA RetireBeginsDoes ==
  ASSUME CursorInv, NEW a \in Attempts, RetireBegins(a)
  PROVE  Does(a)
<1> DEFINE next == [file[a] EXCEPT !.state = "retiring", !.key = op[a].key, !.reserved = FALSE]
<1>1. /\ op[a].name = "retire" /\ op[a].pc = "begin" /\ Fine(a) /\ InStore
      /\ op[a].was = file[a] /\ file[a].state = "owned" /\ ~Unsettled(file[a]) /\ LiveRuns(a) = {}
      /\ file[a] \in Records /\ op[a] \in Ops
  BY DEF RetireBegins, CursorInv, At, Fine, Doing, Retiring, Typed
<1>2. /\ next \in Records /\ next.state = "retiring" /\ next.key = op[a].key
      /\ next.run = file[a].run /\ next.pending = file[a].pending
      /\ next.cancel = file[a].cancel /\ next.del = file[a].del
  BY <1>1 DEF Records, Ops
<1> HIDE DEF next
<1>3. PICK ok \in BOOLEAN : /\ BeginRetirement(a, op[a].key, ok)
                            /\ IF ok THEN Goes(a, "mark") ELSE Fails(a)
  BY DEF RetireBegins
<1>4. /\ file' \in [Attempts -> Records] /\ \A b \in Attempts \ {a} : file'[b] = file[b]
      /\ (~ok /\ file' = file) \/ (NotReservedByOther(a, op[a].key) /\ ValidRecord(next) /\ file'[a] = next)
  BY <1>2, <1>3, WriteDoes DEF BeginRetirement, UpdateOwned, next, CursorInv
<1>5. CASE ~ok /\ file' = file
  BY <1>1, <1>3, <1>5, WritesNothing
<1>6. CASE NotReservedByOther(a, op[a].key) /\ ValidRecord(next) /\ file'[a] = next
  <2>1. /\ svc[a] = "live" /\ ~Deleting(a) /\ Ask("send") \notin wire[a]
        /\ next.key # NoKey /\ file[a].key \in {NoKey, next.key} /\ next.del # "yes"
    BY <1>1, <1>2, <1>6
       DEF Fine, Filed, OnWire, ValidRecord, NotReservedByOther, Unsettled
  <2>2. Wrote(a)
    BY <1>1, <1>2, <1>4, <1>6, <2>1, StoreLeaves
       DEF Wrote, Fine, Filed, OnWire, Prompted, Shows, Stays, Reserving, Known, Unsettled
  <2>3. ASSUME NEW pc, Moves(a, pc)
        PROVE  Agrees(a)'
    BY <1>1, <1>2, <1>6, <2>3, StoreLeaves DEF Moves, Agrees, Fine, Absent
  <2>4. CASE Fails(a)
    BY <1>1, <2>2, <2>3, <2>4, WritesAndFails
  <2>5. CASE Goes(a, "mark")
    <3>1. Moves(a, "mark") /\ op'[a].was = op[a].was /\ op'[a].run = op[a].run
      BY <2>5, GoesMoves DEF CursorInv, Pcs
    <3>2. Doing(a)'
      BY <1>1, <1>2, <1>6, <2>1, <3>1, StoreLeaves
         DEF Moves, Fine, Doing, Launching, Acting, Preparing, Retiring, Telling, Waits, At, Actions
    <3> QED
      BY <1>1, <2>2, <2>3, <3>1, <3>2, WritesOn
  <2> QED
    BY <1>3, <2>4, <2>5
<1> QED
  BY <1>4, <1>5, <1>6

\* markDeleteAttempted: the deletion is in doubt before it is asked for.
LEMMA RetireMarksDoes ==
  ASSUME CursorInv, NEW a \in Attempts, RetireMarks(a)
  PROVE  Does(a)
<1> DEFINE next == [file[a] EXCEPT !.del = "yes"]
<1>1. /\ op[a].name = "retire" /\ op[a].pc = "mark" /\ Fine(a) /\ InStore
      /\ file[a].state = "retiring" /\ file[a].del # "yes" /\ ~Replaying(op[a].was)
      /\ file[a] \in Records
  BY DEF RetireMarks, CursorInv, At, Fine, Doing, Retiring, Typed
<1>2. /\ next \in Records /\ next.state = file[a].state /\ next.key = file[a].key
      /\ next.run = file[a].run /\ next.pending = file[a].pending
      /\ next.cancel = file[a].cancel /\ next.del = "yes"
  BY <1>1 DEF Records
<1> HIDE DEF next
<1>3. CASE UNCHANGED file /\ Fails(a)
  BY <1>1, <1>3, WritesNothing
<1>4. ASSUME NEW ok \in BOOLEAN, MarkDeleteAttempted(a, op[a].key, ok),
              IF ok THEN Goes(a, "send") ELSE Fails(a)
      PROVE  Does(a)
  <2>4. /\ file' \in [Attempts -> Records] /\ \A b \in Attempts \ {a} : file'[b] = file[b]
        /\ (~ok /\ file' = file) \/ (ValidRecord(next) /\ file'[a] = next)
    BY <1>2, <1>4, WriteDoes DEF MarkDeleteAttempted, UpdateRetirement, next, CursorInv
  <2>5. CASE ~ok /\ file' = file
    BY <1>1, <1>4, <2>5, WritesNothing
  <2>6. CASE ValidRecord(next) /\ file'[a] = next
    <3>1. svc[a] = "live" /\ ~Deleting(a) /\ LiveRuns(a) = {} /\ ~Unsettled(file[a])
      BY <1>1 DEF Fine, Filed
    <3>2. Wrote(a)
      BY <1>1, <1>2, <2>4, <2>6, <3>1, StoreLeaves
         DEF Wrote, Fine, Filed, OnWire, Prompted, Shows, Stays, Known, Unsettled
    <3>3. ASSUME NEW pc, Moves(a, pc)
          PROVE  Agrees(a)'
      BY <1>1, <1>2, <2>6, <3>3, StoreLeaves DEF Moves, Agrees, Fine, Absent
    <3>4. CASE Fails(a)
      BY <1>1, <3>2, <3>3, <3>4, WritesAndFails
    <3>5. CASE Goes(a, "send")
      <4>1. Moves(a, "send") /\ op'[a].was = op[a].was /\ op'[a].run = op[a].run
        BY <3>5, GoesMoves DEF CursorInv, Pcs
      <4>2. Doing(a)'
        BY <1>1, <1>2, <2>6, <3>1, <4>1, StoreLeaves
           DEF Moves, Fine, Doing, Launching, Acting, Preparing, Retiring, Telling, Waits, At,
               Actions, Fenced
      <4> QED
        BY <1>1, <3>2, <3>3, <4>1, <4>2, WritesOn
    <3> QED
      BY <1>4, <3>4, <3>5
  <2> QED
    BY <2>4, <2>5, <2>6
<1> QED
  BY <1>1, <1>3, <1>4 DEF RetireMarks

\* markRetired: the agent is gone.
LEMMA RetireRecordsDoes ==
  ASSUME CursorInv, NEW a \in Attempts, RetireRecords(a)
  PROVE  Does(a)
<1> DEFINE next == [file[a] EXCEPT !.state = "retired", !.del = "unset"]
<1>1. /\ op[a].name = "retire" /\ op[a].pc = "retired" /\ Fine(a) /\ InStore
      /\ file[a].state = "retiring" /\ svc[a] = "deleted" /\ file[a] \in Records
  BY DEF RetireRecords, CursorInv, At, Fine, Doing, Retiring, Typed, Fenced
<1>2. /\ next \in Records /\ next.state = "retired" /\ next.key = file[a].key
      /\ next.run = file[a].run /\ next.pending = file[a].pending
      /\ next.cancel = file[a].cancel
  BY <1>1 DEF Records
<1> HIDE DEF next
<1>3. PICK ok \in BOOLEAN : /\ MarkRetired(a, op[a].key, ok)
                            /\ IF ok THEN Over(a, "retired") ELSE Fails(a)
  BY DEF RetireRecords
<1>4. /\ file' \in [Attempts -> Records] /\ \A b \in Attempts \ {a} : file'[b] = file[b]
      /\ (~ok /\ file' = file) \/ (ValidRecord(next) /\ file'[a] = next)
  BY <1>2, <1>3, WriteDoes DEF MarkRetired, UpdateRetirement, next, CursorInv
<1>5. CASE ~ok /\ file' = file
  BY <1>1, <1>3, <1>5, WritesNothing
<1>6. CASE ValidRecord(next) /\ file'[a] = next
  <2>1. Ask("send") \notin wire[a]
    BY <1>1 DEF Fine, OnWire
  <2>2. Wrote(a)
    BY <1>1, <1>2, <1>4, <1>6, <2>1, StoreLeaves
       DEF Wrote, Fine, Filed, OnWire, Prompted, Shows, Stays, Known
  <2>3. ASSUME NEW pc, Moves(a, pc)
        PROVE  Agrees(a)'
    BY <1>1, <1>2, <1>6, <2>3, StoreLeaves DEF Moves, Agrees, Fine, Absent
  <2>4. CASE Fails(a)
    BY <1>1, <2>2, <2>3, <2>4, WritesAndFails
  <2>5. CASE Over(a, "retired")
    <3>1. Moves(a, "answer") /\ op'[a].answer = "retired"
      BY <2>5, OverMoves DEF CursorInv, Results
    <3>2. Doing(a)'
      BY <1>1, <1>2, <1>6, <2>1, <3>1, StoreLeaves
         DEF Moves, Fine, Doing, Launching, Acting, Preparing, Retiring, Telling, Waits, At, Actions
    <3> QED
      BY <1>1, <2>2, <2>3, <3>1, <3>2, WritesOn
  <2> QED
    BY <1>3, <2>4, <2>5
<1> QED
  BY <1>4, <1>5, <1>6

\* cancelRetirement: the agent is given back to its owner.
LEMMA RetireBlockedDoes ==
  ASSUME CursorInv, NEW a \in Attempts, RetireBlocked(a)
  PROVE  Does(a)
<1> DEFINE next == [Unreserved(file[a]) EXCEPT !.state = "owned"]
<1>1. /\ op[a].name = "retire" /\ op[a].pc = "cancel" /\ Fine(a) /\ InStore
      /\ file[a].state \in {"owned", "retiring"} /\ svc[a] = "live" /\ ~Deleting(a)
      /\ file[a] \in Records
  BY DEF RetireBlocked, CursorInv, At, Fine, Doing, Retiring, Typed
<1>2. /\ next \in Records /\ next.state = "owned" /\ next.key = NoKey
      /\ next.run = file[a].run /\ next.pending = file[a].pending
      /\ next.cancel = file[a].cancel
  BY <1>1 DEF Records, Unreserved
<1> HIDE DEF next
<1>3. PICK ok \in BOOLEAN : /\ CancelRetirement(a, op[a].key, ok)
                            /\ IF ok THEN Over(a, "blocked") ELSE Fails(a)
  BY DEF RetireBlocked
<1>4. /\ file' \in [Attempts -> Records] /\ \A b \in Attempts \ {a} : file'[b] = file[b]
      /\ (~ok /\ file' = file) \/ (ValidRecord(next) /\ file'[a] = next)
  BY <1>2, <1>3, WriteDoes DEF CancelRetirement, next, CursorInv
<1>5. CASE ~ok /\ file' = file
  BY <1>1, <1>3, <1>5, WritesNothing
<1>6. CASE ValidRecord(next) /\ file'[a] = next
  <2>1. file[a].key = NoKey \/ file[a].key # NoKey
    OBVIOUS
  <2>2. Wrote(a)
    BY <1>1, <1>2, <1>4, <1>6, <2>1, StoreLeaves
       DEF Wrote, Fine, Filed, OnWire, Prompted, Shows, Stays, Releasing, Known
  <2>3. ASSUME NEW pc, Moves(a, pc)
        PROVE  Agrees(a)'
    BY <1>1, <1>2, <1>6, <2>3, StoreLeaves DEF Moves, Agrees, Fine, Absent
  <2>4. CASE Fails(a)
    BY <1>1, <2>2, <2>3, <2>4, WritesAndFails
  <2>5. CASE Over(a, "blocked")
    <3>1. Moves(a, "answer") /\ op'[a].answer = "blocked"
      BY <2>5, OverMoves DEF CursorInv, Results
    <3>2. Doing(a)'
      BY <1>1, <1>2, <1>6, <2>1, <3>1, StoreLeaves
         DEF Moves, Fine, Doing, Launching, Acting, Preparing, Retiring, Telling, Waits, At, Actions
    <3> QED
      BY <1>1, <2>2, <2>3, <3>1, <3>2, WritesOn
  <2> QED
    BY <1>3, <2>4, <2>5
<1> QED
  BY <1>4, <1>5, <1>6

-----------------------------------------------------------------------------
(* An operation that asks the bridge, and one that has its answer.          *)

\* A request is put on the wire, and waited for.
LEMMA SendStep ==
  ASSUME CursorInv, NEW a \in Attempts, NEW q, Sends(a, q), InBridge, Moves(a, "sent"),
         file[a].state # "absent",
         cancels' \in [Attempts -> [Runs -> Nat]],
         \A b \in Attempts \ {a} : cancels'[b] = cancels[b]
  PROVE  /\ Typed' /\ Others(a) /\ life' = life /\ Agrees(a)' /\ Shows(a)
         /\ wire'[a] = wire[a] \cup {q} /\ waiting'[a] = q /\ reply'[a] = reply[a]
         /\ file'[a] = file[a] /\ svc'[a] = svc[a] /\ runs'[a] = runs[a]
         /\ Started(a)' = Started(a) /\ LiveRuns(a)' = LiveRuns(a) /\ (Known(a)' <=> Known(a))
<1>1. /\ wire' = [wire EXCEPT ![a] = @ \cup {q}] /\ waiting' = [waiting EXCEPT ![a] = q]
      /\ svc' = svc /\ runs' = runs /\ reply' = reply /\ file' = file
      /\ ledger' = ledger /\ hkey' = hkey /\ life' = life
  BY DEF Sends, InBridge, NoHost, hostVars, service
<1>2. Typed' /\ Others(a)
  BY <1>1 DEF CursorInv, Typed, Others, Same, Moves
<1>3. wire'[a] = wire[a] \cup {q} /\ waiting'[a] = q
  BY <1>1 DEF CursorInv, Typed
<1>4. Agrees(a)'
  BY <1>1, <1>3 DEF CursorInv, Fine, Agrees, Moves, Absent
<1>5. Started(a)' = Started(a) /\ LiveRuns(a)' = LiveRuns(a) /\ (Known(a)' <=> Known(a))
  BY <1>1 DEF Started, LiveRuns, Known
<1>6. Shows(a)
  BY <1>1 DEF Shows, Stays
<1> QED
  BY <1>1, <1>2, <1>3, <1>4, <1>5, <1>6

\* An answer is taken, or not waited for any more.
LEMMA AnswerStep ==
  ASSUME CursorInv, NEW a \in Attempts, Settled(a), UNCHANGED cancels, InBridge,
         NEW pc, Moves(a, pc)
  PROVE  /\ Typed' /\ Others(a) /\ life' = life /\ Shows(a)
         /\ Filed(a)' /\ OnWire(a)' /\ Prompted(a)' /\ Agrees(a)'
         /\ wire'[a] = wire[a] /\ waiting'[a] = NoRequest /\ reply'[a] = "none"
         /\ file'[a] = file[a] /\ svc'[a] = svc[a] /\ runs'[a] = runs[a]
         /\ cancels'[a] = cancels[a] /\ (Deleting(a)' <=> Deleting(a))
         /\ Started(a)' = Started(a) /\ LiveRuns(a)' = LiveRuns(a) /\ (Known(a)' <=> Known(a))
<1>1. /\ waiting' = [waiting EXCEPT ![a] = NoRequest] /\ reply' = [reply EXCEPT ![a] = "none"]
      /\ svc' = svc /\ runs' = runs /\ wire' = wire /\ file' = file /\ cancels' = cancels
      /\ ledger' = ledger /\ hkey' = hkey /\ life' = life
  BY DEF Settled, InBridge, NoHost, hostVars, service
<1>2. Typed' /\ Others(a)
  BY <1>1 DEF CursorInv, Typed, Others, Same, Moves
<1>3. waiting'[a] = NoRequest /\ reply'[a] = "none"
  BY <1>1 DEF CursorInv, Typed
<1>4. Agrees(a)'
  BY <1>1 DEF CursorInv, Fine, Agrees, Moves
<1> QED
  BY <1>1, <1>2, <1>3, <1>4, WorldStays DEF CursorInv, Fine, Shows

\* The operation fails with what it has, or has not, been answered.
LEMMA AnswerFails ==
  ASSUME CursorInv, NEW a \in Attempts, op[a].name # "none",
         Settled(a), UNCHANGED cancels, InBridge, Fails(a)
  PROVE  Does(a)
<1>1. Moves(a, "answer") /\ op'[a].answer = "vague"
  BY FailsMoves DEF CursorInv
<1>2. Doing(a)'
  BY <1>1, AnswerStep, NothingTold DEF CursorInv, Fine, Doing
<1> QED
  BY <1>1, <1>2, AnswerStep DEF Does, Fine

\* launch() asks the bridge to create the agent.
LEMMA LaunchCallsDoes ==
  ASSUME CursorInv, NEW a \in Attempts, LaunchCalls(a)
  PROVE  Does(a)
<1>1. /\ op[a].name = "launch" /\ op[a].pc = "call" /\ Fine(a)
      /\ file[a].state = "intent" /\ svc[a] = "none"
  BY DEF LaunchCalls, CursorInv, At, Fine, Doing, Launching
<1>2. CASE Fails(a) /\ OnlyOp
  BY <1>1, <1>2, Idles, GivesUpEarly
<1>3. CASE JustSends(a, Ask("create")) /\ InBridge /\ Goes(a, "sent")
  <2>1. Moves(a, "sent")
    BY <1>3, GoesMoves DEF CursorInv, Pcs
  <2>2. Sends(a, Ask("create")) /\ cancels' = cancels
    BY <1>3 DEF JustSends
  <2>3. /\ Typed' /\ Others(a) /\ life' = life /\ Agrees(a)' /\ Shows(a)
        /\ wire'[a] = wire[a] \cup {Ask("create")} /\ waiting'[a] = Ask("create")
        /\ reply'[a] = reply[a]
        /\ file'[a] = file[a] /\ svc'[a] = svc[a] /\ runs'[a] = runs[a]
        /\ LiveRuns(a)' = LiveRuns(a) /\ Started(a)' = Started(a) /\ (Known(a)' <=> Known(a))
    BY <1>1, <1>3, <2>1, <2>2, SendStep DEF CursorInv, Typed
  <2>4. /\ Ask("create") \in Request /\ Ask("create").kind \notin Deletes \cup {"cancel"}
        /\ Ask("create") # Ask("send") /\ \A r : CancelOf(r) # Ask("create")
    BY DEF Ask, Request, CancelOf, Deletes
  <2>5. Deleting(a)' <=> Deleting(a)
    BY <2>3, <2>4 DEF Deleting
  <2>6. Filed(a)' /\ OnWire(a)' /\ Prompted(a)'
    BY <1>1, <2>2, <2>3, <2>4, <2>5 DEF Fine, Filed, OnWire, Prompted, Fenced
  <2>7. reply[a] = "none"
    BY <1>1 DEF Fine, Doing, Waits
  <2>8. Doing(a)'
    BY <1>1, <2>1, <2>3, <2>7
       DEF Moves, Doing, Launching, Acting, Preparing, Retiring, Telling, Waits, At, Actions
  <2> QED
    BY <2>3, <2>6, <2>8 DEF Does, Fine
<1> QED
  BY <1>2, <1>3 DEF LaunchCalls

\* The bridge has created it, refused to, or does not say.
LEMMA LaunchAnsweredDoes ==
  ASSUME CursorInv, NEW a \in Attempts, LaunchAnswered(a)
  PROVE  Does(a)
<1>1. /\ op[a].name = "launch" /\ op[a].pc = "sent" /\ Fine(a)
      /\ file[a].state = "intent" /\ InBridge
  BY DEF LaunchAnswered, CursorInv, At, Fine, Doing, Launching
<1>2. Settled(a) /\ UNCHANGED cancels
  BY DEF LaunchAnswered, JustReplied, JustGivesUp, Replied, GivesUp
<1>3. CASE Fails(a)
  BY <1>1, <1>2, <1>3, AnswerFails
<1>4. CASE reply[a] = "ok" /\ Goes(a, "own")
  <2>1. Moves(a, "own")
    BY <1>4, GoesMoves DEF CursorInv, Pcs
  <2>2. svc[a] = "live"
    BY <1>1, <1>4 DEF Fine, Doing, Launching, At
  <2>3. Doing(a)'
    BY <1>1, <1>2, <2>1, <2>2, AnswerStep
       DEF Moves, Doing, Launching, Acting, Preparing, Retiring, Telling, Waits, At, Actions
  <2> QED
    BY <1>1, <1>2, <2>1, <2>3, AnswerStep DEF Does, Fine
<1> QED
  BY <1>3, <1>4 DEF LaunchAnswered, JustReplied, Replied

\* A prompt that has not been sent may be taken back.
LEMMA PromptTurnsBack ==
  ASSUME CursorInv, NEW a \in Attempts, op[a].name = "prompt", op[a].pc = "call",
         Goes(a, "restore"), OnlyOp
  PROVE  Does(a)
<1>1. Moves(a, "restore")
  BY GoesMoves DEF CursorInv, Pcs
<1>2. UNCHANGED <<file, svc, wire, runs, cancels, waiting, reply, hostVars>>
  BY Idles
<1>3. Known(a)' <=> Known(a)
  BY <1>2, WorldStays
<1>4. Doing(a)'
  BY <1>1, <1>2, <1>3
     DEF Moves, CursorInv, Fine, Doing, Launching, Acting, Preparing, Retiring, Telling, Waits,
         At, Actions
<1> QED
  BY <1>1, <1>2, <1>4, Thinks DEF Does, Fine

\* prompt() sends.
LEMMA PromptCallsDoes ==
  ASSUME CursorInv, NEW a \in Attempts, PromptCalls(a)
  PROVE  Does(a)
<1>1. /\ op[a].name = "prompt" /\ op[a].pc = "call" /\ Fine(a)
      /\ file[a].state = "owned" /\ file[a].pending /\ LiveRuns(a) = {}
      /\ Ask("send") \notin wire[a] /\ Known(a)
  BY DEF PromptCalls, CursorInv, At, Fine, Doing, Acting
<1>2. CASE Fails(a) /\ OnlyOp
  BY <1>1, <1>2, Idles, GivesUpEarly
<1>3. CASE Goes(a, "restore") /\ OnlyOp
  BY <1>1, <1>3, PromptTurnsBack
<1>4. CASE SendLocal(a) /\ InBridge /\ Goes(a, "sent")
  <2>1. Moves(a, "sent")
    BY <1>4, GoesMoves DEF CursorInv, Pcs
  <2>2. Sends(a, Ask("send")) /\ cancels' = cancels
    BY <1>4 DEF SendLocal
  <2>3. /\ Typed' /\ Others(a) /\ life' = life /\ Agrees(a)' /\ Shows(a)
        /\ wire'[a] = wire[a] \cup {Ask("send")} /\ waiting'[a] = Ask("send")
        /\ reply'[a] = reply[a]
        /\ file'[a] = file[a] /\ svc'[a] = svc[a] /\ runs'[a] = runs[a]
        /\ LiveRuns(a)' = LiveRuns(a) /\ Started(a)' = Started(a) /\ (Known(a)' <=> Known(a))
    BY <1>1, <1>4, <2>1, <2>2, SendStep DEF CursorInv, Typed
  <2>4. /\ Ask("send") \in Request /\ Ask("send").kind \notin Deletes \cup {"cancel"}
        /\ Ask("create") # Ask("send") /\ \A r : CancelOf(r) # Ask("send")
    BY DEF Ask, Request, CancelOf, Deletes
  <2>5. Deleting(a)' <=> Deleting(a)
    BY <2>3, <2>4 DEF Deleting
  <2>6. Filed(a)' /\ OnWire(a)' /\ Prompted(a)'
    BY <1>1, <2>2, <2>3, <2>4, <2>5 DEF Fine, Filed, OnWire, Prompted, Fenced
  <2>7. reply[a] = "none"
    BY <1>1 DEF Fine, Doing, Waits
  <2>8. Doing(a)'
    BY <1>1, <2>1, <2>3, <2>7
       DEF Moves, Doing, Launching, Acting, Preparing, Retiring, Telling, Waits, At, Actions
  <2> QED
    BY <2>3, <2>6, <2>8 DEF Does, Fine
<1> QED
  BY <1>2, <1>3, <1>4 DEF PromptCalls

\* The next run has the number after those that have started.
LEMMA RunsCounted ==
  ASSUME NEW a, NEW n \in Nat, Started(a) = 1..n
  PROVE  NextRun(a) = n + 1 /\ (n > 0 => n \in Runs)
<1>1. Cardinality(1..n) = n
  BY FS_Interval
<1>2. n > 0 => n \in Started(a)
  OBVIOUS
<1>3. Started(a) \subseteq Runs
  BY DEF Started
<1> QED
  BY <1>1, <1>2, <1>3 DEF NextRun

\* The bridge names the run it has started, refuses the prompt, or does not say.
LEMMA PromptAnsweredDoes ==
  ASSUME CursorInv, NEW a \in Attempts, PromptAnswered(a)
  PROVE  Does(a)
<1>1. /\ op[a].name = "prompt" /\ op[a].pc = "sent" /\ Fine(a) /\ op[a] \in Ops
      /\ file[a].state = "owned" /\ file[a].pending /\ InBridge /\ file[a] \in Records
  BY DEF PromptAnswered, CursorInv, At, Fine, Doing, Acting, Typed
<1>2. Settled(a) /\ UNCHANGED cancels
  BY DEF PromptAnswered, SendAccepted, SendRejected, SendUncertain, Replied, GivesUp
<1>3. CASE Fails(a)
  BY <1>1, <1>2, <1>3, AnswerFails
<1>4. CASE SendAccepted(a) /\ op' = [op EXCEPT ![a].pc = "commit", ![a].run = NextRun(a) - 1]
  <2>1. /\ Ask("send") \notin wire[a] /\ Started(a) = 1..(file[a].run + 1)
        /\ file[a].run \in Nat
    BY <1>1, <1>4, RunsAssumption
       DEF Fine, Doing, Acting, At, SendAccepted, Replied, Records, Runs, NoRun
  <2>2. PICK n \in Runs : n = file[a].run + 1 /\ NextRun(a) - 1 = n
    <3>1. NextRun(a) = file[a].run + 1 + 1 /\ file[a].run + 1 \in Runs
      BY <2>1, RunsCounted
    <3> QED
      BY <2>1, <3>1
  <2>3. op'[a] = [op[a] EXCEPT !.pc = "commit", !.run = n]
    BY <1>4, <2>2 DEF CursorInv, Typed
  <2>4. [op[a] EXCEPT !.pc = "commit", !.run = n] \in Ops
    BY <1>1 DEF Ops, Pcs
  <2>5. op' \in [Attempts -> Ops] /\ \A b \in Attempts \ {a} : op'[b] = op[b]
    BY <1>4, <2>2, <2>4 DEF CursorInv, Typed
  <2>6. Moves(a, "commit") /\ op'[a].run = n
    BY <1>1, <2>3, <2>5 DEF Moves, Ops
  <2>7. Doing(a)'
    BY <1>1, <1>2, <2>1, <2>2, <2>6, AnswerStep
       DEF Moves, Doing, Launching, Acting, Preparing, Retiring, Telling, Waits, At, Actions
  <2> QED
    BY <1>1, <1>2, <2>6, <2>7, AnswerStep DEF Does, Fine
<1>5. CASE SendRejected(a) /\ Goes(a, "restore")
  <2>1. Ask("send") \notin wire[a] /\ Known(a)
    BY <1>1, <1>5 DEF Fine, Doing, Acting, At, SendRejected, Replied
  <2>2. Moves(a, "restore")
    BY <1>5, GoesMoves DEF CursorInv, Pcs
  <2>3. Doing(a)'
    BY <1>1, <1>2, <2>1, <2>2, AnswerStep
       DEF Moves, Doing, Launching, Acting, Preparing, Retiring, Telling, Waits, At, Actions
  <2> QED
    BY <1>1, <1>2, <2>2, <2>3, AnswerStep DEF Does, Fine
<1> QED
  BY <1>3, <1>4, <1>5 DEF PromptAnswered

\* interrupt() asks the run to end: it has not been asked.
LEMMA InterruptCallsDoes ==
  ASSUME CursorInv, NEW a \in Attempts, InterruptCalls(a)
  PROVE  Does(a)
<1>1. /\ op[a].name = "interrupt" /\ op[a].pc = "call" /\ Fine(a)
      /\ file[a].state = "owned" /\ file[a].run \in Runs /\ op[a].was.run = file[a].run
      /\ file[a].cancel = file[a].run /\ cancels[a][file[a].run] = 0
  BY DEF InterruptCalls, CursorInv, At, Fine, Doing, Acting, Typed, Records
<1>2. CASE Fails(a) /\ OnlyOp
  BY <1>1, <1>2, Idles, GivesUpEarly
<1>3. CASE Goes(a, "restore") /\ OnlyOp
  <2>1. Moves(a, "restore") /\ op'[a].was = op[a].was
    BY <1>3, GoesMoves DEF CursorInv, Pcs
  <2>2. UNCHANGED <<file, svc, wire, runs, cancels, waiting, reply, hostVars>>
    BY <1>3, Idles
  <2>3. Doing(a)'
    BY <1>1, <2>1, <2>2
       DEF Moves, CursorInv, Fine, Doing, Launching, Acting, Preparing, Retiring, Telling, Waits,
           At, Actions
  <2> QED
    BY <2>1, <2>2, <2>3, Thinks DEF Does, Fine
<1>4. CASE CancelLocal(a, file[a].run) /\ InBridge /\ Goes(a, "sent")
  <2>1. PICK r \in Runs : r = file[a].run
    BY <1>1
  <2>2. Moves(a, "sent") /\ op'[a].was = op[a].was
    BY <1>4, GoesMoves DEF CursorInv, Pcs
  <2>3. Sends(a, CancelOf(r)) /\ cancels' = [cancels EXCEPT ![a][r] = @ + 1]
    BY <1>4, <2>1 DEF CancelLocal
  <2>4. cancels \in [Attempts -> [Runs -> Nat]]
    BY DEF CursorInv, Typed
  <2>5. /\ cancels' \in [Attempts -> [Runs -> Nat]]
        /\ \A b \in Attempts \ {a} : cancels'[b] = cancels[b]
        /\ cancels'[a][r] = 1 /\ \A p \in Runs \ {r} : cancels'[a][p] = cancels[a][p]
    BY <1>1, <2>1, <2>3, <2>4
  <2>6. /\ Typed' /\ Others(a) /\ life' = life /\ Agrees(a)' /\ Shows(a)
        /\ wire'[a] = wire[a] \cup {CancelOf(r)} /\ waiting'[a] = CancelOf(r)
        /\ reply'[a] = reply[a]
        /\ file'[a] = file[a] /\ svc'[a] = svc[a] /\ runs'[a] = runs[a]
        /\ LiveRuns(a)' = LiveRuns(a) /\ Started(a)' = Started(a) /\ (Known(a)' <=> Known(a))
    BY <1>1, <1>4, <2>2, <2>3, <2>5, SendStep
  <2>7. /\ CancelOf(r) \in Request /\ CancelOf(r).kind = "cancel" /\ CancelOf(r).run = r
        /\ CancelOf(r).kind \notin Deletes
        /\ Ask("create") # CancelOf(r) /\ Ask("send") # CancelOf(r)
        /\ \A p : CancelOf(p) = CancelOf(r) => p = r
    BY DEF Ask, Request, CancelOf, Deletes
  <2>8. Deleting(a)' <=> Deleting(a)
    BY <2>6, <2>7 DEF Deleting
  <2>9. Filed(a)' /\ OnWire(a)'
    BY <1>1, <2>6, <2>7, <2>8 DEF Fine, Filed, OnWire, Fenced
  <2>10. Prompted(a)'
    <3>1. r \in Nat
      BY DEF Runs
    <3>2. ASSUME NEW p \in Runs, p # r
          PROVE  CancelOf(p) \in wire'[a] => CancelOf(p) \in wire[a]
      BY <2>6, <2>7, <3>2
    <3>3. /\ \A p, s \in LiveRuns(a)' : p = s
          /\ svc'[a] # "deleted" =>
               Known(a)' \/ (file'[a].pending /\ Started(a)' = 1..(file'[a].run + 1))
      BY <1>1, <2>6 DEF Fine, Prompted
    <3>4. ASSUME NEW p \in Runs
          PROVE  /\ cancels'[a][p] \in {0, 1}
                 /\ CancelOf(p) \in wire'[a] => cancels'[a][p] = 1
                 /\ cancels'[a][p] = 1 /\ svc'[a] # "deleted" =>
                      p <= file'[a].run /\ (p = file'[a].run => file'[a].cancel = p)
      <4>1. CASE p = r
        BY <1>1, <2>1, <2>5, <2>6, <3>1, <4>1
      <4>2. CASE p # r
        BY <1>1, <2>5, <2>6, <3>2, <4>2 DEF Fine, Prompted
      <4> QED
        BY <4>1, <4>2
    <3> QED
      BY <3>3, <3>4 DEF Prompted
  <2>11. reply[a] = "none"
    BY <1>1 DEF Fine, Doing, Waits
  <2>12. Doing(a)'
    BY <1>1, <2>1, <2>2, <2>6, <2>11
       DEF Moves, Doing, Launching, Acting, Preparing, Retiring, Telling, Waits, At, Actions,
           Runs, NoRun
  <2> QED
    BY <2>6, <2>9, <2>10, <2>12 DEF Does, Fine
<1> QED
  BY <1>1, <1>2, <1>3, <1>4 DEF InterruptCalls

\* The bridge has ended the run, refuses to, or does not say.
LEMMA InterruptAnsweredDoes ==
  ASSUME CursorInv, NEW a \in Attempts, InterruptAnswered(a)
  PROVE  Does(a)
<1>1. /\ op[a].name = "interrupt" /\ op[a].pc = "sent" /\ Fine(a)
      /\ file[a].state = "owned" /\ InBridge
  BY DEF InterruptAnswered, CursorInv, At, Fine, Doing, Acting
<1>2. Settled(a) /\ UNCHANGED cancels
  BY DEF InterruptAnswered, JustReplied, CancelRejected, JustGivesUp, Replied, GivesUp
<1>3. CASE Fails(a)
  BY <1>1, <1>2, <1>3, AnswerFails
<1>4. CASE Over(a, "done")
  <2>1. Moves(a, "answer") /\ op'[a].answer = "done"
    BY <1>4, OverMoves DEF CursorInv, Results
  <2>2. Doing(a)'
    BY <1>1, <1>2, <2>1, AnswerStep, NothingTold DEF CursorInv, Fine, Doing
  <2> QED
    BY <1>1, <1>2, <2>1, <2>2, AnswerStep DEF Does, Fine
<1>5. CASE reply[a] = "rejected" /\ Goes(a, "restore")
  <2>1. Moves(a, "restore") /\ op'[a].was = op[a].was
    BY <1>5, GoesMoves DEF CursorInv, Pcs
  <2>2. Doing(a)'
    BY <1>1, <1>2, <1>5, <2>1, AnswerStep
       DEF Moves, Fine, Doing, Launching, Acting, Preparing, Retiring, Telling, Waits, At, Actions
  <2> QED
    BY <1>1, <1>2, <2>1, <2>2, AnswerStep DEF Does, Fine
<1> QED
  BY <1>3, <1>4, <1>5 DEF InterruptAnswered, CancelRejected, Replied

\* retireLaunch() asks the bridge to delete the agent, for the first time or again.
LEMMA RetireSendsDoes ==
  ASSUME CursorInv, NEW a \in Attempts, RetireSends(a)
  PROVE  Does(a)
<1>1. /\ op[a].name = "retire" /\ op[a].pc = "send" /\ Fine(a) /\ Fenced(a)
      /\ file[a].state = "retiring"
  BY DEF RetireSends, CursorInv, At, Fine, Doing, Retiring, Fenced
<1>2. CASE Fails(a) /\ OnlyOp
  BY <1>1, <1>2, Idles, GivesUpEarly
<1>3. ASSUME NEW kind, kind = (IF Replaying(op[a].was) THEN "delete again" ELSE "delete"),
             JustSends(a, Ask(kind)), InBridge, Goes(a, "sent")
      PROVE  Does(a)
  <2>1. Moves(a, "sent") /\ op'[a].was = op[a].was
    BY <1>3, GoesMoves DEF CursorInv, Pcs
  <2>2. Sends(a, Ask(kind)) /\ cancels' = cancels
    BY <1>3 DEF JustSends
  <2>3. /\ Typed' /\ Others(a) /\ life' = life /\ Agrees(a)' /\ Shows(a)
        /\ wire'[a] = wire[a] \cup {Ask(kind)} /\ waiting'[a] = Ask(kind)
        /\ reply'[a] = reply[a]
        /\ file'[a] = file[a] /\ svc'[a] = svc[a] /\ runs'[a] = runs[a]
        /\ LiveRuns(a)' = LiveRuns(a) /\ Started(a)' = Started(a) /\ (Known(a)' <=> Known(a))
    BY <1>1, <1>3, <2>1, <2>2, SendStep DEF CursorInv, Typed
  <2>4. /\ Ask(kind) \in Request /\ Ask(kind).kind = kind /\ kind \in Deletes
        /\ kind # "cancel" /\ Ask("create") # Ask(kind) /\ Ask("send") # Ask(kind)
        /\ \A r : CancelOf(r) # Ask(kind)
    BY <1>3 DEF Ask, Request, CancelOf, Deletes
  <2>5. Filed(a)' /\ OnWire(a)' /\ Prompted(a)'
    BY <1>1, <2>2, <2>3, <2>4 DEF Fine, Filed, OnWire, Prompted, Fenced
  <2>6. reply[a] = "none"
    BY <1>1 DEF Fine, Doing, Waits
  <2>7. ~Replaying(op[a].was) => svc[a] = "live" /\ ~Deleting(a)
    BY <1>1 DEF Fine, Doing, Retiring, At
  <2>8. Retiring(a)'
    BY <1>1, <1>3, <2>1, <2>3, <2>4, <2>6, <2>7
       DEF Moves, Retiring, At, Fenced, Deleting, Replaying
  <2>9. Doing(a)'
    BY <1>1, <2>1, <2>3, <2>6, <2>8
       DEF Moves, Doing, Launching, Acting, Preparing, Telling, Waits, At, Actions
  <2> QED
    BY <2>3, <2>5, <2>9 DEF Does, Fine
<1> QED
  BY <1>2, <1>3 DEF RetireSends

\* The bridge has deleted it, refuses to, or does not say.
LEMMA RetireAnsweredDoes ==
  ASSUME CursorInv, NEW a \in Attempts, RetireAnswered(a)
  PROVE  Does(a)
<1>1. /\ op[a].name = "retire" /\ op[a].pc = "sent" /\ Fine(a) /\ Fenced(a)
      /\ file[a].state = "retiring" /\ InBridge
  BY DEF RetireAnswered, CursorInv, At, Fine, Doing, Retiring, Fenced
<1>2. Settled(a) /\ UNCHANGED cancels
  BY DEF RetireAnswered, JustReplied, JustGivesUp, Replied, GivesUp, DeleteConfirmed
<1>3. CASE Fails(a)
  BY <1>1, <1>2, <1>3, AnswerFails
<1>4. CASE reply[a] \in {"ok", "missing"} /\ Goes(a, "retired")
  <2>1. Moves(a, "retired")
    BY <1>4, GoesMoves DEF CursorInv, Pcs
  <2>2. svc[a] = "deleted"
    BY <1>1, <1>4 DEF Fine, Doing, Retiring, At
  <2>3. Doing(a)'
    BY <1>1, <1>2, <2>1, <2>2, AnswerStep
       DEF Moves, Doing, Launching, Acting, Preparing, Retiring, Telling, Waits, At, Actions, Fenced
  <2> QED
    BY <1>1, <1>2, <2>1, <2>3, AnswerStep DEF Does, Fine
<1>5. CASE ~Replaying(op[a].was) /\ reply[a] \in {"missing", "rejected"} /\ Goes(a, "cancel")
  <2>1. Moves(a, "cancel")
    BY <1>5, GoesMoves DEF CursorInv, Pcs
  <2>2. svc[a] = "live" /\ ~Deleting(a)
    BY <1>1, <1>5 DEF Fine, Doing, Retiring, At, Deleting
  <2>3. Doing(a)'
    BY <1>1, <1>2, <2>1, <2>2, AnswerStep
       DEF Moves, Doing, Launching, Acting, Preparing, Retiring, Telling, Waits, At, Actions
  <2> QED
    BY <1>1, <1>2, <2>1, <2>3, AnswerStep DEF Does, Fine
<1> QED
  BY <1>3, <1>4, <1>5 DEF RetireAnswered, JustReplied, Replied
-----------------------------------------------------------------------------
(* The coordinator and the registry.                                        *)

\* A step that changes the operation and the ledger's entry, and nothing of
\* the agent or its record.
LEMMA HostTurns ==
  ASSUME CursorInv, NEW a \in Attempts,
         UNCHANGED <<file, svc, wire, runs, cancels, waiting, reply, life>>,
         op' \in [Attempts -> Ops], \A b \in Attempts \ {a} : op'[b] = op[b],
         ledger' = [c \in Attempts |-> ledger'[c]],
         \A b \in Attempts \ {a} : ledger'[b] = ledger[b],
         hkey' \in [Attempts -> Keys \cup {NoKey}],
         Doing(a)', Agrees(a)'
  PROVE  Does(a)
<1>1. Typed' /\ Others(a)
  BY DEF CursorInv, Typed, Others, Same
<1>2. Filed(a)' /\ OnWire(a)' /\ Prompted(a)' /\ Shows(a)
  BY WorldStays DEF CursorInv, Fine, Shows
<1> QED
  BY <1>1, <1>2 DEF Does, Fine

\* The idle operation is one.
LEMMA NoOpIsOne == NoOp \in Ops
  BY AbsentRecord DEF NoOp, Ops, Names, Pcs, Results

\* New.
LEMMA NewOperation ==
  ASSUME NEW name \in Names, NEW pc \in Pcs, NEW key \in Keys \cup {NoKey}
  PROVE  /\ New(name, pc, key) \in Ops
         /\ New(name, pc, key).name = name /\ New(name, pc, key).pc = pc
         /\ New(name, pc, key).key = key /\ New(name, pc, key).answer = "silent"
<1>1. NoOp \in Ops /\ NoOp.answer = "silent"
  BY NoOpIsOne DEF NoOp
<1>2. New(name, pc, key) = [NoOp EXCEPT !.name = name, !.pc = pc, !.key = key]
  BY DEF New
<1> QED
  BY <1>1, <1>2 DEF Ops

\* What a call finds, and leaves alone: the launch is idle.
LEMMA CallsLeave ==
  ASSUME CursorInv, NEW a \in Attempts, NEW name \in Names, NEW pc \in Pcs,
         NEW key \in Keys \cup {NoKey}, Calls(a, name, pc, key)
  PROVE  /\ UNCHANGED <<file, svc, wire, runs, cancels, waiting, reply, life>>
         /\ op' \in [Attempts -> Ops] /\ \A b \in Attempts \ {a} : op'[b] = op[b]
         /\ op'[a].name = name /\ op'[a].pc = pc /\ op'[a].key = key
         /\ hkey' \in [Attempts -> Keys \cup {NoKey}]
         /\ op[a] = NoOp /\ waiting[a] = NoRequest /\ reply[a] = "none" /\ life = "up"
<1>1. op[a] = NoOp /\ life = "up" /\ op' = [op EXCEPT ![a] = New(name, pc, key)]
  BY DEF Calls, Free
<1>2. UNCHANGED <<file, svc, wire, runs, cancels, waiting, reply, life, hkey>>
  BY DEF Calls, NoBridge, bridgeVars, service, network
<1>3. waiting[a] = NoRequest /\ reply[a] = "none"
  BY <1>1 DEF CursorInv, Fine, Doing, Waits, NoOp
<1> QED
  BY <1>1, <1>2, <1>3, NewOperation DEF CursorInv, Typed

\* launch() is called, on an entry of the ledger that is now being created.
LEMMA HostLaunchesDoes ==
  ASSUME CursorInv, NEW a \in Attempts, HostLaunches(a)
  PROVE  Does(a)
<1>1. Calls(a, "launch", "reserve", NoKey) /\ ledger[a] = "none" /\ Fine(a)
      /\ ledger' = [ledger EXCEPT ![a] = "creating"]
  BY DEF HostLaunches, CursorInv
<1>2. /\ ledger' = [c \in Attempts |-> ledger'[c]]
      /\ \A b \in Attempts \ {a} : ledger'[b] = ledger[b]
      /\ ledger'[a] = "creating"
  BY <1>1 DEF CursorInv, Typed
<1>3. file[a].state = "absent" /\ svc[a] = "none" /\ wire[a] = {}
  BY <1>1 DEF Fine, Agrees, Absent
<1>4. /\ UNCHANGED <<file, svc, wire, runs, cancels, waiting, reply, life>>
      /\ op' \in [Attempts -> Ops] /\ \A b \in Attempts \ {a} : op'[b] = op[b]
      /\ op'[a].name = "launch" /\ op'[a].pc = "reserve"
      /\ hkey' \in [Attempts -> Keys \cup {NoKey}]
      /\ waiting[a] = NoRequest /\ reply[a] = "none"
  <2>1. "launch" \in Names /\ "reserve" \in Pcs
    BY DEF Names, Pcs
  <2> QED
    BY <1>1, <2>1, CallsLeave
<1>5. Doing(a)'
  BY <1>3, <1>4
     DEF Doing, Launching, Acting, Preparing, Retiring, Telling, Waits, At, Actions
<1>6. Agrees(a)'
  BY <1>2, <1>3, <1>4 DEF Agrees
<1> QED
  BY <1>2, <1>4, <1>5, <1>6, HostTurns

\* A call that leaves the ledger's entry alone.
LEMMA CallsDoes ==
  ASSUME CursorInv, NEW a \in Attempts,
         NEW name \in {"reconcile", "prepare", "retire"} \cup Actions,
         NEW key \in Keys \cup {NoKey},
         Calls(a, name, IF name \in Actions THEN "context" ELSE "get", key), ledger' = ledger,
         name = "prepare" => key \in Keys,
         name = "reconcile" => ledger[a] = "uncertain",
         name = "prepare" => ledger[a] = "owned",
         name = "retire" => ledger[a] = "retiring"
  PROVE  Does(a)
<1> DEFINE pc == IF name \in Actions THEN "context" ELSE "get"
<1>1. name \in Names /\ pc \in Pcs /\ Fine(a)
  BY DEF Names, Pcs, Actions, CursorInv
<1>2. Doing(a)'
  BY <1>1, CallsLeave
     DEF Doing, Launching, Acting, Preparing, Retiring, Telling, Waits, At, Actions
<1>3. Agrees(a)'
  BY <1>1, CallsLeave DEF Agrees, Fine, Actions
<1>4. ledger' = [c \in Attempts |-> ledger'[c]]
  BY DEF CursorInv, Typed
<1> QED
  BY <1>1, <1>2, <1>3, <1>4, CallsLeave, HostTurns

\* The other calls.
LEMMA HostCallsDoes ==
  ASSUME CursorInv, NEW a \in Attempts,
         \/ HostReconciles(a) \/ HostRetires(a)
         \/ \E k \in Keys : HostPrepares(a, k)
         \/ \E name \in Actions : HostActs(a, name)
  PROVE  Does(a)
<1>1. CASE HostReconciles(a)
  BY <1>1, CallsDoes DEF HostReconciles, Actions
<1>2. CASE HostRetires(a)
  <2>1. hkey[a] \in Keys \cup {NoKey}
    BY DEF CursorInv, Typed
  <2> QED
    BY <1>2, <2>1, CallsDoes DEF HostRetires, Actions
<1>3. ASSUME NEW k \in Keys, HostPrepares(a, k)
      PROVE  Does(a)
  BY <1>3, CallsDoes DEF HostPrepares, Actions
<1>4. ASSUME NEW name \in Actions, HostActs(a, name)
      PROVE  Does(a)
  BY <1>4, CallsDoes DEF HostActs, Actions
<1> QED
  BY <1>1, <1>2, <1>3, <1>4

\* The coordinator does not wait for a preparation.
LEMMA HostGivesUpPreparingDoes ==
  ASSUME CursorInv, NEW a \in Attempts, HostGivesUpPreparing(a)
  PROVE  Does(a)
<1>1. /\ op[a].name = "prepare" /\ ledger[a] = "owned" /\ Fine(a) /\ op' = op
      /\ ledger' = [ledger EXCEPT ![a] = "retiring"] /\ op[a] \in Ops
      /\ hkey' = [hkey EXCEPT ![a] = op[a].key]
      /\ UNCHANGED <<file, svc, wire, runs, cancels, waiting, reply, life>>
  BY DEF HostGivesUpPreparing, CursorInv, Typed, NoBridge, bridgeVars, service, network
<1>2. /\ ledger' = [c \in Attempts |-> ledger'[c]]
      /\ \A b \in Attempts \ {a} : ledger'[b] = ledger[b]
      /\ ledger'[a] = "retiring"
      /\ hkey' \in [Attempts -> Keys \cup {NoKey}]
  BY <1>1 DEF CursorInv, Typed, Ops
<1>3. Agrees(a)'
  BY <1>1, <1>2 DEF Agrees, Fine
<1>4. LiveRuns(a)' = LiveRuns(a) /\ Started(a)' = Started(a) /\ (Deleting(a)' <=> Deleting(a))
  BY <1>1 DEF LiveRuns, Started, Deleting
<1>5. Doing(a)'
  BY <1>1, <1>4
     DEF Fine, Doing, Launching, Acting, Preparing, Retiring, Telling, Waits, At, Known, Fenced,
         NotReservedByOther
<1> QED
  BY <1>1, <1>2, <1>3, <1>5, HostTurns DEF CursorInv, Typed

\* What the ledger makes of an answer is true of the launch.
LEMMA ConcludedAgrees ==
  ASSUME CursorInv, NEW a \in Attempts, op[a].pc = "answer",
         NEW s \in Concluded(op[a].name, op[a].answer, ledger[a]),
         file'[a] = file[a], svc'[a] = svc[a], wire'[a] = wire[a], ledger'[a] = s,
         op'[a].name \in {"none", "unprepare"}
  PROVE  Agrees(a)'
<1>1. Fine(a)
  BY DEF CursorInv
<1>2. CASE op[a].name \in {"launch", "reconcile"}
  <2>1. s = "uncertain" \/ (s = "owned" /\ op[a].answer = "owned")
    BY <1>2 DEF Concluded
  <2>2. ledger[a] \in {"creating", "uncertain"}
    BY <1>1, <1>2 DEF Fine, Agrees
  <2> QED
    BY <1>1, <1>2, <2>1, <2>2 DEF Fine, Doing, Telling, Agrees
<1>3. CASE op[a].name = "prepare"
  <2>1. \/ s = ledger[a]
        \/ s = "owned" /\ op[a].answer \in {"blocked", "conflict"}
        \/ s = "retiring"
    BY <1>3 DEF Concluded
  <2>2. file[a].state \in {"owned", "retiring", "retired"}
    BY <1>1, <1>3 DEF Fine, Agrees
  <2> QED
    BY <1>1, <1>3, <2>1, <2>2 DEF Fine, Doing, Telling, Agrees
<1>4. CASE op[a].name = "retire"
  <2>1. \/ s = ledger[a]
        \/ s = "owned" /\ op[a].answer = "blocked"
        \/ s = "done" /\ op[a].answer = "retired"
    BY <1>4 DEF Concluded
  <2> QED
    BY <1>1, <1>4, <2>1 DEF Fine, Doing, Telling, Agrees, Filed
<1>5. CASE op[a].name \notin {"launch", "reconcile", "prepare", "retire"}
  <2>1. s = ledger[a]
    BY <1>5 DEF Concluded
  <2> QED
    BY <1>1, <2>1 DEF Fine, Agrees
<1> QED
  BY <1>2, <1>3, <1>4, <1>5

\* The coordinator takes an answer.
LEMMA HostTakesDoes ==
  ASSUME CursorInv, NEW a \in Attempts, HostTakes(a)
  PROVE  Does(a)
<1>1. PICK s \in Concluded(op[a].name, op[a].answer, ledger[a]) :
        /\ ledger' = [ledger EXCEPT ![a] = s]
        /\ hkey' = [hkey EXCEPT ![a] = IF s # "retiring" THEN IF s = "done" THEN @ ELSE NoKey
                                       ELSE IF op[a].name = "prepare" THEN op[a].key ELSE @]
        /\ \/ op' = [op EXCEPT ![a] = NoOp]
           \/ /\ op[a].name = "prepare"
              /\ op' = [op EXCEPT ![a] = New("unprepare", "release", op[a].key)]
  BY DEF HostTakes
<1>2. /\ op[a].pc = "answer" /\ Fine(a) /\ op[a] \in Ops
      /\ UNCHANGED <<file, svc, wire, runs, cancels, waiting, reply, life>>
  BY DEF HostTakes, CursorInv, Typed, NoBridge, bridgeVars, service, network
<1>3. /\ ledger' = [c \in Attempts |-> ledger'[c]]
      /\ \A b \in Attempts \ {a} : ledger'[b] = ledger[b]
      /\ ledger'[a] = s
  BY <1>1 DEF CursorInv, Typed
<1>4. hkey' \in [Attempts -> Keys \cup {NoKey}]
  <2>1. op[a].key \in Keys \cup {NoKey} /\ hkey[a] \in Keys \cup {NoKey}
    BY <1>2 DEF CursorInv, Typed, Ops
  <2> QED
    BY <1>1, <2>1 DEF CursorInv, Typed
<1>5. /\ op' \in [Attempts -> Ops] /\ \A b \in Attempts \ {a} : op'[b] = op[b]
      /\ \/ op'[a] = NoOp
         \/ /\ op[a].name = "prepare" /\ op'[a].name = "unprepare"
            /\ op'[a].pc = "release" /\ op'[a].key = op[a].key
  <2>1. CASE op' = [op EXCEPT ![a] = NoOp]
    BY <2>1, NoOpIsOne DEF CursorInv, Typed
  <2>2. CASE /\ op[a].name = "prepare"
             /\ op' = [op EXCEPT ![a] = New("unprepare", "release", op[a].key)]
    <3>1. op[a].key \in Keys
      BY <1>2, <2>2 DEF Fine, Doing, Preparing
    <3> QED
      BY <2>2, <3>1, NewOperation DEF CursorInv, Typed, Names, Pcs
  <2> QED
    BY <1>1, <2>1, <2>2
<1>6. Agrees(a)'
  BY <1>2, <1>3, <1>5, ConcludedAgrees DEF NoOp
<1>7. Doing(a)'
  BY <1>2, <1>5
     DEF Fine, Doing, Launching, Acting, Preparing, Retiring, Telling, Waits, At, Actions, NoOp
<1> QED
  BY <1>2, <1>3, <1>4, <1>5, <1>6, <1>7, HostTurns

\* An operation is aborted: what it goes on to do is what it would have.
LEMMA AbortedDoes ==
  ASSUME CursorInv, NEW a \in Attempts, Aborted(a)
  PROVE  Does(a)
<1>1. /\ op[a] \in Ops /\ op' = [op EXCEPT ![a].aborted = TRUE] /\ Fine(a)
      /\ op[a].name # "none" /\ op[a].pc # "answer"
      /\ UNCHANGED <<file, svc, wire, runs, cancels, waiting, reply, hostVars>>
  BY Idles DEF Aborted, CursorInv, Typed
<1>2. /\ op' \in [Attempts -> Ops] /\ \A b \in Attempts \ {a} : op'[b] = op[b]
      /\ op'[a].name = op[a].name /\ op'[a].pc = op[a].pc /\ op'[a].was = op[a].was
      /\ op'[a].key = op[a].key /\ op'[a].run = op[a].run
  BY <1>1 DEF CursorInv, Typed, Ops
<1>3. LiveRuns(a)' = LiveRuns(a) /\ Started(a)' = Started(a) /\ (Deleting(a)' <=> Deleting(a))
  BY <1>1 DEF LiveRuns, Started, Deleting
<1>4. Doing(a)'
  BY <1>1, <1>2, <1>3
     DEF Fine, Doing, Launching, Acting, Preparing, Retiring, Telling, Waits, At, Known, Fenced,
         NotReservedByOther
<1>5. Agrees(a)'
  BY <1>1, <1>2 DEF Fine, Agrees, hostVars
<1>6. /\ ledger' = [c \in Attempts |-> ledger'[c]]
      /\ \A b \in Attempts \ {a} : ledger'[b] = ledger[b]
      /\ hkey' \in [Attempts -> Keys \cup {NoKey}]
  BY <1>1 DEF CursorInv, Typed, hostVars
<1> QED
  BY <1>1, <1>2, <1>4, <1>5, <1>6, HostTurns DEF hostVars

\* Discovery publishes capabilities.
LEMMA DiscoversDoes ==
  ASSUME CursorInv, NEW a \in Attempts, Discovers(a)
  PROVE  Does(a)
<1>1. UNCHANGED <<file, op, ledger, hkey, life, svc, wire, runs, cancels, waiting, reply>>
  BY DEF Discovers, Looked, NoBridge, bridgeVars, service, network
<1>2. Fine(a)
  BY DEF CursorInv
<1>3. LiveRuns(a)' = LiveRuns(a) /\ Started(a)' = Started(a) /\ (Deleting(a)' <=> Deleting(a))
  BY <1>1 DEF LiveRuns, Started, Deleting
<1>4. Doing(a)'
  BY <1>1, <1>2, <1>3
     DEF Fine, Doing, Launching, Acting, Preparing, Retiring, Telling, Waits, At, Known, Fenced,
         NotReservedByOther
<1>5. Agrees(a)'
  BY <1>1, <1>2 DEF Fine, Agrees
<1> QED
  BY <1>1, <1>4, <1>5, HostTurns DEF CursorInv, Typed

\* finalizeLaunchRetirement: the record of a deleted agent goes.
LEMMA HostFinalizesDoes ==
  ASSUME CursorInv, NEW a \in Attempts, HostFinalizes(a)
  PROVE  Does(a)
<1>1. PICK ok \in BOOLEAN :
        /\ RemoveRetired(a, hkey[a], ok)
        /\ ledger' \in {ledger} \cup (IF ok THEN {[ledger EXCEPT ![a] = "cleaned"]} ELSE {})
  BY DEF HostFinalizes
<1>2. /\ Fine(a) /\ ledger[a] = "done" /\ op' = op /\ hkey' = hkey /\ life' = life
      /\ UNCHANGED <<svc, wire, runs, cancels, waiting, reply>>
      /\ svc[a] = "deleted" /\ file[a].state \in {"retired", "absent"}
      /\ op[a].name \notin {"launch", "reconcile", "prepare", "retire"}
  BY DEF HostFinalizes, CursorInv, NoBridge, bridgeVars, service, network, Fine, Agrees
<1>3. /\ file' \in [Attempts -> Records] /\ \A b \in Attempts \ {a} : file'[b] = file[b]
      /\ file'[a] \in {file[a], Absent}
      /\ ok => file'[a].state = "absent"
  <2>1. CASE file[a].state = "absent" /\ file' = file
    BY <2>1 DEF CursorInv, Typed
  <2>2. CASE Write(a, file[a].state = "retired" /\ file[a].key = hkey[a], Absent, ok)
    <3>1. /\ file' \in [Attempts -> Records] /\ \A b \in Attempts \ {a} : file'[b] = file[b]
          /\ \/ ~ok /\ file' = file
             \/ file'[a] = Absent
      BY <2>2, AbsentRecord, WriteDoes DEF CursorInv
    <3> QED
      BY <3>1 DEF Absent
  <2> QED
    BY <1>1, <2>1, <2>2 DEF RemoveRetired
<1>4. /\ ledger' = [c \in Attempts |-> ledger'[c]]
      /\ \A b \in Attempts \ {a} : ledger'[b] = ledger[b]
      /\ ledger'[a] \in {"done", "cleaned"}
      /\ ledger'[a] = "cleaned" => file'[a].state = "absent"
  BY <1>1, <1>2, <1>3 DEF CursorInv, Typed
<1>5. Typed' /\ Others(a)
  BY <1>2, <1>3, <1>4 DEF CursorInv, Typed, Others, Same
<1>6. CASE file'[a] = file[a]
  <2>1. Filed(a)' /\ OnWire(a)' /\ Prompted(a)' /\ Shows(a)
    BY <1>2, <1>6, WorldStays DEF Fine, Shows
  <2>2. Agrees(a)'
    BY <1>2, <1>4, <1>6 DEF Fine, Agrees
  <2>3. Doing(a)'
    <3>1. LiveRuns(a)' = LiveRuns(a) /\ Started(a)' = Started(a) /\ (Deleting(a)' <=> Deleting(a))
      BY <1>2 DEF LiveRuns, Started, Deleting
    <3> QED
      BY <1>2, <1>6, <3>1
         DEF Fine, Doing, Launching, Acting, Preparing, Retiring, Telling, Waits, At, Known,
             Fenced, NotReservedByOther
  <2> QED
    BY <1>2, <1>5, <2>1, <2>2, <2>3 DEF Does, Fine
<1>7. CASE file'[a] = Absent /\ file[a].state = "retired"
  <2>1. file'[a].state = "absent" /\ LiveRuns(a)' = LiveRuns(a)
        /\ (Deleting(a)' <=> Deleting(a))
    BY <1>2, <1>7 DEF Absent, LiveRuns, Deleting
  <2>2. Filed(a)'
    BY <1>7, <2>1, AbsentRecord DEF Filed
  <2>3. OnWire(a)'
    BY <1>2, <1>7, <2>1 DEF Fine, OnWire
  <2>4. Prompted(a)'
    BY <1>2, <2>1 DEF Fine, Prompted
  <2>5. Agrees(a)'
    BY <1>2, <1>4, <2>1 DEF Fine, Agrees
  <2>6. Doing(a)'
    BY <1>2, <1>7
       DEF Fine, Doing, Launching, Acting, Preparing, Retiring, Telling, Waits, At, Actions
  <2>7. Shows(a)
    BY <1>2, <1>7, <2>1 DEF Shows, Forgetting
  <2> QED
    BY <1>2, <1>5, <2>2, <2>3, <2>4, <2>5, <2>6, <2>7 DEF Does, Fine
<1> QED
  <2>1. file[a].state = "absent" => file[a] = Absent
    BY <1>2 DEF Absent, Fine, Filed, ValidRecord
  <2> QED
    BY <1>2, <1>3, <1>6, <1>7, <2>1

-----------------------------------------------------------------------------
(* The bridge.                                                              *)

\* A step of the bridge leaves record, operation and ledger alone, and the
\* other launches.
LEMMA OutsideDoes ==
  ASSUME CursorInv, NEW a \in Attempts, UNCHANGED <<file, op, hostVars, waiting>>,
         svc' = [c \in Attempts |-> svc'[c]], wire' = [c \in Attempts |-> wire'[c]],
         reply' = [c \in Attempts |-> reply'[c]],
         runs' \in [Attempts -> [Runs -> {"none", "live", "over"}]],
         cancels' \in [Attempts -> [Runs -> Nat]],
         \A b \in Attempts \ {a} :
           /\ svc'[b] = svc[b] /\ wire'[b] = wire[b] /\ runs'[b] = runs[b]
           /\ cancels'[b] = cancels[b] /\ reply'[b] = reply[b],
         Fine(a)', Shows(a)
  PROVE  Does(a)
  BY DEF CursorInv, Typed, Others, Same, Does, hostVars

\* Answered.
LEMMA AnsweredLeaves ==
  ASSUME CursorInv, NEW a \in Attempts, NEW q, NEW answer, Answered(a, q, answer)
  PROVE  /\ wire'[a] = wire[a] \ {q} /\ waiting' = waiting
         /\ waiting[a] = q => reply'[a] = answer
         /\ waiting[a] # q => reply'[a] = reply[a]
         /\ wire' = [c \in Attempts |-> wire'[c]] /\ reply' = [c \in Attempts |-> reply'[c]]
         /\ \A b \in Attempts \ {a} : wire'[b] = wire[b] /\ reply'[b] = reply[b]
         /\ Deleting(a)' => Deleting(a)
  BY DEF CursorInv, Typed, Answered, Deleting

\* What the host has is not the bridge's to change.
LEMMA HostStays ==
  ASSUME NEW a \in Attempts, OutsideStep(a)
  PROVE  UNCHANGED <<file, op, hostVars>>
  BY DEF OutsideStep, NoHost

\* The agent comes into being: only an intent has been recorded so far.
LEMMA CreatesDoes ==
  ASSUME CursorInv, NEW a \in Attempts, UNCHANGED <<file, op, hostVars>>, Creates(a)
  PROVE  Does(a)
<1> DEFINE q == Ask("create")
<1>1. /\ Fine(a) /\ q \in wire[a] /\ svc[a] = "none" /\ Answered(a, q, "ok")
      /\ runs' = runs /\ cancels' = cancels
  BY DEF Creates, CursorInv, Fine, OnWire
<1>2. /\ svc'[a] = "live" /\ svc' = [c \in Attempts |-> svc'[c]]
      /\ \A b \in Attempts \ {a} : svc'[b] = svc[b]
  BY <1>1 DEF Creates, CursorInv, Typed
<1>3. file[a].state \notin {"owned", "retiring", "retired"}
  BY <1>1 DEF Fine, Filed
<1>4. file[a].state \in {"absent", "intent"} /\ file[a].key = NoKey
  <2>1. file[a] \in Records
    BY DEF CursorInv, Typed
  <2> QED
    BY <1>1, <1>3, <2>1 DEF Fine, Filed, ValidRecord, Records, Absent
<1>5. LiveRuns(a)' = LiveRuns(a) /\ Started(a)' = Started(a) /\ (Known(a)' <=> Known(a))
  BY <1>1 DEF LiveRuns, Started, Known
<1>6. q.kind = "create" /\ q # NoRequest
  BY DEF Ask, NoRequest
<1>7. ~Deleting(a)'
  BY <1>1, <1>4, AnsweredLeaves DEF Fine, OnWire, Fenced
<1>8. Filed(a)' /\ OnWire(a)' /\ Prompted(a)'
  <2>1. Filed(a)'
    BY <1>1, <1>2, <1>4 DEF Fine, Filed
  <2>2. OnWire(a)'
    BY <1>1, <1>4, <1>5, <1>7, AnsweredLeaves DEF Fine, OnWire
  <2>3. Prompted(a)'
    BY <1>1, <1>5, AnsweredLeaves DEF Fine, Prompted
  <2> QED
    BY <2>1, <2>2, <2>3
<1>9. Agrees(a)'
  BY <1>1, <1>2 DEF Fine, Agrees, hostVars
<1>10. Doing(a)'
  BY <1>1, <1>2, <1>4, <1>6, AnsweredLeaves
     DEF Fine, Doing, Launching, Acting, Preparing, Retiring, Telling, Waits, At, Actions, Fenced,
         NotReservedByOther
<1>11. Shows(a)
  BY <1>1, <1>2, <1>4 DEF Shows, Creating
<1>12. Fine(a)'
  BY <1>8, <1>9, <1>10 DEF Fine
<1>13. waiting' = waiting /\ wire' = [c \in Attempts |-> wire'[c]]
      /\ reply' = [c \in Attempts |-> reply'[c]]
      /\ \A b \in Attempts \ {a} : wire'[b] = wire[b] /\ reply'[b] = reply[b]
  BY <1>1, AnsweredLeaves
<1>14. /\ runs' \in [Attempts -> [Runs -> {"none", "live", "over"}]]
       /\ cancels' \in [Attempts -> [Runs -> Nat]]
  BY <1>1 DEF CursorInv, Typed
<1> QED
  BY <1>1, <1>2, <1>11, <1>12, <1>13, <1>14, OutsideDoes

\* A prompt that arrives starts the next run: nothing is live.
LEMMA StartsRunDoes ==
  ASSUME CursorInv, NEW a \in Attempts, UNCHANGED <<file, op, hostVars>>, StartsRun(a)
  PROVE  Does(a)
<1> DEFINE q == Ask("send")
<1> DEFINE n == file[a].run + 1
<1>1. /\ Fine(a) /\ q \in wire[a] /\ file[a].state = "owned" /\ file[a].pending
      /\ LiveRuns(a) = {} /\ Known(a) /\ Answered(a, q, "ok") /\ svc' = svc
      /\ cancels' = cancels /\ NextRun(a) \in Runs
      /\ runs' = [runs EXCEPT ![a][NextRun(a)] = "live"]
  BY DEF StartsRun, CursorInv, Fine, OnWire
<1>2. file[a].run \in Nat
  BY DEF CursorInv, Typed, Records, Runs, NoRun
<1>3. NextRun(a) = n
  BY <1>1, <1>2, RunsCounted DEF Known
<1>4. /\ runs' \in [Attempts -> [Runs -> {"none", "live", "over"}]]
      /\ runs'[a] = [runs[a] EXCEPT ![n] = "live"]
      /\ \A b \in Attempts \ {a} : runs'[b] = runs[b]
  BY <1>1, <1>3 DEF CursorInv, Typed
<1>5. Started(a)' = Started(a) \cup {n} /\ LiveRuns(a)' = LiveRuns(a) \cup {n}
  BY <1>1, <1>3, <1>4 DEF Started, LiveRuns, CursorInv, Typed
<1>6. Started(a)' = 1..n /\ LiveRuns(a)' = {n}
  BY <1>1, <1>2, <1>5 DEF Known
<1>7. q.kind = "send" /\ q # NoRequest
  BY DEF Ask, NoRequest
<1>8. Filed(a)' /\ OnWire(a)' /\ Prompted(a)'
  <2>1. Filed(a)'
    BY <1>1, AnsweredLeaves DEF Fine, Filed
  <2>2. OnWire(a)'
    BY <1>1, AnsweredLeaves DEF Fine, Filed, OnWire
  <2>3. Prompted(a)'
    BY <1>1, <1>6, AnsweredLeaves DEF Fine, Prompted
  <2> QED
    BY <2>1, <2>2, <2>3
<1>9. Agrees(a)'
  BY <1>1 DEF Fine, Agrees, hostVars
<1>10. Doing(a)'
  <2>1. Acting(a)'
    BY <1>1, <1>6, <1>7, AnsweredLeaves DEF Fine, Doing, Acting, At, Actions, Ask, CancelOf
  <2>2. Retiring(a)'
    BY <1>1, <1>7, AnsweredLeaves
       DEF Fine, Filed, Doing, Retiring, At, Fenced, Unsettled
  <2> QED
    BY <1>1, <1>7, <2>1, <2>2, AnsweredLeaves
       DEF Fine, Doing, Launching, Preparing, Telling, Waits, At, NotReservedByOther
<1>11. Shows(a)
  BY <1>1 DEF Shows, Stays
<1>12. Fine(a)' /\ svc' = [c \in Attempts |-> svc'[c]]
  BY <1>1, <1>8, <1>9, <1>10 DEF Fine, CursorInv, Typed
<1>13. waiting' = waiting /\ wire' = [c \in Attempts |-> wire'[c]]
      /\ reply' = [c \in Attempts |-> reply'[c]]
      /\ \A b \in Attempts \ {a} : wire'[b] = wire[b] /\ reply'[b] = reply[b]
  BY <1>1, AnsweredLeaves
<1>14. cancels' \in [Attempts -> [Runs -> Nat]]
  BY <1>1 DEF CursorInv, Typed
<1> QED
  BY <1>1, <1>4, <1>11, <1>12, <1>13, <1>14, OutsideDoes

\* A run ends or is made to, and a request for that is off the wire.
LEMMA RunOverDoes ==
  ASSUME CursorInv, NEW a \in Attempts, NEW r \in Runs,
         UNCHANGED <<file, op, hostVars, waiting, svc, cancels>>,
         runs' \in [Attempts -> [Runs -> {"none", "live", "over"}]],
         \A b \in Attempts \ {a} : /\ runs'[b] = runs[b]
                                   /\ wire'[b] = wire[b] /\ reply'[b] = reply[b],
         \A s \in Runs \ {r} : runs'[a][s] = runs[a][s],
         runs'[a][r] = (IF runs[a][r] = "live" THEN "over" ELSE runs[a][r]),
         wire' = [c \in Attempts |-> wire'[c]], reply' = [c \in Attempts |-> reply'[c]],
         \/ wire'[a] = wire[a] /\ reply'[a] = reply[a]
         \/ /\ wire'[a] = wire[a] \ {CancelOf(r)}
            /\ waiting[a] = CancelOf(r) => reply'[a] = "ok"
            /\ waiting[a] # CancelOf(r) => reply'[a] = reply[a]
  PROVE  Does(a)
<1>1. Fine(a) /\ wire'[a] \subseteq wire[a] /\ (Deleting(a)' => Deleting(a))
      /\ (waiting[a] # CancelOf(r) => reply'[a] = reply[a])
      /\ (reply'[a] = reply[a] \/ (waiting[a] = CancelOf(r) /\ reply'[a] = "ok"))
  BY DEF CursorInv, Deleting
<1>2. Started(a)' = Started(a) /\ (Known(a)' <=> Known(a))
  BY DEF Started, Known
<1>3. LiveRuns(a)' \subseteq LiveRuns(a)
  BY DEF LiveRuns
<1>4. CancelOf(r).kind = "cancel" /\ CancelOf(r) # NoRequest
  BY DEF Ask, NoRequest, CancelOf
<1>5. Filed(a)'
  BY <1>1, <1>3 DEF Fine, Filed
<1>6. OnWire(a)'
  BY <1>1, <1>2, <1>3 DEF Fine, OnWire, Fenced
<1>7. Prompted(a)'
  BY <1>1, <1>2, <1>3 DEF Fine, Prompted
<1>8. Agrees(a)'
  BY <1>1 DEF Fine, Agrees, hostVars
<1>9. Doing(a)'
  <2>1. Acting(a)'
    BY <1>1, <1>2, <1>3, <1>4 DEF Fine, Doing, Acting, At, Actions, Ask, CancelOf
  <2>2. Retiring(a)'
    BY <1>1, <1>3, <1>4 DEF Fine, Doing, Retiring, At, Fenced, Deletes
  <2>3. Launching(a)'
    BY <1>1, <1>4 DEF Fine, Doing, Launching, At, Ask
  <2> QED
    BY <1>1, <1>4, <2>1, <2>2, <2>3
       DEF Fine, Doing, Preparing, Telling, Waits, At, NotReservedByOther
<1>10. Shows(a)
  BY DEF Shows, Stays
<1> QED
  BY <1>5, <1>6, <1>7, <1>8, <1>9, <1>10, OutsideDoes DEF Fine, CursorInv, Typed

\* CancelsRun and RunEnds.
LEMMA RunStops ==
  ASSUME CursorInv, NEW a \in Attempts, NEW r \in Runs, UNCHANGED <<file, op, hostVars>>,
         CancelsRun(a, r) \/ RunEnds(a, r)
  PROVE  Does(a)
<1>1. CASE CancelsRun(a, r)
  <2>1. /\ runs' = [runs EXCEPT ![a][r] = IF @ = "live" THEN "over" ELSE @]
        /\ Answered(a, CancelOf(r), "ok") /\ svc' = svc /\ cancels' = cancels
    BY <1>1 DEF CancelsRun
  <2>2. /\ runs' \in [Attempts -> [Runs -> {"none", "live", "over"}]]
        /\ \A b \in Attempts \ {a} : runs'[b] = runs[b]
        /\ \A s \in Runs \ {r} : runs'[a][s] = runs[a][s]
        /\ runs'[a][r] = (IF runs[a][r] = "live" THEN "over" ELSE runs[a][r])
    BY <2>1 DEF CursorInv, Typed
  <2> QED
    BY <2>1, <2>2, AnsweredLeaves, RunOverDoes
<1>2. CASE RunEnds(a, r)
  <2>1. /\ runs' = [runs EXCEPT ![a][r] = "over"] /\ runs[a][r] = "live"
        /\ UNCHANGED <<svc, cancels, wire, waiting, reply>>
    BY <1>2 DEF RunEnds, network
  <2>2. /\ runs' \in [Attempts -> [Runs -> {"none", "live", "over"}]]
        /\ \A b \in Attempts \ {a} : runs'[b] = runs[b]
        /\ \A s \in Runs \ {r} : runs'[a][s] = runs[a][s]
        /\ runs'[a][r] = (IF runs[a][r] = "live" THEN "over" ELSE runs[a][r])
    BY <2>1 DEF CursorInv, Typed
  <2>3. wire' = [c \in Attempts |-> wire'[c]] /\ reply' = [c \in Attempts |-> reply'[c]]
    BY <2>1 DEF CursorInv, Typed
  <2> QED
    BY <2>1, <2>2, <2>3, RunOverDoes
<1> QED
  BY <1>1, <1>2

\* A delete that arrives takes the agent: only a fenced one can be on its way.
LEMMA DeletesAgentDoes ==
  ASSUME CursorInv, NEW a \in Attempts, NEW q, UNCHANGED <<file, op, hostVars>>,
         DeletesAgent(a, q)
  PROVE  Does(a)
<1> DEFINE answer == IF svc[a] = "live" THEN "ok" ELSE "missing"
<1>1. /\ Fine(a) /\ q \in wire[a] /\ q.kind \in Deletes /\ Deleting(a)
      /\ Answered(a, q, answer) /\ runs' = runs /\ cancels' = cancels
      /\ svc[a] = "deleted" \/ Fenced(a)
  BY DEF DeletesAgent, CursorInv, Fine, OnWire, Deleting
<1>2. /\ svc'[a] = "deleted" /\ svc' = [c \in Attempts |-> svc'[c]]
      /\ \A b \in Attempts \ {a} : svc'[b] = svc[b]
  BY DEF DeletesAgent, CursorInv, Typed
<1>3. /\ file[a].state \notin {"owned", "intent"}
      /\ file[a].state = "retiring" => Fenced(a)
      /\ LiveRuns(a)' = LiveRuns(a)
      /\ svc[a] \in {"live", "deleted"}
  BY <1>1 DEF Fine, Filed, Fenced, LiveRuns
<1>4. q # NoRequest /\ q # Ask("create") /\ q # Ask("send") /\ q.kind # "cancel"
  <2>1. q.kind # "none" /\ q.kind # "create" /\ q.kind # "send" /\ q.kind # "cancel"
    BY <1>1, Zenon DEF Deletes
  <2> QED
    BY <2>1 DEF Ask, NoRequest
<1>5. Filed(a)' /\ OnWire(a)' /\ Prompted(a)' /\ Agrees(a)'
  <2>1. Filed(a)'
    BY <1>1, <1>2, <1>3 DEF Fine, Filed, Fenced
  <2>2. OnWire(a)'
    BY <1>1, <1>2, <1>3, AnsweredLeaves DEF Fine, OnWire
  <2>3. Prompted(a)'
    BY <1>1, <1>2, <1>3, AnsweredLeaves DEF Fine, Prompted
  <2>4. Agrees(a)'
    BY <1>1, <1>2 DEF Fine, Agrees, hostVars
  <2> QED
    BY <2>1, <2>2, <2>3, <2>4
<1>6. Doing(a)'
  <2>1. Retiring(a)'
    <3>1. ~Replaying(file[a]) => file[a].state # "retiring"
      BY <1>3 DEF Replaying, Fenced
    <3>2. At(a, "retire", "sent") /\ ~Replaying(op[a].was) =>
            q = Ask("delete") /\ reply'[a] = "ok" /\ waiting'[a] = Ask("delete")
            /\ \A p \in wire'[a] : p.kind \notin Deletes
      BY <1>1, <1>3, AnsweredLeaves DEF Fine, Doing, Retiring
    <3>3. op[a].name = "retire" =>
            /\ op[a].pc \notin {"reserve", "look", "inspect", "begin", "mark", "cancel"}
            /\ op[a].pc = "send" => Replaying(op[a].was)
      BY <1>1, <1>3, <3>1 DEF Fine, Doing, Retiring, At, Fenced
    <3>4. op[a].name = "retire" /\ op[a].pc \in {"send", "sent", "retired"} => Fenced(a)'
      BY <1>1 DEF Fine, Doing, Retiring, Fenced
    <3>5. At(a, "retire", "sent") => waiting'[a].kind \in Deletes
      BY <1>1, AnsweredLeaves DEF Fine, Doing, Retiring
    <3> QED
      BY <1>1, <1>2, <3>2, <3>3, <3>4, <3>5 DEF Retiring, At
  <2>2. Launching(a)'
    BY <1>1, <1>3, <1>4, AnsweredLeaves DEF Fine, Doing, Launching, At
  <2>3. Acting(a)'
    BY <1>1, <1>3, <1>4, AnsweredLeaves DEF Fine, Doing, Acting, At, Actions
  <2> QED
    BY <1>1, <1>4, <2>1, <2>2, <2>3, AnsweredLeaves
       DEF Fine, Doing, Preparing, Telling, Waits, At, NotReservedByOther
<1>7. Shows(a)
  <2>1. CASE svc[a] = "deleted"
    BY <1>2, <2>1 DEF Shows, Stays
  <2>2. CASE svc[a] = "live"
    <3>1. Fenced(a) /\ LiveRuns(a) = {} /\ Ask("send") \notin wire[a]
      BY <1>1, <2>2 DEF Fine, Filed, OnWire, Fenced
    <3> QED
      BY <1>2, <2>2, <3>1 DEF Shows, Removing
  <2> QED
    BY <1>3, <2>1, <2>2
<1>8. Fine(a)'
  BY <1>5, <1>6 DEF Fine
<1>9. waiting' = waiting /\ wire' = [c \in Attempts |-> wire'[c]]
      /\ reply' = [c \in Attempts |-> reply'[c]]
      /\ \A b \in Attempts \ {a} : wire'[b] = wire[b] /\ reply'[b] = reply[b]
  BY <1>1, AnsweredLeaves
<1>10. /\ runs' \in [Attempts -> [Runs -> {"none", "live", "over"}]]
       /\ cancels' \in [Attempts -> [Runs -> Nat]]
  BY <1>1 DEF CursorInv, Typed
<1> QED
  BY <1>1, <1>2, <1>7, <1>8, <1>9, <1>10, OutsideDoes

\* A request is refused for good: nothing is done for it, and nothing will be.
LEMMA RejectsDoes ==
  ASSUME CursorInv, NEW a \in Attempts, NEW q, UNCHANGED <<file, op, hostVars>>, Rejects(a, q)
  PROVE  Does(a)
<1>1. /\ Fine(a) /\ q \in wire[a] /\ Answered(a, q, "rejected")
      /\ svc' = svc /\ runs' = runs /\ q \in Request
      /\ q.kind = "cancel" => q.run \in Runs /\ q = CancelOf(q.run)
      /\ q # NoRequest
  <2>1. q \in Request
    BY DEF Rejects, CursorInv, Fine, OnWire
  <2>2. q.kind # "none"
    BY <2>1, Zenon DEF Request, Deletes
  <2>3. q = [kind |-> q.kind, run |-> q.run]
    BY <2>1 DEF Request
  <2> QED
    BY <2>1, <2>2, <2>3
       DEF Rejects, CursorInv, Fine, OnWire, service, CancelOf, NoRequest, Ask
<1>2. /\ cancels' \in [Attempts -> [Runs -> Nat]]
      /\ \A b \in Attempts \ {a} : cancels'[b] = cancels[b]
      /\ \A r \in Runs : q # CancelOf(r) => cancels'[a][r] = cancels[a][r]
      /\ \A r \in Runs : q = CancelOf(r) => cancels'[a][r] = 0
  <2>1. CASE q.kind # "cancel"
    <3>1. cancels' = cancels
      BY <2>1 DEF Rejects, CursorInv, Typed
    <3>2. \A r \in Runs : q # CancelOf(r)
      BY <2>1 DEF CancelOf
    <3> QED
      BY <3>1, <3>2 DEF CursorInv, Typed
  <2>2. CASE q.kind = "cancel"
    <3>1. q.run \in Runs /\ cancels[a][q.run] = 1
      BY <1>1, <2>2 DEF Fine, Prompted
    <3> DEFINE once == [cancels[a] EXCEPT ![q.run] = @ - 1]
    <3>2. cancels' = [cancels EXCEPT ![a] = once]
      BY <2>2 DEF Rejects
    <3>6. cancels[a] \in [Runs -> Nat]
      BY DEF CursorInv, Typed
    <3>7. /\ once \in [Runs -> Nat] /\ once[q.run] = 0
          /\ \A r \in Runs \ {q.run} : once[r] = cancels[a][r]
      BY <3>1, <3>6
    <3> HIDE DEF once
    <3>8. cancels'[a] = once
      BY <3>2 DEF CursorInv, Typed
    <3>3. cancels' \in [Attempts -> [Runs -> Nat]]
          /\ \A b \in Attempts \ {a} : cancels'[b] = cancels[b]
      BY <3>2, <3>7 DEF CursorInv, Typed
    <3>4. \A r \in Runs : q = CancelOf(r) => r = q.run
      BY DEF CancelOf
    <3>5. \A r \in Runs : q # CancelOf(r) => r # q.run
      BY <1>1, <2>2
    <3> QED
      BY <3>1, <3>3, <3>4, <3>5, <3>7, <3>8
  <2> QED
    BY <2>1, <2>2
<1>3. Started(a)' = Started(a) /\ LiveRuns(a)' = LiveRuns(a) /\ (Known(a)' <=> Known(a))
  BY <1>1 DEF Started, LiveRuns, Known
<1>4. Filed(a)' /\ OnWire(a)' /\ Prompted(a)' /\ Agrees(a)'
  <2>1. Filed(a)'
    BY <1>1, <1>3, AnsweredLeaves DEF Fine, Filed
  <2>2. OnWire(a)'
    BY <1>1, <1>3, AnsweredLeaves DEF Fine, OnWire, Fenced
  <2>3. Prompted(a)'
    <3>1. ASSUME NEW r \in Runs
          PROVE  /\ cancels'[a][r] \in {0, 1}
                 /\ CancelOf(r) \in wire'[a] => cancels'[a][r] = 1
                 /\ cancels'[a][r] = 1 => cancels[a][r] = 1
      BY <1>1, <1>2, AnsweredLeaves DEF Fine, Prompted
    <3> QED
      BY <1>1, <1>3, <3>1 DEF Fine, Prompted
  <2>4. Agrees(a)'
    BY <1>1, AnsweredLeaves DEF Fine, Agrees, hostVars
  <2> QED
    BY <2>1, <2>2, <2>3, <2>4
<1>5. Doing(a)'
  <2>1. Acting(a)'
    <3>1. op[a].name = "interrupt" /\ op[a].pc \in {"call", "sent", "restore"} =>
            /\ file[a].state = "owned" /\ file[a].run # NoRun /\ file[a].run \in Runs
            /\ file[a].cancel = file[a].run /\ op[a].was.run = file[a].run
            /\ op[a].pc = "sent" => waiting'[a] = CancelOf(file[a].run)
            /\ op[a].pc # "sent" \/ reply'[a] = "rejected" => cancels'[a][file[a].run] = 0
      <4>1. file[a].run # NoRun => file[a].run \in Runs
        BY DEF CursorInv, Typed, Records
      <4> QED
        BY <1>1, <1>2, <4>1, AnsweredLeaves DEF Fine, Doing, Acting, At
    <3>2. op[a].name = "prompt" /\ op[a].pc \in {"call", "sent", "commit", "restore"} =>
            /\ file[a].state = "owned" /\ file[a].pending
            /\ op[a].pc \in {"call", "restore"} => Ask("send") \notin wire'[a] /\ Known(a)
            /\ op[a].pc = "call" => LiveRuns(a) = {}
            /\ op[a].pc = "sent" =>
                 /\ waiting'[a] = Ask("send")
                 /\ reply'[a] = "ok" => /\ Ask("send") \notin wire'[a]
                                        /\ Started(a) = 1..(file[a].run + 1)
                 /\ reply'[a] = "rejected" => Ask("send") \notin wire'[a] /\ Known(a)
            /\ op[a].pc = "commit" =>
                 /\ Ask("send") \notin wire'[a] /\ op[a].run = file[a].run + 1
                 /\ Started(a) = 1..op[a].run
      BY <1>1, AnsweredLeaves DEF Fine, OnWire, Doing, Acting, At
    <3> QED
      BY <1>1, <1>3, <3>1, <3>2 DEF Fine, Doing, Acting, At, Actions
  <2>2. Retiring(a)'
    <3>1. At(a, "retire", "sent") =>
            /\ waiting'[a].kind \in Deletes
            /\ reply'[a] \in {"ok", "missing"} => svc'[a] = "deleted"
            /\ ~Replaying(op[a].was) =>
                 /\ waiting'[a] = Ask("delete") /\ reply'[a] # "missing"
                 /\ reply'[a] # "ok" => svc'[a] = "live"
                 /\ \A p \in wire'[a] :
                      p.kind \in Deletes => p = Ask("delete") /\ reply'[a] = "none"
      <4>1. /\ waiting'[a] = waiting[a]
            /\ \/ waiting[a] = q /\ reply'[a] = "rejected"
               \/ waiting[a] # q /\ reply'[a] = reply[a]
            /\ wire'[a] = wire[a] \ {q}
        BY <1>1, AnsweredLeaves
      <4>2. Fine(a) /\ q \in wire[a] /\ svc' = svc
        BY <1>1
      <4>3. At(a, "retire", "sent") /\ ~Replaying(op[a].was) /\ waiting[a] = q =>
              q = Ask("delete") /\ reply[a] = "none"
        <5>1. Ask("delete").kind \in Deletes
          BY DEF Ask, Deletes
        <5> QED
          BY <4>2, <5>1 DEF Fine, Doing, Retiring
      <4> QED
        BY <4>1, <4>2, <4>3 DEF Fine, Doing, Retiring
    <3> QED
      BY <1>1, <1>3, <3>1, AnsweredLeaves DEF Fine, Doing, Retiring, At, Fenced
  <2>3. Launching(a)'
    BY <1>1, AnsweredLeaves DEF Fine, Doing, Launching, At
  <2> QED
    BY <1>1, <2>1, <2>2, <2>3, AnsweredLeaves
       DEF Fine, Doing, Preparing, Telling, Waits, At, NotReservedByOther
<1>6. Shows(a)
  BY <1>1 DEF Shows, Stays
<1>7. svc' = [c \in Attempts |-> svc'[c]]
      /\ runs' \in [Attempts -> [Runs -> {"none", "live", "over"}]]
  BY <1>1 DEF CursorInv, Typed
<1>8. Fine(a)'
  BY <1>4, <1>5 DEF Fine
<1>9. waiting' = waiting /\ wire' = [c \in Attempts |-> wire'[c]]
      /\ reply' = [c \in Attempts |-> reply'[c]]
      /\ \A b \in Attempts \ {a} : wire'[b] = wire[b] /\ reply'[b] = reply[b]
  BY <1>1, AnsweredLeaves
<1> QED
  BY <1>1, <1>2, <1>6, <1>7, <1>8, <1>9, OutsideDoes

\* A request is lost.
LEMMA LosesDoes ==
  ASSUME CursorInv, NEW a \in Attempts, NEW q, UNCHANGED <<file, op, hostVars>>, Loses(a, q)
  PROVE  Does(a)
<1>1. /\ Fine(a) /\ UNCHANGED <<svc, runs, cancels, waiting, reply>>
      /\ wire'[a] = wire[a] \ {q} /\ wire' = [c \in Attempts |-> wire'[c]]
      /\ \A b \in Attempts \ {a} : wire'[b] = wire[b]
  BY DEF Loses, CursorInv, Typed, service
<1>2. wire'[a] \subseteq wire[a] /\ (Deleting(a)' => Deleting(a))
      /\ Started(a)' = Started(a) /\ LiveRuns(a)' = LiveRuns(a) /\ (Known(a)' <=> Known(a))
  BY <1>1 DEF Started, LiveRuns, Known, Deleting
<1>3. Filed(a)' /\ OnWire(a)' /\ Prompted(a)' /\ Agrees(a)'
  <2>1. Filed(a)'
    BY <1>1, <1>2 DEF Fine, Filed
  <2>2. OnWire(a)'
    BY <1>1, <1>2 DEF Fine, OnWire, Fenced
  <2>3. Prompted(a)'
    BY <1>1, <1>2 DEF Fine, Prompted
  <2>4. Agrees(a)'
    BY <1>1 DEF Fine, Agrees, hostVars
  <2> QED
    BY <2>1, <2>2, <2>3, <2>4
<1>4. Doing(a)'
  <2>1. Acting(a)'
    BY <1>1, <1>2 DEF Fine, Doing, Acting, At
  <2>2. Retiring(a)'
    BY <1>1, <1>2 DEF Fine, Doing, Retiring, At, Fenced
  <2> QED
    BY <1>1, <2>1, <2>2
       DEF Fine, Doing, Launching, Preparing, Telling, Waits, At, NotReservedByOther
<1>5. Shows(a)
  BY <1>1 DEF Shows, Stays
<1> QED
  BY <1>1, <1>3, <1>4, <1>5, OutsideDoes DEF Fine, CursorInv, Typed

\* What happens at the bridge.
LEMMA OutsideStepDoes ==
  ASSUME CursorInv, NEW a \in Attempts, OutsideStep(a)
  PROVE  Does(a)
<1>1. UNCHANGED <<file, op, hostVars>>
  BY HostStays
<1>2. CASE StreamEnds(a)
  <2>1. UNCHANGED <<svc, wire, runs, cancels, waiting, reply>> /\ Fine(a)
    BY <1>2 DEF StreamEnds, service, network, CursorInv
  <2>2. LiveRuns(a)' = LiveRuns(a) /\ Started(a)' = Started(a) /\ (Deleting(a)' <=> Deleting(a))
    BY <2>1 DEF LiveRuns, Started, Deleting
  <2>3. Doing(a)'
    BY <1>1, <2>1, <2>2
       DEF Fine, Doing, Launching, Acting, Preparing, Retiring, Telling, Waits, At, Known, Fenced,
           NotReservedByOther
  <2>4. Agrees(a)'
    BY <1>1, <2>1 DEF Fine, Agrees, hostVars
  <2> QED
    BY <1>1, <2>1, <2>3, <2>4, HostTurns DEF CursorInv, Typed, hostVars
<1>3. CASE BridgeStep(a)
  BY <1>1, <1>3, CreatesDoes, StartsRunDoes, RunStops, DeletesAgentDoes, RejectsDoes, LosesDoes
     DEF BridgeStep
<1> QED
  BY <1>2, <1>3 DEF OutsideStep

-----------------------------------------------------------------------------
(* The whole adapter.                                                       *)

\* A launch that nothing is done to.
LEMMA SameStays ==
  ASSUME NEW b \in Attempts, Fine(b), Same(b)
  PROVE  Fine(b)' /\ Shows(b)
<1>1. Filed(b)' /\ OnWire(b)' /\ Prompted(b)' /\ Shows(b)
  BY WorldStays DEF Fine, Same, Shows
<1>2. LiveRuns(b)' = LiveRuns(b) /\ Started(b)' = Started(b) /\ (Deleting(b)' <=> Deleting(b))
  BY DEF Same, LiveRuns, Started, Deleting
<1>3. Doing(b)'
  BY <1>2
     DEF Fine, Same, Doing, Launching, Acting, Preparing, Retiring, Telling, Waits, At, Known,
         Fenced, NotReservedByOther
<1>4. Agrees(b)'
  BY DEF Fine, Same, Agrees
<1> QED
  BY <1>1, <1>3, <1>4 DEF Fine

\* Nothing is under way, and nothing is awaited.
LEMMA IdleDoing ==
  ASSUME NEW a \in Attempts, op'[a] = NoOp, waiting'[a] = NoRequest, reply'[a] = "none"
  PROVE  Doing(a)'
  BY DEF Doing, Launching, Acting, Preparing, Retiring, Telling, Waits, At, Actions, NoOp

\* Recovery releases a reservation nobody is going to use.
LEMMA RecoversDoes ==
  ASSUME CursorInv, NEW a \in Attempts, Recovers(a)
  PROVE  Typed' /\ Others(a) /\ Fine(a)' /\ Shows(a) /\ op' = op
<1>1. /\ UNCHANGED <<op, ledger, hkey, svc, wire, runs, cancels, waiting, reply>>
      /\ Fine(a) /\ op[a] = NoOp
      /\ \E ok \in BOOLEAN : ReleaseRetirementReservation(a, file[a].key, ok)
  BY DEF Recovers, NoBridge, bridgeVars, service, network, CursorInv, Resumable
<1>2. file' = file \/ (Wrote(a) /\ Agrees(a)')
  BY <1>1, Releases
<1>3. Typed' /\ Others(a)
  BY <1>1, <1>2 DEF CursorInv, Typed, Others, Same, Wrote
<1>4. CASE file' = file
  BY <1>1, <1>3, <1>4, SameStays DEF Same
<1>5. CASE Wrote(a) /\ Agrees(a)'
  <2>1. waiting'[a] = NoRequest /\ reply'[a] = "none"
    BY <1>1 DEF Fine, Doing, Waits, NoOp
  <2> QED
    BY <1>1, <1>3, <1>5, <2>1, IdleDoing DEF Wrote, Fine
<1> QED
  BY <1>1, <1>2, <1>3, <1>4, <1>5

\* Every step of an operation.
LEMMA OperationStepDoes ==
  ASSUME CursorInv, NEW a \in Attempts, OperationStep(a)
  PROVE  Does(a) /\ op[a].name # "none" /\ op[a].pc # "answer"
<1>1. Does(a)
  BY LaunchReservesDoes, LaunchCallsDoes, LaunchAnsweredDoes, OwnsDoes, ReconcileReadsDoes,
     ReconcileLooksDoes, ActionReadsDoes, ActionLooksDoes, ActionInspectsDoes, ReadsRunDoes,
     PromptBeginsDoes, PromptCallsDoes, PromptAnsweredDoes, PromptCommitsDoes,
     PromptRestoresDoes, InterruptBeginsDoes, InterruptCallsDoes, InterruptAnsweredDoes,
     InterruptRestoresDoes, PrepareReadsDoes, PrepareReservesDoes, UnpreparesDoes,
     RetireReadsDoes, RetireReservesDoes, RetireLooksDoes, RetireInspectsDoes,
     RetireBeginsDoes, RetireMarksDoes, RetireSendsDoes, RetireAnsweredDoes,
     RetireRecordsDoes, RetireBlockedDoes
     DEF OperationStep
<1>2. op[a].name # "none" /\ op[a].pc # "answer"
  BY DEF OperationStep, LaunchReserves, LaunchCalls, LaunchAnswered, Owns, ReconcileReads,
         ReconcileLooks, ActionReads, ActionLooks, ActionInspects, ReadsRun, PromptBegins,
         PromptCalls, PromptAnswered, PromptCommits, PromptRestores, InterruptBegins,
         InterruptCalls, InterruptAnswered, InterruptRestores, PrepareReads, PrepareReserves,
         Unprepares, RetireReads, RetireReserves, RetireLooks, RetireInspects, RetireBegins,
         RetireMarks, RetireSends, RetireAnswered, RetireRecords, RetireBlocked, At, Actions
<1> QED
  BY <1>1, <1>2

\* Every step of the coordinator and the registry.
LEMMA HostStepDoes ==
  ASSUME CursorInv, NEW a \in Attempts, HostStep(a)
  PROVE  Does(a) /\ (op' = op \/ op[a].name # "none" \/ life = "up")
<1>1. Does(a)
  BY HostLaunchesDoes, HostCallsDoes, HostTakesDoes, HostGivesUpPreparingDoes,
     HostFinalizesDoes, DiscoversDoes, AbortedDoes
     DEF HostStep
<1>2. op' = op \/ op[a].name # "none" \/ life = "up"
  BY DEF HostStep, HostLaunches, HostReconciles, HostPrepares, HostRetires, HostActs, Calls, Free,
         HostTakes, HostGivesUpPreparing, HostFinalizes, Discovers, Aborted
<1> QED
  BY <1>1, <1>2

\* A step of one launch.
LEMMA LaunchStepKeeps ==
  ASSUME CursorInv, NEW a \in Attempts,
         OperationStep(a) \/ HostStep(a) \/ OutsideStep(a) \/ Recovers(a)
  PROVE  CursorInv' /\ \A b \in Attempts : Shows(b)
<1>1. Typed' /\ Others(a) /\ Fine(a)' /\ Shows(a)
  BY OperationStepDoes, HostStepDoes, OutsideStepDoes, RecoversDoes DEF Does
<1>2. \A b \in Attempts : Fine(b)' /\ Shows(b)
  BY <1>1, SameStays DEF CursorInv, Others
<1>3. Resumable'
  <2>1. CASE OperationStep(a)
    <3>1. life' = life /\ op[a].name # "none"
      BY <2>1, OperationStepDoes DEF Does
    <3> QED
      BY <3>1 DEF CursorInv, Resumable, NoOp
  <2>2. CASE HostStep(a)
    <3>1. life' = life /\ (op' = op \/ op[a].name # "none" \/ life = "up")
      BY <2>2, HostStepDoes DEF Does
    <3>2. life \in {"down", "recovering"} => op[a] = NoOp
      BY DEF CursorInv, Resumable
    <3>3. life \in {"down", "recovering"} => op' = op
      BY <3>1, <3>2 DEF NoOp
    <3> QED
      BY <3>1, <3>3 DEF CursorInv, Resumable
  <2>3. CASE OutsideStep(a)
    BY <2>3, HostStays DEF CursorInv, Resumable, hostVars
  <2>4. CASE Recovers(a)
    BY <2>4 DEF Recovers, CursorInv, Resumable
  <2> QED
    BY <2>1, <2>2, <2>3, <2>4
<1> QED
  BY <1>1, <1>2, <1>3 DEF CursorInv

\* The process starts, or closes, or stands still.
LEMMA ProcessStepKeeps ==
  ASSUME CursorInv, Opens \/ Recovered \/ Closes \/ UNCHANGED adapterVars
  PROVE  CursorInv' /\ \A b \in Attempts : Shows(b)
<1>1. UNCHANGED <<file, op, ledger, hkey, svc, wire, runs, cancels, waiting, reply>>
  BY DEF Opens, Recovered, Closes, NoBridge, adapterVars, hostVars, bridgeVars, service, network
<1>2. Typed' /\ \A b \in Attempts : Same(b)
  BY <1>1 DEF CursorInv, Typed, Same
<1>3. Resumable'
  BY <1>1 DEF Opens, Recovered, Closes, CursorInv, Resumable, adapterVars, hostVars
<1> QED
  BY <1>2, <1>3, SameStays DEF CursorInv

\* The process has ended: what the client knew is gone, and no operation goes on.
LEMMA EndKeeps ==
  ASSUME CursorInv, Closed \/ Dies
  PROVE  CursorInv' /\ \A b \in Attempts : Shows(b)
<1>1. /\ UNCHANGED <<file, hkey, svc, wire, runs, cancels>> /\ life' = "down"
      /\ waiting' = [a \in Attempts |-> NoRequest] /\ reply' = [a \in Attempts |-> "none"]
  BY DEF Closed, Dies, ClientForgets, service
<1>2. /\ op' \in [Attempts -> Ops] /\ \A a \in Attempts : op'[a] = NoOp
      /\ ledger' = [a \in Attempts |-> ledger'[a]]
      /\ \A a \in Attempts : \/ ledger'[a] = ledger[a]
                             \/ ledger[a] = "creating" /\ ledger'[a] = "uncertain"
  BY NoOpIsOne DEF Closed, Dies, CursorInv, Typed
<1>3. Typed' /\ Resumable'
  BY <1>1, <1>2 DEF CursorInv, Typed, Resumable
<1>4. ASSUME NEW a \in Attempts
      PROVE  Fine(a)' /\ Shows(a)
  <2>1. Filed(a)' /\ OnWire(a)' /\ Prompted(a)' /\ Shows(a)
    BY <1>1, WorldStays DEF CursorInv, Fine, Shows
  <2>2. Doing(a)'
    BY <1>1, <1>2, IdleDoing
  <2>3. Agrees(a)'
    BY <1>1, <1>2 DEF CursorInv, Fine, Agrees, NoOp
  <2> QED
    BY <2>1, <2>2, <2>3 DEF Fine
<1> QED
  BY <1>3, <1>4 DEF CursorInv

\* It holds at the start.
LEMMA CursorStarts == AdapterInit => CursorInv
<1> SUFFICES ASSUME AdapterInit
             PROVE  CursorInv
  OBVIOUS
<1>1. Typed
  BY NoOpIsOne, AbsentRecord
     DEF AdapterInit, ProvenanceInit, BridgeInit, Typed
<1>2. Resumable
  BY DEF AdapterInit, Resumable
<1>3. ASSUME NEW a \in Attempts
      PROVE  Fine(a)
  <2>1. /\ file[a] = Absent /\ svc[a] = "none" /\ wire[a] = {} /\ op[a] = NoOp
        /\ waiting[a] = NoRequest /\ reply[a] = "none" /\ ledger[a] = "none"
        /\ \A r \in Runs : runs[a][r] = "none" /\ cancels[a][r] = 0
    BY DEF AdapterInit, ProvenanceInit, BridgeInit
  <2>2. Started(a) = {} /\ LiveRuns(a) = {} /\ ~Deleting(a)
    BY <2>1 DEF Started, LiveRuns, Deleting
  <2>3. Filed(a) /\ OnWire(a)
    BY <2>1, <2>2, AbsentRecord DEF Filed, OnWire, Absent
  <2>4. Prompted(a)
    <3>1. file[a].run = 0 /\ 1..0 = {}
      BY <2>1 DEF Absent, NoRun
    <3> QED
      BY <2>1, <2>2, <3>1 DEF Prompted, Known
  <2>5. Doing(a)
    BY <2>1
       DEF Doing, Launching, Acting, Preparing, Retiring, Telling, Waits, At, Actions, NoOp
  <2>6. Agrees(a)
    BY <2>1 DEF Agrees, NoOp, Absent
  <2> QED
    BY <2>3, <2>4, <2>5, <2>6 DEF Fine
<1> QED
  BY <1>1, <1>2, <1>3 DEF CursorInv

\* And every step keeps it, and does to each agent what the provider shows.
LEMMA CursorSteps ==
  ASSUME CursorInv, [AdapterNext]_adapterVars
  PROVE  CursorInv' /\ \A a \in Attempts : Shows(a)
<1>1. CASE \E a \in Attempts : OperationStep(a) \/ HostStep(a) \/ OutsideStep(a) \/ Recovers(a)
  BY <1>1, LaunchStepKeeps
<1>2. CASE Opens \/ Recovered \/ Closes \/ UNCHANGED adapterVars
  BY <1>2, ProcessStepKeeps
<1>3. CASE Closed \/ Dies
  BY <1>3, EndKeeps
<1> QED
  BY <1>1, <1>2, <1>3 DEF AdapterNext

\* What the record of a launch says of its agent, its requests and its runs,
\* what the operation under way has made sure of and what the ledger adds hold
\* in every state, whatever is lost, refused, aborted or cut short.
THEOREM CursorInvariant == AdapterSpec => []CursorInv
  BY CursorStarts, CursorSteps, PTL DEF AdapterSpec

-----------------------------------------------------------------------------
(* What follows from it.                                                    *)

\* However a prompt is lost, aborted or interrupted by the end of the process,
\* the agent it was meant for never works on two runs.
THEOREM AgentsWorkOnOneRun == AdapterSpec => []OneLiveRun
<1>1. CursorInv => OneLiveRun
  <2> SUFFICES ASSUME CursorInv, NEW a \in Attempts
               PROVE  Cardinality(LiveRuns(a)) <= 1
    BY DEF OneLiveRun
  <2>1. \A r, s \in LiveRuns(a) : r = s
    BY DEF CursorInv, Fine, Prompted
  <2>2. CASE LiveRuns(a) = {}
    BY <2>2, FS_EmptySet
  <2>3. CASE LiveRuns(a) # {}
    <3>1. PICK r \in LiveRuns(a) : LiveRuns(a) = {r}
      BY <2>1, <2>3
    <3>2. Cardinality({r}) = 1
      BY FS_Singleton
    <3> QED
      BY <3>1, <3>2
  <2> QED
    BY <2>2, <2>3
<1> QED
  BY <1>1, CursorInvariant, PTL

\* A run is asked to end at most once, unless the bridge has refused.
THEOREM RunsAreCancelledOnce == AdapterSpec => []CancelOnce
<1>1. CursorInv => CancelOnce
  BY DEF CursorInv, Fine, Prompted, CancelOnce
<1> QED
  BY <1>1, CursorInvariant, PTL

\* What the coordinator has on file is true of the bridge and of the adapter's
\* own file.
THEOREM LedgerIsTrue == AdapterSpec => []LedgerTellsTruth
<1>1. CursorInv => LedgerTellsTruth
  BY DEF CursorInv, Fine, Filed, Agrees, LedgerTellsTruth
<1> QED
  BY <1>1, CursorInvariant, PTL

\* An agent is deleted only behind the fence that survives a crash, with nothing
\* running on it and nothing under way that could start a run.
THEOREM AgentsAreDeletedIdle == AdapterSpec => DeletesIdle
<1>1. CursorInv /\ [AdapterNext]_adapterVars =>
        [\A a \in Attempts :
           svc[a] = "live" /\ svc'[a] = "deleted" =>
             /\ file[a].state = "retiring" /\ file[a].del = "yes"
             /\ LiveRuns(a) = {} /\ Ask("send") \notin wire[a]]_adapterVars
  <2> SUFFICES ASSUME CursorInv, [AdapterNext]_adapterVars, NEW a \in Attempts,
                      svc[a] = "live", svc'[a] = "deleted"
               PROVE  /\ file[a].state = "retiring" /\ file[a].del = "yes"
                      /\ LiveRuns(a) = {} /\ Ask("send") \notin wire[a]
    OBVIOUS
  <2>1. Shows(a)
    BY CursorSteps
  <2> QED
    BY <2>1 DEF Shows, Stays, Creating, Reserving, Releasing, Removing, Forgetting, Fenced
<1> QED
  BY <1>1, CursorInvariant, PTL DEF AdapterSpec, DeletesIdle

-----------------------------------------------------------------------------
(* The adapter is a launch provider.                                        *)

\* What the provider shows of one launch.
Agent(a) ==
  CASE svc[a] # "deleted" -> svc[a]
    [] svc[a] = "deleted" /\ file[a].state # "absent" -> "gone"
    [] OTHER -> "forgotten"
Held(a) == IF svc[a] = "live" THEN file[a].key ELSE NoKey
Told(a) ==
  IF op[a].pc # "answer" THEN "silent"
  ELSE IF op[a].answer \in {"done", "conflict"} THEN "vague"
  ELSE op[a].answer

\* An agent is there, or not yet, or not any more.
AgentStates == \A a \in Attempts : svc[a] \in {"none", "live", "deleted"}

\* It is in one of these states throughout.
LEMMA AgentStatesHold == AdapterSpec => []AgentStates
<1>1. AdapterInit => AgentStates
  BY DEF AdapterInit, BridgeInit, AgentStates
<1>2. CursorInv /\ AgentStates /\ [AdapterNext]_adapterVars => AgentStates'
  <2> SUFFICES ASSUME CursorInv, AgentStates, [AdapterNext]_adapterVars, NEW a \in Attempts
               PROVE  svc'[a] \in {"none", "live", "deleted"}
    BY DEF AgentStates
  <2>1. Shows(a)
    BY CursorSteps
  <2> QED
    BY <2>1
       DEF AgentStates, Shows, Stays, Creating, Reserving, Releasing, Removing, Forgetting
<1> QED
  BY <1>1, <1>2, CursorInvariant, PTL DEF AdapterSpec

\* The values the contract speaks of, after a step.
LEMMA ShownTyped ==
  ASSUME CursorInv', AgentStates', NEW a \in Attempts
  PROVE  /\ Agent(a)' \in {"none", "live", "gone", "forgotten"}
         /\ Held(a)' \in Keys \cup {NoKey}
         /\ Told(a)' \in {"silent", "owned", "prepared", "released", "blocked", "retired", "vague"}
<1>1. svc'[a] \in {"none", "live", "deleted"} /\ file'[a] \in Records /\ op'[a] \in Ops
  BY DEF CursorInv, Typed, AgentStates
<1>2. file'[a].key \in Keys \cup {NoKey} /\ op'[a].answer \in Results
  BY <1>1 DEF Records, Ops
<1> QED
  BY <1>1, <1>2 DEF Agent, Held, Told, Results

\* What a step does to an agent is what the contract has.
LEMMA ShowsProvided ==
  ASSUME CursorInv, CursorInv', NEW a \in Attempts, Shows(a)
  PROVE  \/ Agent(a) = "none" /\ Agent(a)' = "live" /\ Held(a)' = Held(a)
         \/ /\ Agent(a) = "live" /\ Agent(a)' = "live"
            /\ Held(a) = NoKey /\ Held(a)' \in Keys
         \/ /\ Agent(a) = "live" /\ Agent(a)' = "live"
            /\ Held(a) # NoKey /\ Held(a)' = NoKey
         \/ /\ Agent(a) = "live" /\ Agent(a)' = "gone"
            /\ Held(a) # NoKey /\ Held(a)' = NoKey
         \/ Agent(a) = "gone" /\ Agent(a)' = "forgotten" /\ Held(a)' = Held(a)
         \/ Agent(a)' = Agent(a) /\ Held(a)' = Held(a)
<1>1. CASE Stays(a)
  BY <1>1 DEF Stays, Agent, Held
<1>2. CASE Creating(a)
  BY <1>2 DEF Creating, Agent, Held
<1>3. CASE Reserving(a)
  <2>1. file'[a].key \in Keys \cup {NoKey}
    BY DEF CursorInv, Typed, Records
  <2> QED
    BY <1>3, <2>1 DEF Reserving, Agent, Held
<1>4. CASE Releasing(a)
  BY <1>4 DEF Releasing, Agent, Held
<1>5. CASE Removing(a)
  <2>1. file[a].key # NoKey
    BY <1>5 DEF Removing, Fenced, CursorInv, Fine, Filed, ValidRecord
  <2> QED
    BY <1>5, <2>1 DEF Removing, Fenced, Agent, Held
<1>6. CASE Forgetting(a)
  BY <1>6 DEF Forgetting, Agent, Held
<1> QED
  BY <1>1, <1>2, <1>3, <1>4, <1>5, <1>6 DEF Shows

\* An answer stands until the coordinator has taken it.
LEMMA AnswersStand ==
  ASSUME CursorInv, [AdapterNext]_adapterVars, NEW a \in Attempts, op[a].pc = "answer"
  PROVE  op'[a] = op[a] \/ op'[a].pc # "answer" \/ op'[a].answer = "silent"
<1>1. CASE UNCHANGED adapterVars \/ Opens \/ Recovered \/ Closes \/ Closed
  BY <1>1 DEF adapterVars, Opens, Recovered, Closes, Closed
<1>2. CASE Dies
  BY <1>2 DEF Dies, NoOp
<1>3. ASSUME NEW b \in Attempts, b # a,
             OperationStep(b) \/ HostStep(b) \/ OutsideStep(b) \/ Recovers(b)
      PROVE  op'[a] = op[a]
  BY <1>3, OperationStepDoes, HostStepDoes, OutsideStepDoes, RecoversDoes DEF Does, Others, Same
<1>4. CASE OperationStep(a)
  BY <1>4, OperationStepDoes
<1>5. CASE OutsideStep(a) \/ Recovers(a)
  BY <1>5 DEF OutsideStep, Recovers
<1>6. CASE HostStep(a)
  <2>1. ASSUME NEW name, NEW pc, NEW key, Calls(a, name, pc, key), pc # "answer"
        PROVE  op'[a].pc # "answer"
    <3>1. op' = [op EXCEPT ![a] = New(name, pc, key)] /\ a \in DOMAIN op
      BY <2>1 DEF Calls, CursorInv, Typed
    <3> QED
      BY <2>1, <3>1 DEF New, NoOp
  <2>2. CASE \/ HostLaunches(a) \/ HostReconciles(a) \/ HostRetires(a)
             \/ \E k \in Keys : HostPrepares(a, k)
             \/ \E name \in Actions : HostActs(a, name)
    BY <2>1, <2>2 DEF HostLaunches, HostReconciles, HostRetires, HostPrepares, HostActs
  <2>3. CASE HostTakes(a)
    <3>1. op'[a] = NoOp \/ op'[a] = New("unprepare", "release", op[a].key)
      BY <2>3 DEF HostTakes, CursorInv, Typed
    <3>2. NoOp.answer = "silent" /\ New("unprepare", "release", op[a].key).pc # "answer"
      BY DEF New, NoOp
    <3> QED
      BY <3>1, <3>2
  <2>4. CASE HostGivesUpPreparing(a) \/ HostFinalizes(a) \/ Discovers(a) \/ Aborted(a)
    BY <2>4 DEF HostGivesUpPreparing, HostFinalizes, Discovers, Aborted
  <2> QED
    BY <1>6, <2>2, <2>3, <2>4 DEF HostStep
<1> QED
  BY <1>1, <1>2, <1>3, <1>4, <1>5, <1>6 DEF AdapterNext

\* And what is answered is true of the agent, after a step.
LEMMA AnswersAreTrue ==
  ASSUME CursorInv', NEW a \in Attempts
  PROVE  /\ Told(a)' = "owned" => Agent(a)' = "live"
         /\ Told(a)' = "prepared" => Agent(a)' = "live" /\ Held(a)' # NoKey
         /\ Told(a)' \in {"released", "blocked"} => Agent(a)' = "live" /\ Held(a)' = NoKey
         /\ Told(a)' = "retired" => Agent(a)' = "gone" /\ Held(a)' = NoKey
<1>1. Telling(a)' /\ Filed(a)'
  BY DEF CursorInv, Fine, Doing
<1> QED
  BY <1>1 DEF Telling, Filed, Told, Agent, Held

\* A step of the adapter is a step the contract allows, for each launch.
LEMMA StepsProvided ==
  ASSUME CursorInv, AgentStates, [AdapterNext]_adapterVars
  PROVE  Provider!ProviderNext
<1> DEFINE agent == [a \in Attempts |-> Agent(a)]
           reserved == [a \in Attempts |-> Held(a)]
           told == [a \in Attempts |-> Told(a)]
<1>1. CursorInv' /\ \A a \in Attempts : Shows(a)
  BY CursorSteps
<1>2. AgentStates'
  BY <1>1 DEF AgentStates, Shows, Stays, Creating, Reserving, Releasing, Removing, Forgetting
<1>3. /\ agent' \in [Attempts -> {"none", "live", "gone", "forgotten"}]
      /\ reserved' \in [Attempts -> Keys \cup {NoKey}]
      /\ told' \in [Attempts -> Provider!Answers]
  BY <1>1, <1>2, ShownTyped DEF Provider!Answers
<1>4. ASSUME NEW a \in Attempts
      PROVE  /\ \/ Agent(a) = "none" /\ Agent(a)' = "live" /\ Held(a)' = Held(a)
                \/ /\ Agent(a) = "live" /\ Agent(a)' = "live"
                   /\ Held(a) = NoKey /\ Held(a)' \in Keys
                \/ /\ Agent(a) = "live" /\ Agent(a)' = "live"
                   /\ Held(a) # NoKey /\ Held(a)' = NoKey
                \/ /\ Agent(a) = "live" /\ Agent(a)' = "gone"
                   /\ Held(a) # NoKey /\ Held(a)' = NoKey
                \/ Agent(a) = "gone" /\ Agent(a)' = "forgotten" /\ Held(a)' = Held(a)
                \/ Agent(a)' = Agent(a) /\ Held(a)' = Held(a)
             /\ \/ Told(a)' = Told(a)
                \/ Told(a) # "silent" /\ Told(a)' = "silent"
                \/ Told(a) = "silent"
  <2>1. Told(a) # "silent" => Told(a)' \in {Told(a), "silent"}
    <3>1. op[a].pc = "answer" =>
            op'[a] = op[a] \/ op'[a].pc # "answer" \/ op'[a].answer = "silent"
      BY AnswersStand
    <3> QED
      BY <3>1 DEF Told
  <2> QED
    BY <1>1, <2>1, ShowsProvided
<1>5. ASSUME NEW a \in Attempts
      PROVE  Provider!ProviderStep(a)
  <2>1. /\ agent[a] = Agent(a) /\ agent'[a] = Agent(a)'
        /\ reserved[a] = Held(a) /\ reserved'[a] = Held(a)'
        /\ told[a] = Told(a) /\ told'[a] = Told(a)'
    OBVIOUS
  <2>2. /\ Told(a)' = "owned" => Agent(a)' = "live"
        /\ Told(a)' = "prepared" => Agent(a)' = "live" /\ Held(a)' # NoKey
        /\ Told(a)' \in {"released", "blocked"} => Agent(a)' = "live" /\ Held(a)' = NoKey
        /\ Told(a)' = "retired" => Agent(a)' = "gone" /\ Held(a)' = NoKey
    BY <1>1, AnswersAreTrue
  <2>3. told'[a] \in Provider!Answers
    BY <1>3
  <2> HIDE DEF agent, reserved, told
  <2>4. Provider!Speaks(a)
    BY <1>4, <2>1, <2>2, <2>3
       DEF Provider!Speaks, Provider!Truthful, agent, reserved, told, Agent, Held, Told
  <2> QED
    BY <1>4, <2>1, <2>4
       DEF Provider!ProviderStep, Provider!Created, Provider!Reserved, Provider!Released,
           Provider!Deleted, Provider!Forgotten, agent, reserved, told, Agent, Held, Told
<1> QED
  BY <1>3, <1>5 DEF Provider!ProviderNext, Agent, Held, Told

\* The contract's initial states.
LEMMA StartsProvided == AdapterInit => Provider!ProviderInit
<1> SUFFICES ASSUME AdapterInit
             PROVE  Provider!ProviderInit
  OBVIOUS
<1>1. \A a \in Attempts : svc[a] = "none" /\ op[a] = NoOp
  BY DEF AdapterInit, BridgeInit
<1>2. NoOp.pc = "answer" /\ NoOp.answer = "silent"
  BY DEF NoOp
<1> QED
  BY <1>1, <1>2 DEF Provider!ProviderInit

\* The adapter implements the launch provider the coordinator relies on: what
\* it tells is true when it is told, an agent is created once, deleted only
\* under a reservation, and forgotten only after it is gone.
THEOREM AdapterProvides == AdapterSpec => ImplementsProvider
<1>1. CursorInv /\ AgentStates /\ [AdapterNext]_adapterVars =>
        [Provider!ProviderNext]_Provider!providerVars
  BY StepsProvided
<1> QED
  BY <1>1, StartsProvided, CursorInvariant, AgentStatesHold, PTL
     DEF AdapterSpec, ImplementsProvider, Provider!ProviderSpec
=============================================================================
