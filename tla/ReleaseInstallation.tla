-------------------------- MODULE ReleaseInstallation --------------------------
(***************************************************************************)
(* installRelease, rollbackRelease, uninstallRelease and recoverTransaction *)
(* of installation.js, by several processes under the lock of InstallLock.  *)
(*                                                                         *)
(* A command is a list of changes to the files below, made one at a time;   *)
(* each may fail, before it is made or after (a rename done, the directory  *)
(* not synced), and the process may die between any two.  What a change     *)
(* writes is on disk when the next one begins: the code syncs it.           *)
(***************************************************************************)
EXTENDS InstallLock, Sequences

CONSTANTS
  Versions, None,
  Fails,            \* may a file operation fail?
  UninstallDies     \* may uninstall stop half way, by an error or a death?

ASSUME InstallationAssumption ==
  /\ None \notin Versions /\ {Fails, UninstallDies} \subseteq BOOLEAN

VARIABLES
  disk,   \* current (a link), launcher, install-state.json,
          \* install-transaction.json and the directory releases
  job     \* per process: its command and what it still has to do

installationVars == <<lockVars, disk, job>>

NoState == [current |-> None, previous |-> None]
NoTx == [from |-> None, to |-> None]
Fresh == [link |-> None, launcher |-> FALSE, state |-> NoState, tx |-> NoTx,
          releases |-> {}]

Disks == [link: Versions \cup {None}, launcher: BOOLEAN,
          state: [current: Versions \cup {None}, previous: Versions \cup {None}],
          tx: [from: Versions \cup {None}, to: Versions \cup {None}],
          releases: SUBSET Versions]

Commands == {"install", "rollback", "uninstall"}
Phases == {"open", "recover", "begin", "stage", "activate", "restore", "clear", "remove",
           "done", "failed"}
NoJob == [cmd |-> "install", version |-> None, phase |-> "open", todo |-> <<>>,
          was |-> NoState]

InstallationInit ==
  /\ LockInit
  /\ disk = Fresh
  /\ job = [p \in Procs |-> NoJob]

\* A change: the part of the disk, and what it becomes.
Set(part, value) == [part |-> part, value |-> value]
Made(change) == [disk EXCEPT ![change.part] = change.value]

\* switchCurrent and writeLauncher; removeCurrentAndLauncher.
PointTo(v) == <<Set("link", v), Set("launcher", TRUE)>>
PointNowhere == <<Set("link", None), Set("launcher", FALSE)>>
ClearTransaction == <<Set("tx", NoTx)>>

\* What validateReleaseSource looks at.
Present(v) == v \in disk.releases

-----------------------------------------------------------------------------
(* What each phase has to do, and what it goes on to.                       *)

\* Variant: a transaction is always undone.
UndoneTarget(d) == d.tx.from

\* The release a pending transaction is finished or undone to, or None.
RecoveryTarget(d) == IF d.state.current = d.tx.to THEN d.tx.to ELSE d.tx.from

Recoverable(d) ==
  d.tx # NoTx /\ RecoveryTarget(d) # None => RecoveryTarget(d) \in d.releases

Recovery(d) ==
  IF d.tx = NoTx THEN <<>>
  ELSE (IF RecoveryTarget(d) = None THEN PointNowhere ELSE PointTo(RecoveryTarget(d)))
       \o ClearTransaction

Activation(v, previous) ==
  PointTo(v) \o <<Set("state", [current |-> v, previous |-> previous])>>

\* Variant: the link is put back and the state is not.
RestorationOfLink(was) ==
  IF was.current # None THEN PointTo(was.current) ELSE PointNowhere

\* restorePrevious
Restoration(was) ==
  <<Set("state", was)>> \o
  (IF was.current # None THEN PointTo(was.current) ELSE PointNowhere)

Removal ==
  <<Set("launcher", FALSE), Set("releases", {}), Set("link", None),
    Set("state", NoState), Set("tx", NoTx)>>

\* previous of the state that install writes
Previous(was, v) ==
  IF was.current \notin {None, v} THEN was.current ELSE was.previous

Phase(p, phase, todo) == job' = [job EXCEPT ![p].phase = phase, ![p].todo = todo]

\* A step of the process that holds the lock.
Working(p, phase) == at[p] = "in" /\ job[p].phase = phase /\ UNCHANGED lockVars
Ready(p, phase) == Working(p, phase) /\ job[p].todo = <<>>

Begins(p) ==
  /\ Takes(p) /\ UNCHANGED disk
  /\ \E cmd \in Commands, v \in Versions :
       job' = [job EXCEPT ![p] = [NoJob EXCEPT !.cmd = cmd, !.version = v]]

\* recoverTransaction; validateRecoveryTarget comes before any change.
Recovers(p) ==
  /\ Ready(p, "open") /\ UNCHANGED disk
  /\ IF Recoverable(disk) THEN Phase(p, "recover", Recovery(disk))
     ELSE Phase(p, "failed", <<>>)

Recovered(p) ==
  /\ Ready(p, "recover") /\ UNCHANGED disk
  /\ job' = [job EXCEPT ![p].phase = "begin", ![p].was = disk.state]

\* Variant: a release is not copied when any is there.
InstallStagesUncopied(p) ==
  /\ Ready(p, "begin") /\ job[p].cmd = "install" /\ UNCHANGED disk
  /\ IF disk.state = NoState /\ disk.link # None THEN Phase(p, "failed", <<>>)
     ELSE Phase(p, "stage",
                (IF disk.releases # {} THEN <<>> ELSE <<Set("releases", {job[p].version})>>)
                \o <<Set("tx", [from |-> disk.state.current, to |-> job[p].version])>>)

\* The release is copied to a staging name and renamed, unless it is there.
\* A link without a state is not replaced.
InstallStages(p) ==
  /\ Ready(p, "begin") /\ job[p].cmd = "install" /\ UNCHANGED disk
  /\ IF disk.state = NoState /\ disk.link # None THEN Phase(p, "failed", <<>>)
     ELSE Phase(p, "stage",
                <<Set("releases", disk.releases \cup {job[p].version}),
                  Set("tx", [from |-> disk.state.current, to |-> job[p].version])>>)

RollbackStages(p) ==
  /\ Ready(p, "begin") /\ job[p].cmd = "rollback" /\ UNCHANGED disk
  /\ LET to == disk.state.previous
     IN  IF to = None \/ ~Present(to) THEN Phase(p, "failed", <<>>)
         ELSE job' = [job EXCEPT ![p].phase = "stage", ![p].version = to,
                        ![p].todo = <<Set("tx", [from |-> disk.state.current, to |-> to])>>]

UninstallBegins(p) ==
  /\ Ready(p, "begin") /\ job[p].cmd = "uninstall" /\ UNCHANGED disk
  /\ IF disk.state = NoState THEN Phase(p, "done", <<>>) ELSE Phase(p, "remove", Removal)

Activates(p) ==
  /\ Ready(p, "stage") /\ UNCHANGED disk
  /\ Phase(p, "activate",
           Activation(job[p].version,
                      IF job[p].cmd = "rollback" THEN job[p].was.current
                      ELSE Previous(job[p].was, job[p].version)))

Activated(p) ==
  /\ Ready(p, "activate") /\ UNCHANGED disk /\ Phase(p, "clear", ClearTransaction)

Finishes(p) ==
  /\ UNCHANGED disk
  /\ \/ (Ready(p, "clear") \/ Ready(p, "remove")) /\ Phase(p, "done", <<>>)
     \/ Ready(p, "restore") /\ Phase(p, "failed", <<>>)

-----------------------------------------------------------------------------
(* A change is made, or it fails.                                           *)

\* How far an uninstall may be cut short is a constant of the model.
MayStop(p) == UninstallDies \/ job[p].phase # "remove"

Changes(p) ==
  /\ at[p] = "in" /\ job[p].todo # <<>>
  /\ disk' = Made(Head(job[p].todo))
  /\ job' = [job EXCEPT ![p].todo = Tail(@)]
  /\ UNCHANGED lockVars

\* rm of the releases, one after the other.
RemovesRelease(p) ==
  /\ Working(p, "remove") /\ job[p].todo # <<>> /\ Head(job[p].todo).part = "releases"
  /\ \E v \in disk.releases : disk' = [disk EXCEPT !.releases = @ \ {v}]
  /\ UNCHANGED job

\* Only an activation is undone; when that fails as well, or anything else
\* does, a transaction is left to the next command.
Breaks(p) ==
  /\ Fails /\ MayStop(p) /\ at[p] = "in" /\ job[p].todo # <<>>
  /\ disk' \in {disk, Made(Head(job[p].todo))}
  /\ IF job[p].phase = "activate"
     THEN Phase(p, "restore", Restoration(job[p].was) \o ClearTransaction)
     ELSE Phase(p, "failed", <<>>)
  /\ UNCHANGED lockVars

\* So may what is only read: the state, the release, the launcher's directory.
Refused(p) ==
  /\ Fails /\ (Ready(p, "open") \/ Ready(p, "begin"))
  /\ Phase(p, "failed", <<>>) /\ UNCHANGED disk

Ends(p) ==
  /\ job[p].phase \in {"done", "failed"} /\ Leaves(p)
  /\ job' = [job EXCEPT ![p] = NoJob] /\ UNCHANGED disk
Stops(p) ==
  /\ MayStop(p) /\ Dies(p)
  /\ job' = [job EXCEPT ![p] = NoJob] /\ UNCHANGED disk
Locks(p) == LockStep(p) /\ UNCHANGED <<disk, job>>

InstallationNext ==
  \E p \in Procs :
    \/ Locks(p) \/ Begins(p) \/ Recovers(p) \/ Recovered(p)
    \/ InstallStages(p) \/ RollbackStages(p) \/ UninstallBegins(p)
    \/ Activates(p) \/ Activated(p) \/ Finishes(p)
    \/ Changes(p) \/ RemovesRelease(p) \/ Breaks(p) \/ Refused(p) \/ Ends(p) \/ Stops(p)

InstallationSpec == InstallationInit /\ [][InstallationNext]_installationVars

-----------------------------------------------------------------------------
InstallationTypeOK ==
  /\ LockTypeOK /\ disk \in Disks
  /\ \A p \in Procs :
       /\ job[p].cmd \in Commands /\ job[p].phase \in Phases
       /\ job[p].version \in Versions \cup {None}
       /\ \A i \in DOMAIN job[p].todo : Made(job[p].todo[i]) \in Disks

Removing == \E p \in Procs : at[p] = "in" /\ job[p].phase = "remove"

\* docs/install.md: a release "is staged before the atomic current pointer
\* changes", and a rollback goes to the previous one.  Whatever is interrupted,
\* undone or recovered, the link a service starts from names a complete
\* release, and so does the previous of the state file, which is another one
\* (switchCurrent and its callers).
ReferencesRun ==
  /\ ~Removing /\ disk.link # None => Present(disk.link)
  /\ ~Removing /\ disk.state.previous # None =>
       Present(disk.state.previous) /\ disk.state.previous # disk.state.current

\* When no transaction is pending and nobody is at work, the link, the
\* launcher and the state say the same (recoverTransaction, restorePrevious):
\* a crash between two of their changes is always noticed by the next command.
Settled ==
  disk.tx = NoTx /\ (\A p \in Procs : at[p] # "in") =>
    IF disk.state = NoState THEN disk.link = None /\ ~disk.launcher
    ELSE disk.link = disk.state.current /\ disk.launcher

\* "rerun the install command to recover the pending transaction"
\* (installRelease): no command is refused by validateRecoveryTarget.
NeverStuck == (\A p \in Procs : at[p] # "in") => Recoverable(disk)

\* A command that undid what it had changed leaves what it found, and one
\* that reports success leaves what it was asked for (installRelease and
\* rollbackRelease), whoever was there before and whoever comes after.
TellsTheTruth ==
  [][\A p \in Procs :
       /\ job[p].phase = "restore" /\ job'[p].phase = "failed" /\ job[p].todo = <<>> =>
            /\ disk.state = job[p].was /\ disk.link = job[p].was.current /\ disk.tx = NoTx
       /\ job[p].phase = "clear" /\ job'[p].phase = "done" =>
            /\ disk.link = job[p].version /\ disk.state.current = job[p].version
            /\ disk.launcher /\ disk.tx = NoTx]_installationVars
=============================================================================
