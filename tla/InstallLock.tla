------------------------------ MODULE InstallLock ------------------------------
(***************************************************************************)
(* withInstallLock of installation.js: the directory .install-lock with a   *)
(* file owner.json in it, made by whoever installs, updates, rolls back or  *)
(* uninstalls a release, and taken over from a process that is dead.        *)
(*                                                                         *)
(* Each file system call is a step.  A process takes the lock at most once; *)
(* it may die between any two steps.  A lock that is taken over is moved    *)
(* to a name made of its inode number and stays there, so that the same     *)
(* lock is not taken over twice.                                            *)
(***************************************************************************)
EXTENDS Naturals, FiniteSets

CONSTANTS
  Procs,       \* processes, each of one command
  Nobody,
  Inodes, NoInode,
  Reuse,       \* does the file system give an inode number away again?
  LeaverDies   \* may a process die while it removes its lock?

ASSUME LockAssumption ==
  /\ Nobody \notin Procs /\ NoInode \notin Inodes /\ {Reuse, LeaverDies} \subseteq BOOLEAN

VARIABLES
  lock,     \* the directory: its inode, and the owner its file names
  tombs,    \* quarantined locks: the inode in the name, the inode, is it empty?
  used,     \* inode numbers given away so far
  at,       \* per process: where it is in acquireInstallLock
  seen,     \* per process: the identity it made or inspected
  record    \* per process: the owner it read

lockVars == <<lock, tombs, used, at, seen, record>>

NoLock == [ino |-> NoInode, owner |-> Nobody]
Places == {"idle", "try", "made", "inspect", "read", "restat", "rename",
           "in", "leave", "empty", "exited"}

LockInit ==
  /\ lock = NoLock
  /\ tombs = {} /\ used = {}
  /\ at = [p \in Procs |-> "idle"]
  /\ seen = [p \in Procs |-> NoInode]
  /\ record = [p \in Procs |-> Nobody]

\* processAlive
Alive(p) == p \in Procs /\ at[p] \notin {"idle", "exited"}

\* A process goes on, having seen an identity and read an owner; what it does
\* not need any more it forgets.
Goes(p, place, ino, owner) ==
  /\ at' = [at EXCEPT ![p] = place]
  /\ seen' = [seen EXCEPT ![p] = ino]
  /\ record' = [record EXCEPT ![p] = owner]
GoesTo(p, place) == Goes(p, place, seen[p], record[p])
Retries(p) == Goes(p, "try", NoInode, Nobody)
Exits(p) == Goes(p, "exited", NoInode, Nobody)
NoFiles == UNCHANGED <<lock, tombs, used>>

\* The file system takes an inode number that nothing has.
Unused(i) ==
  /\ i # lock.ino /\ \A t \in tombs : t.ino # i
  /\ Reuse \/ i \notin used

Starts(p) == at[p] = "idle" /\ Retries(p) /\ NoFiles

\* mkdir, and lstat of what it made.
Makes(p) ==
  /\ at[p] = "try" /\ lock = NoLock
  /\ \E i \in Inodes :
       /\ Unused(i)
       /\ lock' = [ino |-> i, owner |-> Nobody]
       /\ used' = used \cup {i} /\ Goes(p, "made", i, Nobody)
  /\ UNCHANGED tombs

Finds(p) == at[p] = "try" /\ lock # NoLock /\ GoesTo(p, "inspect") /\ NoFiles

\* writeFile with "wx" into whatever has the name by now.
Takes(p) ==
  /\ at[p] = "made" /\ lock # NoLock /\ lock.owner = Nobody
  /\ lock' = [lock EXCEPT !.owner = p] /\ GoesTo(p, "in")
  /\ UNCHANGED <<tombs, used>>

\* It fails: what was made is removed if it is still there.
Misses(p) ==
  /\ at[p] = "made"
  /\ lock' = IF lock.ino = seen[p] THEN NoLock ELSE lock
  /\ IF lock.owner # Nobody THEN Goes(p, "inspect", NoInode, Nobody) ELSE Exits(p)
  /\ UNCHANGED <<tombs, used>>

Inspects(p) ==
  /\ at[p] = "inspect"
  /\ IF lock = NoLock THEN Retries(p) ELSE Goes(p, "read", lock.ino, Nobody)
  /\ NoFiles

\* A lock without an owner is refused, unless it is another one by now.
ReadsOwner(p) ==
  /\ at[p] = "read"
  /\ IF lock.owner # Nobody THEN Goes(p, "restat", seen[p], lock.owner)
     ELSE IF lock.ino # seen[p] THEN Retries(p) ELSE Exits(p)
  /\ NoFiles

Restats(p) ==
  /\ at[p] = "restat"
  /\ IF lock.ino # seen[p] THEN Retries(p)
     ELSE IF Alive(record[p]) THEN Exits(p) ELSE Goes(p, "rename", seen[p], Nobody)
  /\ NoFiles

\* Variant: the quarantine directory does not stay.
FencedNever(i) == FALSE

\* rename onto the quarantine name fails if something is there, except an
\* empty directory, which it replaces.
Fenced(i) == \E t \in tombs : t.name = i /\ ~t.empty

Renames(p) ==
  /\ at[p] = "rename" /\ UNCHANGED used
  /\ IF lock # NoLock /\ ~Fenced(seen[p])
     THEN /\ tombs' = {t \in tombs : t.name # seen[p]} \cup
                      {[name |-> seen[p], ino |-> lock.ino, empty |-> lock.owner = Nobody]}
          /\ lock' = NoLock
          /\ IF lock.ino = seen[p] THEN Retries(p) ELSE Exits(p)
     ELSE /\ IF lock.ino = seen[p] THEN Exits(p) ELSE Retries(p)
          /\ UNCHANGED <<lock, tombs>>

\* unlinkOwnedLock: rm of owner.json, then of the directory.
Leaves(p) == at[p] = "in" /\ GoesTo(p, "leave") /\ NoFiles

RemovesOwner(p) ==
  /\ at[p] = "leave" /\ UNCHANGED <<tombs, used>>
  /\ IF lock.ino = seen[p]
     THEN lock' = [lock EXCEPT !.owner = Nobody] /\ GoesTo(p, "empty")
     ELSE UNCHANGED lock /\ Exits(p)

RemovesLock(p) ==
  /\ at[p] = "empty" /\ Exits(p)
  /\ lock' = IF lock.owner = Nobody THEN NoLock ELSE lock
  /\ UNCHANGED <<tombs, used>>

Dies(p) == Alive(p) /\ (LeaverDies \/ at[p] # "empty") /\ Exits(p) /\ NoFiles

\* Getting and giving up the lock.
LockStep(p) ==
  \/ Starts(p) \/ Makes(p) \/ Finds(p) \/ Misses(p) \/ Inspects(p) \/ ReadsOwner(p)
  \/ Restats(p) \/ Renames(p) \/ RemovesOwner(p) \/ RemovesLock(p)

LockNext == \E p \in Procs : LockStep(p) \/ Takes(p) \/ Leaves(p) \/ Dies(p)
LockSpec == LockInit /\ [][LockNext]_lockVars

-----------------------------------------------------------------------------
LockTypeOK ==
  /\ lock \in [ino: Inodes \cup {NoInode}, owner: Procs \cup {Nobody}]
  /\ tombs \subseteq [name: Inodes \cup {NoInode}, ino: Inodes \cup {NoInode}, empty: BOOLEAN]
  /\ used \subseteq Inodes
  /\ at \in [Procs -> Places]
  /\ seen \in [Procs -> Inodes \cup {NoInode}]
  /\ record \in [Procs -> Procs \cup {Nobody}]

\* docs/install.md: "inode-specific quarantine directories that remain as
\* fencing tombstones" keep every installer but one out (withInstallLock),
\* whoever dies holding the lock and however the takeovers race.
OneInstaller == \A p, q \in Procs : at[p] = "in" /\ at[q] = "in" => p = q
=============================================================================
