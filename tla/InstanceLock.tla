----------------------------- MODULE InstanceLock -----------------------------
\* acquireInstanceLock and release of instance-lock.js: the file that keeps a
\* second daemon out and, under another name, is the ledger's writer lease.
\*
\* Each file system call is a step.  A process asks for the lock once and is
\* gone when it is refused, when it has released the lock or when it dies,
\* which it may do between any two steps.  The record in the file is its
\* owner; a file that is not written yet has none and counts as invalid.
EXTENDS Naturals

CONSTANTS
  Procs, Nobody,      \* Nobody is not a process,
  Inodes, NoInode,    \* NoInode not an inode number
  Reuse               \* does the file system give an inode number away again?

VARIABLES
  lock,     \* the file: its inode and the owner it names
  used,     \* inode numbers given away so far
  at,       \* per process: where it is in acquireInstanceLock
  seen,     \* per process: the inode it created or inspected
  second    \* per process: is this its second attempt?

lockVars == <<lock, used, at, seen, second>>

NoLock == [ino |-> NoInode, owner |-> Nobody]

LockInit ==
  /\ lock = NoLock /\ used = {}
  /\ at = [p \in Procs |-> "idle"]
  /\ seen = [p \in Procs |-> NoInode]
  /\ second = [p \in Procs |-> FALSE]

\* processAlive
Alive(p) == at[p] \notin {"idle", "exited"}

GoesTo(p, place) == at' = [at EXCEPT ![p] = place]
Keeps(p, ino) == seen' = [seen EXCEPT ![p] = ino]
NoFile == UNCHANGED <<lock, used>>

\* Every error ends the attempt, and the command with it.
Exits(p) == GoesTo(p, "exited") /\ Keeps(p, NoInode)

Starts(p) == at[p] = "idle" /\ GoesTo(p, "open") /\ NoFile /\ UNCHANGED <<seen, second>>

\* open(path, "wx")
Creates(p) ==
  /\ at[p] = "open" /\ lock = NoLock
  /\ \E i \in Inodes :
       /\ Reuse \/ i \notin used
       /\ \A q \in Procs : at[q] = "created" => seen[q] # i    \* an open file is not given away
       /\ lock' = [ino |-> i, owner |-> Nobody]
       /\ used' = used \cup {i} /\ Keeps(p, i)
  /\ GoesTo(p, "created") /\ UNCHANGED second

Exists(p) ==
  /\ at[p] = "open" /\ lock # NoLock
  /\ GoesTo(p, "inspect") /\ NoFile /\ UNCHANGED <<seen, second>>

\* writeFile through the handle, into a file that may have no name any more.
Writes(p) ==
  /\ at[p] = "created" /\ GoesTo(p, "in")
  /\ lock' = IF lock.ino = seen[p] THEN [lock EXCEPT !.owner = p] ELSE lock
  /\ UNCHANGED <<used, seen, second>>

\* The file is left behind, empty.  (When it is the sync that fails, what was
\* written stays: that is Writes and then Dies.)
WriteFails(p) == at[p] = "created" /\ Exits(p) /\ NoFile /\ UNCHANGED second

\* inspectInstanceLock: lstat, then a read by name; only a dead owner's lock is
\* gone on with.
Inspects(p) ==
  /\ at[p] = "inspect" /\ NoFile /\ UNCHANGED second
  /\ IF lock = NoLock THEN Exits(p) ELSE GoesTo(p, "read") /\ Keeps(p, lock.ino)

Reads(p) ==
  /\ at[p] = "read" /\ NoFile /\ UNCHANGED second
  /\ IF lock.owner = Nobody \/ Alive(lock.owner) THEN Exits(p)
     ELSE GoesTo(p, "compare") /\ UNCHANGED seen

Compares(p) ==
  /\ at[p] = "compare" /\ NoFile /\ UNCHANGED second
  /\ IF lock.ino # seen[p] THEN Exits(p) ELSE GoesTo(p, "unlink") /\ UNCHANGED seen

\* unlink by name; the second attempt is the last.
Unlinks(p) ==
  /\ at[p] = "unlink" /\ lock' = NoLock /\ second' = [second EXCEPT ![p] = TRUE]
  /\ IF lock = NoLock \/ second[p] THEN Exits(p)
     ELSE GoesTo(p, "open") /\ Keeps(p, NoInode)
  /\ UNCHANGED used

\* releaseOwnedLock: lstat and a read, then unlink.
Releases(p) ==
  /\ at[p] = "in" /\ NoFile /\ UNCHANGED second
  /\ IF lock = [ino |-> seen[p], owner |-> p] THEN GoesTo(p, "drop") /\ UNCHANGED seen
     ELSE Exits(p)

Drops(p) == at[p] = "drop" /\ lock' = NoLock /\ Exits(p) /\ UNCHANGED <<used, second>>

Dies(p) == Alive(p) /\ Exits(p) /\ NoFile /\ UNCHANGED second

LockNext == \E p \in Procs :
  \/ Starts(p) \/ Creates(p) \/ Exists(p) \/ Writes(p) \/ WriteFails(p) \/ Inspects(p)
  \/ Reads(p) \/ Compares(p) \/ Unlinks(p) \/ Releases(p) \/ Drops(p) \/ Dies(p)

LockSpec == LockInit /\ [][LockNext]_lockVars

-----------------------------------------------------------------------------
\* "The instance lock prevents duplicate daemons" (README.md:476): of the
\* processes that acquireInstanceLock let in and that have not released the
\* lock or died, there is one at most, however they race for a stale lock.
OneDaemon == \A p, q \in Procs : at[p] = "in" /\ at[q] = "in" => p = q
=============================================================================
