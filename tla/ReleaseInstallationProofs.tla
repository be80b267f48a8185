----------------------- MODULE ReleaseInstallationProofs -----------------------
\* What the files of an installation say of each other, for any number of
\* processes and releases.
\*
\* The invariant gives for each phase of the command inside the lock what it
\* still has to do and what the changes it has made so far leave (Working...):
\* in every phase but the removal of an uninstall the disk between two changes
\* is one that a later command can go on from (Sound), so it does not matter
\* where an error or a death stops it.
EXTENDS ReleaseInstallation, SequenceTheorems, TLAPS

-----------------------------------------------------------------------------
\* Mutual exclusion of withInstallLock, for any number of processes and of
\* takeovers: what docs/install.md says of the quarantine directories is enough
\* when an inode number is not given away again and nobody dies between the
\* removal of owner.json and that of the directory around it.
\*
\* The invariant has two halves.  Whoever has made the directory, or is inside,
\* has it under the lock's name with what belongs in it (Holds), so nobody else
\* is (Alone).  Whoever is about to move a lock away has either the lock of a
\* dead owner before it, or a tombstone on its way (Judged): a takeover that
\* comes late fails.

Holding == {"made", "in", "leave", "empty"}

\* Inode numbers come from the file system: nothing names one it has not given.
Known ==
  /\ lock.ino \in used \cup {NoInode}
  /\ lock.ino = NoInode => lock = NoLock
  /\ \A p \in Procs : seen[p] \in used \cup {NoInode}
  /\ \A p \in Procs : at[p] \in Holding \cup {"read", "restat", "rename"} => seen[p] \in used

Holds ==
  \A p \in Procs :
    /\ at[p] \in {"in", "leave"} => lock = [ino |-> seen[p], owner |-> p]
    /\ at[p] \in {"made", "empty"} => lock = [ino |-> seen[p], owner |-> Nobody]

Alone == \A p, q \in Procs : at[p] \in Holding /\ at[q] \in Holding => p = q

\* An owner that is named is inside, or dead.
Named == lock.owner # Nobody => at[lock.owner] \in {"in", "leave", "exited"}

\* Between reading the owner and comparing the inode the same lock may at most
\* have lost its owner.
Judging ==
  \A p \in Procs : at[p] = "restat" /\ lock.ino = seen[p] =>
    record[p] \in Procs /\ (lock.owner = record[p] \/ at[record[p]] = "empty")

Judged ==
  \A p \in Procs : at[p] = "rename" =>
    IF lock.ino = seen[p] THEN lock.owner \in Procs /\ at[lock.owner] = "exited"
    ELSE Fenced(seen[p])

LockInv == LockTypeOK /\ Known /\ Holds /\ Alone /\ Named /\ Judging /\ Judged

-----------------------------------------------------------------------------
\* Before the first command.
LEMMA LockStarts == LockInit => LockInv
  BY LockAssumption
  DEF LockInit, LockInv, LockTypeOK, Known, Holds, Alone, Named, Judging, Judged,
      NoLock, Places, Holding

\* A step that leaves the files alone and takes a process, which may die holding
\* the lock, to a place where it judges nothing.
LEMMA GoesAway ==
  ASSUME LockInv, NoFiles, NEW p \in Procs, at[p] \notin {"exited", "empty"},
         NEW place \in {"try", "inspect", "read", "exited"},
         at[p] \in Holding => place = "exited",
         NEW ino \in used \cup {NoInode}, place = "read" => ino \in used,
         NEW owner \in Procs \cup {Nobody},
         Goes(p, place, ino, owner)
  PROVE  LockInv'
  BY LockAssumption
  DEF LockInv, LockTypeOK, Known, Holds, Alone, Named, Judging, Judged,
      NoLock, Places, Holding, NoFiles, Goes, Fenced

\* Who starts, finds a lock, inspects it or dies changes no file.
LEMMA Away ==
  ASSUME LockInv, NEW p \in Procs,
         Starts(p) \/ Finds(p) \/ Inspects(p) \/ (~LeaverDies /\ Dies(p))
  PROVE  LockInv'
<1>0. /\ seen[p] \in used \cup {NoInode} /\ record[p] \in Procs \cup {Nobody}
      /\ lock.ino \in used \cup {NoInode} /\ (lock.ino = NoInode => lock = NoLock)
  BY DEF LockInv, LockTypeOK, Known
<1>1. CASE Starts(p)
  <2>1. /\ at[p] = "idle" /\ Goes(p, "try", NoInode, Nobody) /\ NoFiles
    BY <1>1 DEF Starts, Retries
  <2>2. QED BY <2>1, GoesAway DEF Holding
<1>2. CASE Finds(p)
  <2>1. /\ at[p] = "try" /\ Goes(p, "inspect", seen[p], record[p]) /\ NoFiles
    BY <1>2 DEF Finds, GoesTo
  <2>2. QED BY <1>0, <2>1, GoesAway DEF Holding
<1>3. CASE Inspects(p)
  <2>1. /\ at[p] = "inspect" /\ NoFiles
        /\ \/ Goes(p, "try", NoInode, Nobody)
           \/ lock # NoLock /\ Goes(p, "read", lock.ino, Nobody)
    BY <1>3 DEF Inspects, Retries
  <2>2. QED BY <1>0, <2>1, GoesAway DEF Holding
<1>4. CASE ~LeaverDies /\ Dies(p)
  <2>1. /\ at[p] \notin {"exited", "empty"} /\ Goes(p, "exited", NoInode, Nobody) /\ NoFiles
    BY <1>4 DEF Dies, Alive, Exits
  <2>2. QED BY <2>1, GoesAway DEF Holding
<1>5. QED BY <1>1, <1>2, <1>3, <1>4

\* The new inode has not been judged by anybody.
LEMMA MakesKeeps ==
  ASSUME LockInv, ~Reuse, NEW p \in Procs, Makes(p)
  PROVE  LockInv'
<1>1. PICK i \in Inodes :
        /\ i \notin used
        /\ lock' = [ino |-> i, owner |-> Nobody] /\ used' = used \cup {i}
        /\ at' = [at EXCEPT ![p] = "made"] /\ seen' = [seen EXCEPT ![p] = i]
        /\ record' = [record EXCEPT ![p] = Nobody]
  BY DEF Makes, Unused, Goes
<1>2. /\ at[p] = "try" /\ lock = NoLock /\ tombs' = tombs /\ NoInode \notin Inodes
  BY LockAssumption DEF Makes
<1>3. \A q \in Procs : at[q] \notin Holding
  BY <1>2, LockAssumption
  DEF LockInv, LockTypeOK, Known, Holds, NoLock, Holding
<1>4. LockTypeOK'
  BY <1>1, <1>2 DEF LockInv, LockTypeOK, Places
<1>5. Known' /\ Holds' /\ Alone' /\ Named'
  BY <1>1, <1>2, <1>3 DEF LockInv, LockTypeOK, Known, Holds, Alone, Named, Holding
<1>6. Judging'
  BY <1>1, <1>2 DEF LockInv, LockTypeOK, Known, Judging, Holding
<1>7. Judged'
  BY <1>1, <1>2 DEF LockInv, LockTypeOK, Known, Judged, Fenced, Holding, NoLock
<1>8. QED BY <1>4, <1>5, <1>6, <1>7 DEF LockInv

\* Who has written its owner file is in.
LEMMA TakesKeeps ==
  ASSUME LockInv, NEW p \in Procs, Takes(p)
  PROVE  LockInv'
  BY LockAssumption
  DEF LockInv, LockTypeOK, Known, Holds, Alone, Named, Judging, Judged, Takes,
      NoLock, Places, Holding, Goes, GoesTo, Fenced

\* Who cannot write its owner file removes what it made.
LEMMA MissesKeeps ==
  ASSUME LockInv, NEW p \in Procs, Misses(p)
  PROVE  LockInv'
  BY LockAssumption
  DEF LockInv, LockTypeOK, Known, Holds, Alone, Named, Judging, Judged, Misses,
      NoLock, Places, Holding, Goes, Exits, Fenced

\* Reading the owner file says whose lock it was when it was read.
LEMMA ReadsOwnerKeeps ==
  ASSUME LockInv, NEW p \in Procs, ReadsOwner(p)
  PROVE  LockInv'
  BY LockAssumption
  DEF LockInv, LockTypeOK, Known, Holds, Alone, Named, Judging, Judged, ReadsOwner,
      NoLock, Places, Holding, Goes, Retries, Exits, NoFiles, Fenced

\* Only the lock that was read, of a dead owner, is judged.
LEMMA RestatsKeeps ==
  ASSUME LockInv, NEW p \in Procs, Restats(p)
  PROVE  LockInv'
  BY LockAssumption
  DEF LockInv, LockTypeOK, Known, Holds, Alone, Named, Judging, Judged, Restats, Alive,
      NoLock, Places, Holding, Goes, Retries, Exits, NoFiles, Fenced

\* A lock that is moved away was that of a dead owner; it leaves a tombstone
\* that is not empty for all who have judged it too.
LEMMA RenamesKeeps ==
  ASSUME LockInv, NEW p \in Procs, Renames(p)
  PROVE  LockInv'
<1>1. CASE lock # NoLock /\ ~Fenced(seen[p])
  <2>1. /\ at[p] = "rename" /\ lock.ino = seen[p] /\ seen[p] \in used /\ seen[p] # NoInode
        /\ lock.owner \in Procs /\ at[lock.owner] = "exited" /\ lock.owner # Nobody
    BY <1>1, LockAssumption DEF Renames, LockInv, LockTypeOK, Judged, Known
  <2>2. /\ lock' = NoLock /\ used' = used
        /\ tombs' = {t \in tombs : t.name # seen[p]} \cup
                      {[name |-> seen[p], ino |-> seen[p], empty |-> FALSE]}
        /\ at' = [at EXCEPT ![p] = "try"] /\ seen' = [seen EXCEPT ![p] = NoInode]
        /\ record' = [record EXCEPT ![p] = Nobody]
    BY <1>1, <2>1 DEF Renames, Retries, Goes
  <2>3. \A q \in Procs : at[q] \notin Holding
    BY <2>1 DEF LockInv, Holds, Holding
  <2>4. LockTypeOK'
    <3>1. /\ seen[p] \in Inodes
          /\ [name |-> seen[p], ino |-> seen[p], empty |-> FALSE]
               \in [name: Inodes \cup {NoInode}, ino: Inodes \cup {NoInode}, empty: BOOLEAN]
      BY <2>1 DEF LockInv, LockTypeOK
    <3>2. tombs' \subseteq
            [name: Inodes \cup {NoInode}, ino: Inodes \cup {NoInode}, empty: BOOLEAN]
      BY <2>2, <3>1 DEF LockInv, LockTypeOK
    <3>3. lock' \in [ino: Inodes \cup {NoInode}, owner: Procs \cup {Nobody}]
      BY <2>2 DEF NoLock
    <3>4. QED BY <2>2, <3>2, <3>3 DEF LockInv, LockTypeOK, Places
  <2>5. /\ lock'.ino = NoInode /\ lock'.owner = Nobody
        /\ \A q \in Procs : q # p => at'[q] = at[q] /\ seen'[q] = seen[q]
        /\ at'[p] = "try" /\ seen'[p] = NoInode
    BY <2>2 DEF LockInv, LockTypeOK, NoLock
  <2>a. Known'
    BY <2>2, <2>5 DEF LockInv, Known, Holding
  <2>b. Holds' /\ Alone' /\ Named'
    BY <2>3, <2>5 DEF Holds, Alone, Named, Holding
  <2>c. Judging'
    <3>1. \A q \in Procs : at'[q] = "restat" => seen'[q] # NoInode
      BY <2>5, LockAssumption DEF LockInv, LockTypeOK, Known
    <3>2. QED BY <2>5, <3>1 DEF Judging
  <2>6. ASSUME NEW q \in Procs, at'[q] = "rename" PROVE lock'.ino # seen'[q] /\ Fenced(seen[q])'
    <3>1. q # p /\ at[q] = "rename" /\ seen'[q] = seen[q] /\ seen[q] \in used
      BY <2>2, <2>6 DEF LockInv, LockTypeOK, Known
    <3>2. CASE seen[q] = seen[p]
      <4> DEFINE e == [name |-> seen[p], ino |-> seen[p], empty |-> FALSE]
      <4>1. e \in tombs' /\ e.name = seen[q] /\ ~e.empty
        BY <2>2, <3>2
      <4>2. QED BY <2>1, <2>2, <3>1, <3>2, <4>1 DEF Fenced, NoLock
    <3>3. CASE seen[q] # seen[p]
      <4>1. PICK t \in tombs : t.name = seen[q] /\ ~t.empty
        BY <2>1, <3>1, <3>3 DEF LockInv, Judged, Fenced
      <4>2. t \in tombs' BY <2>2, <3>3, <4>1
      <4>3. seen[q] # NoInode
        BY <3>1, LockAssumption DEF LockInv, LockTypeOK
      <4>4. QED BY <2>2, <3>1, <4>1, <4>2, <4>3 DEF Fenced, NoLock
    <3>4. QED BY <3>2, <3>3
  <2>7. Judged' BY <2>6 DEF Judged
  <2>8. QED BY <2>4, <2>a, <2>b, <2>c, <2>7 DEF LockInv
<1>2. CASE ~(lock # NoLock /\ ~Fenced(seen[p]))
  <2>1. /\ at[p] = "rename" /\ NoFiles
        /\ Goes(p, "exited", NoInode, Nobody) \/ Goes(p, "try", NoInode, Nobody)
    BY <1>2 DEF Renames, Exits, Retries, NoFiles
  <2>2. QED BY <2>1, GoesAway DEF Holding
<1>3. QED BY <1>1, <1>2

\* Who leaves still holds its lock.
LEMMA LeavesKeeps ==
  ASSUME LockInv, NEW p \in Procs, Leaves(p)
  PROVE  LockInv'
  BY LockAssumption
  DEF LockInv, LockTypeOK, Known, Holds, Alone, Named, Judging, Judged, Leaves,
      NoLock, Places, Holding, Goes, GoesTo, NoFiles, Fenced

\* It removes the owner file of its own lock,
LEMMA RemovesOwnerKeeps ==
  ASSUME LockInv, NEW p \in Procs, RemovesOwner(p)
  PROVE  LockInv'
  BY LockAssumption
  DEF LockInv, LockTypeOK, Known, Holds, Alone, Named, Judging, Judged, RemovesOwner,
      NoLock, Places, Holding, Goes, GoesTo, Exits, Fenced

\* and then the directory.
LEMMA RemovesLockKeeps ==
  ASSUME LockInv, NEW p \in Procs, RemovesLock(p)
  PROVE  LockInv'
  BY LockAssumption
  DEF LockInv, LockTypeOK, Known, Holds, Alone, Named, Judging, Judged, RemovesLock,
      NoLock, Places, Holding, Goes, Exits, Fenced
-----------------------------------------------------------------------------
\* Every step of the lock keeps its invariant.
LEMMA LockStepsKeep ==
  ASSUME ~Reuse, ~LeaverDies, LockInv, [LockNext]_lockVars
  PROVE  LockInv'
<1>1. ASSUME NEW p \in Procs, LockStep(p) PROVE LockInv'
  BY <1>1, Away, MakesKeeps, MissesKeeps, ReadsOwnerKeeps, RestatsKeeps, RenamesKeeps,
     RemovesOwnerKeeps, RemovesLockKeeps
  DEF LockStep
<1>2. ASSUME NEW p \in Procs, Takes(p) \/ Leaves(p) \/ Dies(p) PROVE LockInv'
  BY <1>2, Away, TakesKeeps, LeavesKeeps
<1>3. CASE UNCHANGED lockVars
  BY <1>3
  DEF lockVars, LockInv, LockTypeOK, Known, Holds, Alone, Named, Judging, Judged, Fenced
<1>4. QED BY <1>1, <1>2, <1>3 DEF LockNext

\* Two processes inside are one.
LEMMA InvExcludes == LockInv => OneInstaller
  BY DEF LockInv, Alone, Holding, OneInstaller

\* The lock's own state is what the invariant says, whatever is done under it.
THEOREM LockInvariant == ASSUME ~Reuse, ~LeaverDies PROVE LockSpec => []LockInv
  BY LockStarts, LockStepsKeep, PTL DEF LockSpec

\* docs/install.md "inode-specific quarantine directories": of the installers,
\* updaters and uninstallers, dying and taking over in any order, one at most
\* is inside withInstallLock.
THEOREM LockExcludes == ASSUME ~Reuse, ~LeaverDies PROVE LockSpec => []OneInstaller
  BY LockInvariant, InvExcludes, PTL

-----------------------------------------------------------------------------
\* The files of the installation.

States == [current: Versions \cup {None}, previous: Versions \cup {None}]

\* A state file names releases that are there, and two different ones.
Valid(s, releases) ==
  /\ s \in States
  /\ s.current # None => s.current \in releases
  /\ s.previous # None => s.previous \in releases /\ s.previous # s.current
  /\ s.current = None => s.previous = None

\* A disk that a command can go on from: a pending transaction can be finished
\* or undone, and without one the link, the launcher and the state agree.
Sound(d) ==
  /\ d \in Disks /\ Valid(d.state, d.releases)
  /\ d.link # None => d.link \in d.releases
  /\ d.tx # NoTx => d.tx.to \in d.releases /\ d.state.current \in {d.tx.from, d.tx.to}
  /\ d.tx = NoTx => d.link = d.state.current /\ d.launcher = (d.state.current # None)

\* The changes of Recovery and Restoration, given the release pointed to.
Link(v) == Set("link", v)
Launcher(v) == Set("launcher", v # None)
Clear == Set("tx", NoTx)

Recovering(d, j) ==
  LET c == d.state.current
  IN  \/ j.todo = <<Link(c), Launcher(c), Clear>>
      \/ j.todo = <<Launcher(c), Clear>> /\ d.link = c
      \/ j.todo = <<Clear>> /\ d.link = c /\ d.launcher = (c # None)
      \/ j.todo = <<>> /\ d.tx = NoTx

Pending(j) == [from |-> j.was.current, to |-> j.version]

Staging(d, j) ==
  /\ d.state = j.was /\ j.version \in Versions
  /\ j.cmd = "rollback" => j.version = j.was.previous
  /\ \/ /\ j.todo = <<Set("releases", d.releases \cup {j.version}), Set("tx", Pending(j))>>
        /\ d.tx = NoTx
     \/ /\ j.todo = <<Set("tx", Pending(j))>>
        /\ d.tx = NoTx /\ j.version \in d.releases
     \/ j.todo = <<>> /\ d.tx = Pending(j) /\ j.version \in d.releases

\* The state that an activation writes.
Next1(j) ==
  [current |-> j.version,
   previous |-> IF j.cmd = "rollback" THEN j.was.current ELSE Previous(j.was, j.version)]

Activating(d, j) ==
  /\ d.tx = Pending(j) /\ j.version \in d.releases
  /\ Valid(j.was, d.releases) /\ Valid(Next1(j), d.releases)
  /\ \/ /\ j.todo = <<Link(j.version), Set("launcher", TRUE), Set("state", Next1(j))>>
        /\ d.state = j.was
     \/ /\ j.todo = <<Set("launcher", TRUE), Set("state", Next1(j))>>
        /\ d.state = j.was /\ d.link = j.version
     \/ /\ j.todo = <<Set("state", Next1(j))>>
        /\ d.state = j.was /\ d.link = j.version /\ d.launcher
     \/ /\ j.todo = <<>>
        /\ d.state = Next1(j) /\ d.link = j.version /\ d.launcher

Restoring(d, j) ==
  LET c == j.was.current
  IN  /\ Valid(j.was, d.releases)
      /\ j.todo # <<>> => d.tx = Pending(j) /\ j.version \in Versions
      /\ \/ j.todo = <<Set("state", j.was), Link(c), Launcher(c), Clear>>
         \/ j.todo = <<Link(c), Launcher(c), Clear>> /\ d.state = j.was
         \/ j.todo = <<Launcher(c), Clear>> /\ d.state = j.was /\ d.link = c
         \/ j.todo = <<Clear>> /\ d.state = j.was /\ d.link = c /\ d.launcher = (c # None)
         \/ j.todo = <<>> /\ d.state = j.was /\ d.tx = NoTx

Clearing(d, j) ==
  /\ d.state.current = j.version /\ d.link = j.version /\ d.launcher /\ j.version \in Versions
  /\ \/ j.todo = <<Clear>>
     \/ j.todo = <<>> /\ d.tx = NoTx

Removes(d, j) ==
  LET launcher == Set("launcher", FALSE)  releases == Set("releases", {})
      link == Set("link", None)  state == Set("state", NoState)
  IN  \/ j.todo = <<launcher, releases, link, state, Clear>>
      \/ j.todo = <<releases, link, state, Clear>> /\ d.launcher = FALSE
      \/ j.todo = <<link, state, Clear>> /\ d.launcher = FALSE /\ d.releases = {}
      \/ /\ j.todo = <<state, Clear>>
         /\ d.launcher = FALSE /\ d.releases = {} /\ d.link = None
      \/ /\ j.todo = <<Clear>>
         /\ d.launcher = FALSE /\ d.releases = {} /\ d.link = None /\ d.state = NoState
      \/ j.todo = <<>> /\ Sound(d) /\ d.tx = NoTx

Shaped(j) ==
  j \in [cmd: Commands, version: Versions, phase: Phases, todo: {j.todo},
         was: States]

\* What holds of the disk and of the command inside the lock.
Work(d, j) ==
  /\ d \in Disks /\ Shaped(j)
  /\ j.phase # "remove" => Sound(d)
  /\ j.phase \in {"open", "begin", "done", "failed"} => j.todo = <<>>
  /\ j.phase = "recover" => Recovering(d, j)
  /\ j.phase = "begin" => d.tx = NoTx /\ j.was = d.state
  /\ j.phase = "stage" => Staging(d, j)
  /\ j.phase = "activate" => Activating(d, j)
  /\ j.phase = "restore" => Restoring(d, j)
  /\ j.phase = "clear" => Clearing(d, j)
  /\ j.phase = "remove" => Removes(d, j)

InstallationInv ==
  /\ LockInv
  /\ job = [p \in Procs |-> job[p]]
  /\ \A p \in Procs : at[p] # "in" => job[p] = NoJob
  /\ \A p \in Procs : at[p] = "in" => Work(disk, job[p])
  /\ (\A p \in Procs : at[p] # "in") => Sound(disk)

-----------------------------------------------------------------------------
(* Changes, one at a time. *)

Make(d, change) == [d EXCEPT ![change.part] = change.value]
Step(j) == [j EXCEPT !.todo = Tail(@)]

\* The first of some changes, and the others.
LEMMA HeadTail1 ==
  ASSUME NEW a
  PROVE  Head(<<a>>) = a /\ Tail(<<a>>) = <<>>
  OBVIOUS

\* The lists of changes are short: of two,
LEMMA HeadTail2 ==
  ASSUME NEW a, NEW b
  PROVE  Head(<<a, b>>) = a /\ Tail(<<a, b>>) = <<b>>
  OBVIOUS

\* of three,
LEMMA HeadTail3 ==
  ASSUME NEW a, NEW b, NEW c
  PROVE  Head(<<a, b, c>>) = a /\ Tail(<<a, b, c>>) = <<b, c>>
  OBVIOUS

\* of four,
LEMMA HeadTail4 ==
  ASSUME NEW a, NEW b, NEW c, NEW e
  PROVE  Head(<<a, b, c, e>>) = a /\ Tail(<<a, b, c, e>>) = <<b, c, e>>
  OBVIOUS

\* or of five.
LEMMA HeadTail5 ==
  ASSUME NEW a, NEW b, NEW c, NEW e, NEW f
  PROVE  Head(<<a, b, c, e, f>>) = a /\ Tail(<<a, b, c, e, f>>) = <<b, c, e, f>>
  OBVIOUS

\* Lists that are written as one after the other.
LEMMA Concatenation ==
  ASSUME NEW a, NEW b, NEW c, NEW e
  PROVE  /\ <<a, b>> \o <<c>> = <<a, b, c>>
         /\ (<<a>> \o <<b, c>>) \o <<e>> = <<a, b, c, e>>
<1> DEFINE S == {a, b, c, e}
<1>1. /\ <<a>> \in Seq(S) /\ <<c>> \in Seq(S) /\ <<e>> \in Seq(S)
      /\ <<a, b>> \in Seq(S) /\ <<b, c>> \in Seq(S) /\ <<a, b, c>> \in Seq(S)
      /\ <<a, b, c, e>> \in Seq(S)
  OBVIOUS
<1>2. /\ Len(<<a>>) = 1 /\ Len(<<c>>) = 1 /\ Len(<<e>>) = 1 /\ Len(<<a, b>>) = 2
      /\ Len(<<b, c>>) = 2 /\ Len(<<a, b, c>>) = 3 /\ Len(<<a, b, c, e>>) = 4
  OBVIOUS
<1> HIDE DEF S
<1>3. ASSUME NEW x, NEW y, NEW z, <<x, y>> \in Seq(S), <<z>> \in Seq(S), <<x, y, z>> \in Seq(S)
      PROVE  <<x, y>> \o <<z>> = <<x, y, z>>
  <2> DEFINE s == <<x, y>> \o <<z>>
  <2>1. s \in Seq(S) /\ Len(s) = 3
    BY <1>3, ConcatProperties
  <2>2. s[1] = x /\ s[2] = y /\ s[3] = z
    BY <1>3
  <2> HIDE DEF s
  <2>3. s = <<x, y, z>>
    BY <1>3, <2>1, <2>2, SeqEqual
  <2>4. QED BY <2>3 DEF s
<1>4. <<a>> \o <<b, c>> = <<a, b, c>>
  <2> DEFINE s == <<a>> \o <<b, c>>
  <2>1. s \in Seq(S) /\ Len(s) = 3
    BY <1>1, ConcatProperties
  <2>2. s[1] = a /\ s[2] = b /\ s[3] = c
    BY <1>1
  <2> HIDE DEF s
  <2>3. s = <<a, b, c>>
    BY <1>1, <2>1, <2>2, SeqEqual
  <2>4. QED BY <2>3 DEF s
<1>5. <<a, b, c>> \o <<e>> = <<a, b, c, e>>
  <2> DEFINE s == <<a, b, c>> \o <<e>>
  <2>1. s \in Seq(S) /\ Len(s) = 4
    BY <1>1, ConcatProperties
  <2>2. s[1] = a /\ s[2] = b /\ s[3] = c /\ s[4] = e
    BY <1>1
  <2> HIDE DEF s
  <2>3. s = <<a, b, c, e>>
    BY <1>1, <2>1, <2>2, SeqEqual
  <2>4. QED BY <2>3 DEF s
<1>6. QED BY <1>1, <1>3, <1>4, <1>5

\* What a change leaves.
LEMMA MakeLink ==
  ASSUME NEW d \in Disks, NEW v \in Versions \cup {None}
  PROVE  LET e == Make(d, Set("link", v))
         IN  /\ e \in Disks /\ e.link = v /\ e.launcher = d.launcher /\ e.state = d.state
             /\ e.tx = d.tx /\ e.releases = d.releases
  BY DEF Make, Set, Disks

\* A change of the launcher changes nothing else;
LEMMA MakeLauncher ==
  ASSUME NEW d \in Disks, NEW v \in BOOLEAN
  PROVE  LET e == Make(d, Set("launcher", v))
         IN  /\ e \in Disks /\ e.launcher = v /\ e.link = d.link /\ e.state = d.state
             /\ e.tx = d.tx /\ e.releases = d.releases
  BY DEF Make, Set, Disks

\* nor does one of the state file,
LEMMA MakeState ==
  ASSUME NEW d \in Disks, NEW v \in States
  PROVE  LET e == Make(d, Set("state", v))
         IN  /\ e \in Disks /\ e.state = v /\ e.link = d.link /\ e.launcher = d.launcher
             /\ e.tx = d.tx /\ e.releases = d.releases
  BY DEF Make, Set, Disks, States

\* of the transaction file,
LEMMA MakeTx ==
  ASSUME NEW d \in Disks, NEW v \in [from: Versions \cup {None}, to: Versions \cup {None}]
  PROVE  LET e == Make(d, Set("tx", v))
         IN  /\ e \in Disks /\ e.tx = v /\ e.link = d.link /\ e.launcher = d.launcher
             /\ e.state = d.state /\ e.releases = d.releases
  BY DEF Make, Set, Disks

\* or of the releases.
LEMMA MakeReleases ==
  ASSUME NEW d \in Disks, NEW v \in SUBSET Versions
  PROVE  LET e == Make(d, Set("releases", v))
         IN  /\ e \in Disks /\ e.releases = v /\ e.link = d.link /\ e.launcher = d.launcher
             /\ e.state = d.state /\ e.tx = d.tx
  BY DEF Make, Set, Disks

\* A command that has made a change has it no longer to make.
LEMMA StepIs ==
  ASSUME NEW j, Shaped(j)
  PROVE  /\ Shaped(Step(j)) /\ Step(j).todo = Tail(j.todo) /\ Step(j).cmd = j.cmd
         /\ Step(j).version = j.version /\ Step(j).phase = j.phase /\ Step(j).was = j.was
  BY DEF Shaped, Step

\* recoverTransaction
LEMMA RecoverySteps ==
  ASSUME NEW d, NEW j, Work(d, j), j.phase = "recover", j.todo # <<>>
  PROVE  Work(Make(d, Head(j.todo)), Step(j))
<1> DEFINE c == d.state.current
           e == Make(d, Head(j.todo))
<1>1. /\ Sound(d) /\ Recovering(d, j) /\ Shaped(j) /\ d \in Disks
      /\ c \in Versions \cup {None} /\ (c # None) \in BOOLEAN
      /\ NoTx \in [from: Versions \cup {None}, to: Versions \cup {None}]
  BY DEF Work, Sound, Valid, States, NoTx
<1>2. /\ Shaped(Step(j)) /\ Step(j).todo = Tail(j.todo) /\ Step(j).phase = "recover"
  BY <1>1, StepIs
<1>3. CASE j.todo = <<Link(c), Launcher(c), Clear>>
  <2>1. Head(j.todo) = Link(c) /\ Tail(j.todo) = <<Launcher(c), Clear>>
    BY <1>3, HeadTail3
  <2>2. /\ e \in Disks /\ e.link = c /\ e.launcher = d.launcher /\ e.state = d.state
        /\ e.tx = d.tx /\ e.releases = d.releases
    BY <1>1, <2>1, MakeLink DEF Link
  <2>3. Sound(e)
    BY <1>1, <2>2 DEF Sound, Valid
  <2>4. QED BY <1>2, <2>1, <2>2, <2>3 DEF Work, Recovering
<1>4. CASE j.todo = <<Launcher(c), Clear>> /\ d.link = c
  <2>1. Head(j.todo) = Launcher(c) /\ Tail(j.todo) = <<Clear>>
    BY <1>4, HeadTail2
  <2>2. /\ e \in Disks /\ e.launcher = (c # None) /\ e.link = d.link /\ e.state = d.state
        /\ e.tx = d.tx /\ e.releases = d.releases
    BY <1>1, <2>1, MakeLauncher DEF Launcher
  <2>3. Sound(e)
    BY <1>1, <2>2 DEF Sound, Valid
  <2>4. QED BY <1>2, <1>4, <2>1, <2>2, <2>3 DEF Work, Recovering
<1>5. CASE j.todo = <<Clear>> /\ d.link = c /\ d.launcher = (c # None)
  <2>1. Head(j.todo) = Clear /\ Tail(j.todo) = <<>>
    BY <1>5, HeadTail1
  <2>2. /\ e \in Disks /\ e.tx = NoTx /\ e.link = d.link /\ e.state = d.state
        /\ e.launcher = d.launcher /\ e.releases = d.releases
    BY <1>1, <2>1, MakeTx DEF Clear
  <2>3. Sound(e)
    BY <1>1, <1>5, <2>2 DEF Sound, Valid
  <2>4. QED BY <1>2, <2>1, <2>2, <2>3 DEF Work, Recovering
<1>6. QED BY <1>1, <1>3, <1>4, <1>5 DEF Recovering

\* installRelease and rollbackRelease, until the transaction is written.
LEMMA StagingSteps ==
  ASSUME NEW d, NEW j, Work(d, j), j.phase = "stage", j.todo # <<>>
  PROVE  Work(Make(d, Head(j.todo)), Step(j))
<1> DEFINE e == Make(d, Head(j.todo))
           tx == Set("tx", Pending(j))
           copy == Set("releases", d.releases \cup {j.version})
<1>1. /\ Sound(d) /\ Staging(d, j) /\ Shaped(j) /\ d \in Disks
      /\ Pending(j) \in [from: Versions \cup {None}, to: Versions \cup {None}]
      /\ d.releases \cup {j.version} \in SUBSET Versions
  BY DEF Work, Sound, Disks, Staging, Pending, Shaped, States
<1>2. /\ Shaped(Step(j)) /\ Step(j).todo = Tail(j.todo) /\ Step(j).phase = "stage"
      /\ Step(j).was = j.was /\ Step(j).version = j.version /\ Step(j).cmd = j.cmd
      /\ Pending(Step(j)) = Pending(j)
  BY <1>1, StepIs DEF Pending
<1>3. CASE j.todo = <<copy, tx>> /\ d.tx = NoTx
  <2>1. Head(j.todo) = copy /\ Tail(j.todo) = <<tx>>
    BY <1>3, HeadTail2
  <2>2. /\ e \in Disks /\ e.releases = d.releases \cup {j.version} /\ e.link = d.link
        /\ e.launcher = d.launcher /\ e.state = d.state /\ e.tx = d.tx
    BY <1>1, <2>1, MakeReleases
  <2>3. Sound(e)
    BY <1>1, <2>2 DEF Sound, Valid
  <2>4. QED BY <1>1, <1>2, <1>3, <2>1, <2>2, <2>3 DEF Work, Staging
<1>4. CASE j.todo = <<tx>> /\ d.tx = NoTx /\ j.version \in d.releases
  <2>1. Head(j.todo) = tx /\ Tail(j.todo) = <<>>
    BY <1>4, HeadTail1
  <2>2. /\ e \in Disks /\ e.tx = Pending(j) /\ e.link = d.link /\ e.state = d.state
        /\ e.launcher = d.launcher /\ e.releases = d.releases
    BY <1>1, <2>1, MakeTx
  <2>3. Pending(j) # NoTx /\ Pending(j).to = j.version /\ Pending(j).from = d.state.current
    BY <1>1, InstallationAssumption DEF Staging, Pending, NoTx
  <2>4. Sound(e)
    BY <1>1, <1>4, <2>2, <2>3 DEF Sound, Valid
  <2>5. QED BY <1>1, <1>2, <1>4, <2>1, <2>2, <2>4 DEF Work, Staging
<1>5. QED BY <1>1, <1>3, <1>4 DEF Staging

\* switchCurrent, writeLauncher and the state file.
LEMMA ActivationSteps ==
  ASSUME NEW d, NEW j, Work(d, j), j.phase = "activate", j.todo # <<>>
  PROVE  Work(Make(d, Head(j.todo)), Step(j))
<1> DEFINE e == Make(d, Head(j.todo))
           launcher == Set("launcher", TRUE)
           state == Set("state", Next1(j))
<1>1. /\ Sound(d) /\ Activating(d, j) /\ Shaped(j) /\ d \in Disks
      /\ j.version \in Versions \cup {None} /\ Next1(j) \in States
      /\ d.tx = Pending(j) /\ j.version \in d.releases /\ d.releases \in SUBSET Versions
      /\ Valid(j.was, d.releases) /\ Valid(Next1(j), d.releases)
  BY DEF Work, Sound, Disks, Activating, Valid, Shaped
<1>2. /\ Shaped(Step(j)) /\ Step(j).todo = Tail(j.todo) /\ Step(j).phase = "activate"
      /\ Step(j).was = j.was /\ Step(j).version = j.version /\ Step(j).cmd = j.cmd
      /\ Pending(Step(j)) = Pending(j) /\ Next1(Step(j)) = Next1(j)
  BY <1>1, StepIs DEF Pending, Next1
<1>3. /\ Pending(j) # NoTx /\ Pending(j).to = j.version /\ Pending(j).from = j.was.current
      /\ Next1(j).current = j.version
  BY <1>1, InstallationAssumption DEF Pending, NoTx, Next1
<1>4. CASE j.todo = <<Link(j.version), launcher, state>> /\ d.state = j.was
  <2>1. Head(j.todo) = Link(j.version) /\ Tail(j.todo) = <<launcher, state>>
    <3> HIDE DEF launcher, state
    <3>1. /\ Head(<<Link(j.version), launcher, state>>) = Link(j.version)
          /\ Tail(<<Link(j.version), launcher, state>>) = <<launcher, state>>
      BY HeadTail3
    <3>2. QED BY <1>4, <3>1
  <2>2. /\ e \in Disks /\ e.link = j.version /\ e.launcher = d.launcher /\ e.state = d.state
        /\ e.tx = d.tx /\ e.releases = d.releases
    BY <1>1, <2>1, MakeLink DEF Link
  <2>3. Sound(e)
    BY <1>1, <1>3, <2>2 DEF Sound, Valid
  <2>4. QED BY <1>1, <1>2, <1>4, <2>1, <2>2, <2>3 DEF Work, Activating
<1>5. CASE j.todo = <<launcher, state>> /\ d.state = j.was /\ d.link = j.version
  <2>1. Head(j.todo) = launcher /\ Tail(j.todo) = <<state>>
    BY <1>5, HeadTail2
  <2>2. /\ e \in Disks /\ e.launcher = TRUE /\ e.link = d.link /\ e.state = d.state
        /\ e.tx = d.tx /\ e.releases = d.releases
    BY <1>1, <2>1, MakeLauncher
  <2>3. Sound(e)
    BY <1>1, <1>3, <2>2 DEF Sound, Valid
  <2>4. QED BY <1>1, <1>2, <1>5, <2>1, <2>2, <2>3 DEF Work, Activating
<1>6. CASE j.todo = <<state>> /\ d.state = j.was /\ d.link = j.version /\ d.launcher
  <2>1. Head(j.todo) = state /\ Tail(j.todo) = <<>>
    BY <1>6, HeadTail1
  <2>2. /\ e \in Disks /\ e.state = Next1(j) /\ e.launcher = d.launcher /\ e.link = d.link
        /\ e.tx = d.tx /\ e.releases = d.releases
    BY <1>1, <2>1, MakeState
  <2>3. Sound(e)
    BY <1>1, <1>3, <1>6, <2>2 DEF Sound, Valid
  <2>4. QED BY <1>1, <1>2, <1>6, <2>1, <2>2, <2>3 DEF Work, Activating
<1>7. QED BY <1>1, <1>4, <1>5, <1>6 DEF Activating

\* restorePrevious, and the transaction after it.
LEMMA RestorationSteps ==
  ASSUME NEW d, NEW j, Work(d, j), j.phase = "restore", j.todo # <<>>
  PROVE  Work(Make(d, Head(j.todo)), Step(j))
<1> DEFINE c == j.was.current
           e == Make(d, Head(j.todo))
           state == Set("state", j.was)
<1>1. /\ Sound(d) /\ Restoring(d, j) /\ Shaped(j) /\ d \in Disks
      /\ c \in Versions \cup {None} /\ (c # None) \in BOOLEAN /\ j.was \in States
      /\ d.tx = Pending(j) /\ j.version \in Versions /\ Valid(j.was, d.releases)
      /\ NoTx \in [from: Versions \cup {None}, to: Versions \cup {None}]
  BY DEF Work, Sound, Restoring, Valid, States, Shaped, NoTx
<1>2. /\ Shaped(Step(j)) /\ Step(j).todo = Tail(j.todo) /\ Step(j).phase = "restore"
      /\ Step(j).was = j.was /\ Step(j).version = j.version
      /\ Pending(Step(j)) = Pending(j)
  BY <1>1, StepIs DEF Pending
<1>3. Pending(j).from = c /\ Pending(j) # NoTx
  BY <1>1, InstallationAssumption DEF Pending, NoTx
<1>4. CASE j.todo = <<state, Link(c), Launcher(c), Clear>>
  <2>1. Head(j.todo) = state /\ Tail(j.todo) = <<Link(c), Launcher(c), Clear>>
    BY <1>4, HeadTail4
  <2>2. /\ e \in Disks /\ e.state = j.was /\ e.launcher = d.launcher /\ e.link = d.link
        /\ e.tx = d.tx /\ e.releases = d.releases
    BY <1>1, <2>1, MakeState
  <2>3. Sound(e)
    BY <1>1, <1>3, <2>2 DEF Sound, Valid
  <2>4. QED BY <1>1, <1>2, <2>1, <2>2, <2>3 DEF Work, Restoring
<1>5. CASE j.todo = <<Link(c), Launcher(c), Clear>> /\ d.state = j.was
  <2>1. Head(j.todo) = Link(c) /\ Tail(j.todo) = <<Launcher(c), Clear>>
    BY <1>5, HeadTail3
  <2>2. /\ e \in Disks /\ e.link = c /\ e.launcher = d.launcher /\ e.state = d.state
        /\ e.tx = d.tx /\ e.releases = d.releases
    <3>1. e = Make(d, Set("link", c))
      BY <2>1 DEF Link
    <3>2. d \in Disks /\ c \in Versions \cup {None}
      BY <1>1
    <3> HIDE DEF c, e
    <3>3. QED BY <3>1, <3>2, MakeLink
  <2>3. Sound(e)
    BY <1>1, <1>5, <2>2 DEF Sound, Valid
  <2>4. QED BY <1>1, <1>2, <1>5, <2>1, <2>2, <2>3 DEF Work, Restoring
<1>6. CASE j.todo = <<Launcher(c), Clear>> /\ d.state = j.was /\ d.link = c
  <2>1. Head(j.todo) = Launcher(c) /\ Tail(j.todo) = <<Clear>>
    BY <1>6, HeadTail2
  <2>2. /\ e \in Disks /\ e.launcher = (c # None) /\ e.link = d.link /\ e.state = d.state
        /\ e.tx = d.tx /\ e.releases = d.releases
    BY <1>1, <2>1, MakeLauncher DEF Launcher
  <2>3. Sound(e)
    BY <1>1, <1>6, <2>2 DEF Sound, Valid
  <2>4. QED BY <1>1, <1>2, <1>6, <2>1, <2>2, <2>3 DEF Work, Restoring
<1>7. CASE /\ j.todo = <<Clear>> /\ d.state = j.was /\ d.link = c
           /\ d.launcher = (c # None)
  <2>1. Head(j.todo) = Clear /\ Tail(j.todo) = <<>>
    BY <1>7, HeadTail1
  <2>2. /\ e \in Disks /\ e.tx = NoTx /\ e.link = d.link /\ e.state = d.state
        /\ e.launcher = d.launcher /\ e.releases = d.releases
    BY <1>1, <2>1, MakeTx DEF Clear
  <2>3. Sound(e)
    BY <1>1, <1>7, <2>2 DEF Sound, Valid
  <2>4. QED BY <1>1, <1>2, <1>7, <2>1, <2>2, <2>3 DEF Work, Restoring
<1>8. QED BY <1>1, <1>4, <1>5, <1>6, <1>7 DEF Restoring

\* The transaction of an activation that succeeded.
LEMMA ClearingSteps ==
  ASSUME NEW d, NEW j, Work(d, j), j.phase = "clear", j.todo # <<>>
  PROVE  Work(Make(d, Head(j.todo)), Step(j))
<1> DEFINE e == Make(d, Head(j.todo))
<1>1. /\ Sound(d) /\ Clearing(d, j) /\ Shaped(j) /\ d \in Disks /\ j.todo = <<Clear>>
      /\ NoTx \in [from: Versions \cup {None}, to: Versions \cup {None}]
  BY DEF Work, Sound, Clearing, NoTx
<1>2. /\ Shaped(Step(j)) /\ Step(j).todo = Tail(j.todo) /\ Step(j).phase = "clear"
      /\ Step(j).version = j.version
  BY <1>1, StepIs
<1>3. Head(j.todo) = Clear /\ Tail(j.todo) = <<>>
  BY <1>1, HeadTail1
<1>4. /\ e \in Disks /\ e.tx = NoTx /\ e.link = d.link /\ e.state = d.state
      /\ e.launcher = d.launcher /\ e.releases = d.releases
  BY <1>1, <1>3, MakeTx DEF Clear
<1>5. Sound(e)
  BY <1>1, <1>4, InstallationAssumption DEF Sound, Valid, Clearing
<1>6. QED BY <1>1, <1>2, <1>3, <1>4, <1>5 DEF Work, Clearing

\* uninstallRelease
LEMMA RemovalSteps ==
  ASSUME NEW d, NEW j, Work(d, j), j.phase = "remove", j.todo # <<>>
  PROVE  Work(Make(d, Head(j.todo)), Step(j))
<1> DEFINE e == Make(d, Head(j.todo))
           launcher == Set("launcher", FALSE)
           releases == Set("releases", {})
           link == Set("link", None)
           state == Set("state", NoState)
<1>1. /\ Removes(d, j) /\ Shaped(j) /\ d \in Disks
      /\ NoTx \in [from: Versions \cup {None}, to: Versions \cup {None}]
      /\ NoState \in States /\ {} \in SUBSET Versions
  BY DEF Work, NoTx, NoState, States
<1>2. /\ Shaped(Step(j)) /\ Step(j).todo = Tail(j.todo) /\ Step(j).phase = "remove"
  BY <1>1, StepIs
<1>3. CASE j.todo = <<launcher, releases, link, state, Clear>>
  <2>1. Head(j.todo) = launcher /\ Tail(j.todo) = <<releases, link, state, Clear>>
    BY <1>3, HeadTail5
  <2>2. e \in Disks /\ e.launcher = FALSE
    BY <1>1, <2>1, MakeLauncher
  <2>3. QED BY <1>2, <2>1, <2>2 DEF Work, Removes
<1>4. CASE j.todo = <<releases, link, state, Clear>> /\ d.launcher = FALSE
  <2>1. Head(j.todo) = releases /\ Tail(j.todo) = <<link, state, Clear>>
    BY <1>4, HeadTail4
  <2>2. e \in Disks /\ e.launcher = d.launcher /\ e.releases = {}
    BY <1>1, <2>1, MakeReleases
  <2>3. QED BY <1>2, <1>4, <2>1, <2>2 DEF Work, Removes
<1>5. CASE j.todo = <<link, state, Clear>> /\ d.launcher = FALSE /\ d.releases = {}
  <2>1. Head(j.todo) = link /\ Tail(j.todo) = <<state, Clear>>
    BY <1>5, HeadTail3
  <2>2. e \in Disks /\ e.launcher = d.launcher /\ e.releases = d.releases /\ e.link = None
    BY <1>1, <2>1, MakeLink
  <2>3. QED BY <1>2, <1>5, <2>1, <2>2 DEF Work, Removes
<1>6. CASE /\ j.todo = <<state, Clear>>
           /\ d.launcher = FALSE /\ d.releases = {} /\ d.link = None
  <2>1. Head(j.todo) = state /\ Tail(j.todo) = <<Clear>>
    BY <1>6, HeadTail2
  <2>2. /\ e \in Disks /\ e.launcher = d.launcher /\ e.releases = d.releases
        /\ e.link = d.link /\ e.state = NoState
    BY <1>1, <2>1, MakeState
  <2>3. QED BY <1>2, <1>6, <2>1, <2>2 DEF Work, Removes
<1>7. CASE /\ j.todo = <<Clear>> /\ d.launcher = FALSE /\ d.releases = {}
           /\ d.link = None /\ d.state = NoState
  <2>1. Head(j.todo) = Clear /\ Tail(j.todo) = <<>>
    BY <1>7, HeadTail1
  <2>2. /\ e \in Disks /\ e.launcher = FALSE /\ e.releases = {} /\ e.link = None
        /\ e.state = NoState /\ e.tx = NoTx
    BY <1>1, <1>7, <2>1, MakeTx DEF Clear
  <2>3. Sound(e)
    <3>1. NoState.current = None /\ NoState.previous = None
      BY DEF NoState
    <3>2. Valid(e.state, e.releases)
      BY <1>1, <2>2, <3>1 DEF Valid
    <3>3. QED BY <2>2, <3>1, <3>2 DEF Sound
  <2>4. QED BY <1>2, <2>1, <2>2, <2>3 DEF Work, Removes
<1>8. QED BY <1>1, <1>3, <1>4, <1>5, <1>6, <1>7 DEF Removes

\* Every change that a command makes.
LEMMA ChangesKeep ==
  ASSUME NEW d, NEW j, Work(d, j), j.todo # <<>>
  PROVE  Work(Make(d, Head(j.todo)), Step(j))
<1>1. /\ j.phase \in Phases
      /\ j.phase \notin {"open", "begin", "done", "failed"}
  BY DEF Work, Shaped
<1>2. j.phase \in {"recover", "stage", "activate", "restore", "clear", "remove"}
  BY <1>1 DEF Phases
<1>3. QED BY <1>2, RecoverySteps, StagingSteps, ActivationSteps, RestorationSteps,
             ClearingSteps, RemovalSteps

-----------------------------------------------------------------------------
(* From one phase to the next. *)

To(j, phase, todo) == [j EXCEPT !.phase = phase, !.todo = todo]

\* A command goes on to its next phase with that phase's changes.
LEMMA ToIs ==
  ASSUME NEW j, Shaped(j), NEW phase \in Phases, NEW todo
  PROVE  /\ Shaped(To(j, phase, todo)) /\ To(j, phase, todo).phase = phase
         /\ To(j, phase, todo).todo = todo /\ To(j, phase, todo).cmd = j.cmd
         /\ To(j, phase, todo).version = j.version /\ To(j, phase, todo).was = j.was
  BY DEF Shaped, To

\* A command may end, or fail, with the disk as it is, except in a removal.
LEMMA MayEnd ==
  ASSUME NEW d, NEW j, Work(d, j), j.phase # "remove", NEW phase \in {"done", "failed"}
  PROVE  Work(d, To(j, phase, <<>>))
<1>1. d \in Disks /\ Shaped(j) /\ Sound(d) /\ phase \in Phases
  BY DEF Work, Phases
<1>2. QED BY <1>1, ToIs DEF Work

\* The lists of the code are those of the invariant.
LEMMA Points ==
  /\ \A v : v # None => PointTo(v) = <<Link(v), Launcher(v)>>
  /\ PointNowhere = <<Link(None), Launcher(None)>>
  BY DEF PointTo, PointNowhere, Link, Launcher

\* recoverTransaction: point back to the current release and clear, if need be.
LEMMA RecoveryIs ==
  ASSUME NEW d, Sound(d)
  PROVE  LET c == d.state.current
         IN  Recovery(d) = IF d.tx = NoTx THEN <<>> ELSE <<Link(c), Launcher(c), Clear>>
<1> DEFINE c == d.state.current
<1>1. CASE d.tx = NoTx
  BY <1>1 DEF Recovery
<1>2. CASE d.tx # NoTx
  <2>1. RecoveryTarget(d) = c
    BY <1>2 DEF Sound, RecoveryTarget
  <2>2. (IF c = None THEN PointNowhere ELSE PointTo(c)) = <<Link(c), Launcher(c)>>
    BY Points
  <2>3. Recovery(d) = <<Link(c), Launcher(c)>> \o <<Clear>>
    BY <1>2, <2>1, <2>2 DEF Recovery, ClearTransaction, Clear
  <2>4. QED BY <1>2, <2>3, Concatenation
<1>3. QED BY <1>1, <1>2

\* restorePrevious: the old state, link and launcher, then the transaction.
LEMMA RestorationIs ==
  ASSUME NEW was
  PROVE  LET c == was.current
         IN  Restoration(was) \o ClearTransaction =
               <<Set("state", was), Link(c), Launcher(c), Clear>>
<1> DEFINE c == was.current
<1>1. (IF c # None THEN PointTo(c) ELSE PointNowhere) = <<Link(c), Launcher(c)>>
  BY Points
<1>2. Restoration(was) \o ClearTransaction =
        (<<Set("state", was)>> \o <<Link(c), Launcher(c)>>) \o <<Clear>>
  BY <1>1 DEF Restoration, ClearTransaction, Clear
<1>3. QED BY ZenonT(60), <1>2, Concatenation

\* The activation: link, launcher, state.
LEMMA ActivationIs ==
  ASSUME NEW v, NEW previous
  PROVE  Activation(v, previous) =
           <<Link(v), Set("launcher", TRUE),
             Set("state", [current |-> v, previous |-> previous])>>
  BY Concatenation DEF Activation, PointTo, Link

\* A command begins with the recovery of what the last one left,
LEMMA WorkRecovers ==
  ASSUME NEW d, NEW j, Work(d, j), j.phase = "open"
  PROVE  Work(d, To(j, "recover", Recovery(d)))
<1>1. d \in Disks /\ Shaped(j) /\ Sound(d) /\ "recover" \in Phases
  BY DEF Work, Phases
<1>2. Recovering(d, To(j, "recover", Recovery(d)))
  <2> DEFINE k == To(j, "recover", Recovery(d))
             c == d.state.current
  <2>1. k.todo = Recovery(d)
    BY <1>1, ToIs
  <2>2. Recovery(d) = IF d.tx = NoTx THEN <<>> ELSE <<Link(c), Launcher(c), Clear>>
    BY <1>1, RecoveryIs
  <2> HIDE DEF k
  <2>3. Recovering(d, k)
    BY <2>1, <2>2 DEF Recovering
  <2>4. QED BY <2>3 DEF k
<1>3. QED BY <1>1, <1>2, ToIs DEF Work

\* and then knows the state it starts from.
LEMMA WorkRecovered ==
  ASSUME NEW d, NEW j, Work(d, j), j.phase = "recover", j.todo = <<>>
  PROVE  Work(d, [j EXCEPT !.phase = "begin", !.was = d.state])
<1> DEFINE k == [j EXCEPT !.phase = "begin", !.was = d.state]
<1>1. d \in Disks /\ Shaped(j) /\ Sound(d) /\ d.tx = NoTx /\ d.state \in States
  BY DEF Work, Recovering, Sound, Valid
<1>2. Shaped(k) /\ k.phase = "begin" /\ k.was = d.state /\ k.todo = <<>>
  BY <1>1 DEF Shaped, Phases
<1> HIDE DEF k
<1>3. Work(d, k) BY <1>1, <1>2 DEF Work
<1>4. QED BY <1>3 DEF k

\* An installation stages its release and announces it;
LEMMA WorkStages ==
  ASSUME NEW d, NEW j, Work(d, j), j.phase = "begin", j.cmd = "install", j.version \in Versions
  PROVE  Work(d, To(j, "stage",
                    <<Set("releases", d.releases \cup {j.version}),
                      Set("tx", [from |-> d.state.current, to |-> j.version])>>))
<1> DEFINE todo == <<Set("releases", d.releases \cup {j.version}),
                     Set("tx", [from |-> d.state.current, to |-> j.version])>>
           k == To(j, "stage", todo)
<1>1. /\ d \in Disks /\ Shaped(j) /\ Sound(d) /\ d.tx = NoTx /\ j.was = d.state
      /\ "stage" \in Phases
  BY DEF Work, Phases
<1> HIDE DEF todo
<1>2. /\ Shaped(k) /\ k.phase = "stage" /\ k.todo = todo /\ k.cmd = "install"
      /\ k.version = j.version /\ k.was = d.state
  BY <1>1, ToIs
<1> HIDE DEF k
<1>3. todo = <<Set("releases", d.releases \cup {k.version}), Set("tx", Pending(k))>>
  BY <1>2 DEF todo, Pending
<1>4. Staging(d, k)
  BY <1>1, <1>2, <1>3 DEF Staging
<1>5. Work(d, k)
  BY <1>1, <1>2, <1>4 DEF Work
<1>6. QED BY <1>5 DEF k, todo

\* a rollback announces the previous one;
LEMMA WorkRollsBack ==
  ASSUME NEW d, NEW j, Work(d, j), j.phase = "begin", j.cmd = "rollback",
         d.state.previous # None
  PROVE  LET to == d.state.previous
         IN  Work(d, [j EXCEPT !.phase = "stage", !.version = to,
                        !.todo = <<Set("tx", [from |-> d.state.current, to |-> to])>>])
<1> DEFINE to == d.state.previous
           todo == <<Set("tx", [from |-> d.state.current, to |-> to])>>
           k == [j EXCEPT !.phase = "stage", !.version = to, !.todo = todo]
<1>1. /\ d \in Disks /\ Shaped(j) /\ Sound(d) /\ d.tx = NoTx /\ j.was = d.state
      /\ to \in d.releases /\ to \in Versions
  BY DEF Work, Sound, Valid, Disks
<1> HIDE DEF todo
<1>2. /\ Shaped(k) /\ k.phase = "stage" /\ k.todo = todo /\ k.cmd = "rollback"
      /\ k.version = to /\ k.was = d.state
  BY <1>1 DEF Shaped, Phases
<1> HIDE DEF k
<1>3. todo = <<Set("tx", Pending(k))>>
  BY <1>2 DEF todo, Pending
<1>4. Staging(d, k)
  BY <1>1, <1>2, <1>3 DEF Staging
<1>5. Work(d, k)
  BY <1>1, <1>2, <1>4 DEF Work
<1>6. QED BY <1>5 DEF k, todo

\* an uninstall removes everything.
LEMMA WorkRemoves ==
  ASSUME NEW d, NEW j, Work(d, j), j.phase = "begin"
  PROVE  Work(d, To(j, "remove", Removal))
<1>1. d \in Disks /\ Shaped(j) /\ "remove" \in Phases
  BY DEF Work, Phases
<1> DEFINE k == To(j, "remove", Removal)
<1>2. Shaped(k) /\ k.phase = "remove" /\ k.todo = Removal
  BY <1>1, ToIs
<1> HIDE DEF k
<1>3. Removes(d, k)
  BY <1>2 DEF Removes, Removal, Clear
<1>4. Work(d, k)
  BY <1>1, <1>2, <1>3 DEF Work
<1>5. QED BY <1>4 DEF k

\* The state that is written names two releases that are there.
LEMMA NextIsValid ==
  ASSUME NEW d, NEW j, Sound(d), Shaped(j), Staging(d, j), j.version \in d.releases
  PROVE  Valid(Next1(j), d.releases)
<1>1. /\ d.state = j.was /\ j.version \in Versions /\ Valid(j.was, d.releases)
      /\ j.was.current \in Versions \cup {None} /\ j.was.previous \in Versions \cup {None}
      /\ j.cmd = "rollback" => j.version = j.was.previous
  BY DEF Sound, Staging, Valid, States
<1>2. Next1(j).current = j.version /\ Next1(j) \in States
  BY <1>1 DEF Next1, States, Previous
<1>3. CASE j.cmd = "rollback"
  <2>1. Next1(j).previous = j.was.current
    BY <1>3 DEF Next1
  <2>2. QED BY <1>1, <1>2, <1>3, <2>1, InstallationAssumption DEF Valid
<1>4. CASE j.cmd # "rollback"
  <2>1. Next1(j).previous = Previous(j.was, j.version)
    BY <1>4 DEF Next1
  <2>2. QED BY <1>1, <1>2, <2>1, InstallationAssumption DEF Valid, Previous
<1>5. QED BY <1>3, <1>4

\* What was announced is activated,
LEMMA WorkActivates ==
  ASSUME NEW d, NEW j, Work(d, j), j.phase = "stage", j.todo = <<>>
  PROVE  Work(d, To(j, "activate",
                    Activation(j.version,
                               IF j.cmd = "rollback" THEN j.was.current
                               ELSE Previous(j.was, j.version))))
<1> DEFINE todo == <<Link(j.version), Set("launcher", TRUE), Set("state", Next1(j))>>
           k == To(j, "activate", todo)
<1>1. /\ d \in Disks /\ Shaped(j) /\ Sound(d) /\ Staging(d, j) /\ "activate" \in Phases
      /\ d.tx = Pending(j) /\ j.version \in d.releases /\ d.state = j.was
      /\ Valid(j.was, d.releases)
  BY DEF Work, Phases, Staging, Sound
<1>2. Valid(Next1(j), d.releases)
  BY <1>1, NextIsValid
<1>3. todo = Activation(j.version, IF j.cmd = "rollback" THEN j.was.current
                                   ELSE Previous(j.was, j.version))
  BY ActivationIs DEF Next1
<1> HIDE DEF todo
<1>4. /\ Shaped(k) /\ k.phase = "activate" /\ k.todo = todo /\ k.cmd = j.cmd
      /\ k.version = j.version /\ k.was = j.was
  BY <1>1, ToIs
<1> HIDE DEF k
<1>5. Next1(k) = Next1(j) /\ Pending(k) = Pending(j)
  BY <1>4 DEF Next1, Pending
<1>6. todo = <<Link(k.version), Set("launcher", TRUE), Set("state", Next1(k))>>
  BY <1>4, <1>5 DEF todo
<1>7. Activating(d, k)
  BY <1>1, <1>2, <1>4, <1>5, <1>6 DEF Activating
<1>8. Work(d, k)
  BY <1>1, <1>4, <1>7 DEF Work
<1>9. QED BY <1>3, <1>8 DEF k

\* and the transaction cleared,
LEMMA WorkActivated ==
  ASSUME NEW d, NEW j, Work(d, j), j.phase = "activate", j.todo = <<>>
  PROVE  Work(d, To(j, "clear", ClearTransaction))
<1> DEFINE k == To(j, "clear", ClearTransaction)
<1>1. /\ d \in Disks /\ Shaped(j) /\ Sound(d) /\ Activating(d, j) /\ "clear" \in Phases
      /\ j.version \in Versions
  BY DEF Work, Phases, Activating, Sound, Disks
<1>2. d.state = Next1(j) /\ d.link = j.version /\ d.launcher /\ Next1(j).current = j.version
  BY <1>1 DEF Activating, Next1
<1>3. /\ Shaped(k) /\ k.phase = "clear" /\ k.todo = <<Clear>> /\ k.version = j.version
  BY <1>1, ToIs DEF ClearTransaction, Clear
<1> HIDE DEF k
<1>4. Clearing(d, k)
  BY <1>1, <1>2, <1>3 DEF Clearing
<1>5. Work(d, k)
  BY <1>1, <1>3, <1>4 DEF Work
<1>6. QED BY <1>5 DEF k

\* or, on a failure, what was there is restored.
LEMMA WorkRestores ==
  ASSUME NEW d, NEW j, Work(d, j), j.phase = "activate"
  PROVE  Work(d, To(j, "restore", Restoration(j.was) \o ClearTransaction))
<1> DEFINE c == j.was.current
           todo == <<Set("state", j.was), Link(c), Launcher(c), Clear>>
           k == To(j, "restore", todo)
<1>1. /\ d \in Disks /\ Shaped(j) /\ Sound(d) /\ Activating(d, j) /\ "restore" \in Phases
      /\ j.version \in Versions /\ d.tx = Pending(j) /\ Valid(j.was, d.releases)
  BY DEF Work, Phases, Activating, Sound, Disks
<1>2. todo = Restoration(j.was) \o ClearTransaction
  BY RestorationIs
<1> HIDE DEF todo
<1>3. /\ Shaped(k) /\ k.phase = "restore" /\ k.todo = todo /\ k.version = j.version
      /\ k.was = j.was
  BY <1>1, ToIs
<1> HIDE DEF k
<1>4. /\ Pending(k) = Pending(j)
      /\ todo = <<Set("state", k.was), Link(k.was.current), Launcher(k.was.current), Clear>>
  BY <1>3 DEF Pending, todo
<1>5. Restoring(d, k)
  BY <1>1, <1>3, <1>4 DEF Restoring
<1>6. Work(d, k)
  BY <1>1, <1>3, <1>5 DEF Work
<1>7. QED BY <1>2, <1>6 DEF k

\* A removal may take the releases away one by one.
LEMMA WorkRemovesRelease ==
  ASSUME NEW d, NEW j, Work(d, j), j.phase = "remove", j.todo # <<>>,
         Head(j.todo).part = "releases", NEW v
  PROVE  Work([d EXCEPT !.releases = @ \ {v}], j)
<1> DEFINE e == [d EXCEPT !.releases = @ \ {v}]
           releases == Set("releases", {})
           link == Set("link", None)
           state == Set("state", NoState)
<1>1. /\ e \in Disks /\ e.launcher = d.launcher
  BY DEF Work, Disks
<1>2. j.todo = <<releases, link, state, Clear>> /\ d.launcher = FALSE
  <2>1. Removes(d, j)
    BY DEF Work
  <2>2. /\ Set("launcher", FALSE).part = "launcher" /\ link.part = "link"
        /\ state.part = "state" /\ Clear.part = "tx"
    BY DEF Set, Clear
  <2>3. j.todo # <<Set("launcher", FALSE), releases, link, state, Clear>>
    <3> DEFINE launcher == Set("launcher", FALSE)
    <3>1. launcher.part # "releases"
      BY <2>2
    <3> HIDE DEF launcher, releases, link, state
    <3>2. Head(<<launcher, releases, link, state, Clear>>) = launcher
      BY HeadTail5
    <3>3. j.todo # <<launcher, releases, link, state, Clear>>
      BY <3>1, <3>2
    <3>4. QED BY <3>3 DEF launcher, releases, link, state
  <2>4. j.todo # <<link, state, Clear>>
    BY <2>2, HeadTail3
  <2>5. j.todo # <<state, Clear>>
    BY <2>2, HeadTail2
  <2>6. j.todo # <<Clear>>
    BY <2>2, HeadTail1
  <2>7. QED BY <2>1, <2>3, <2>4, <2>5, <2>6 DEF Removes
<1> HIDE DEF e
<1>3. Removes(e, j)
  BY <1>1, <1>2 DEF Removes
<1>4. Work(e, j)
  BY <1>1, <1>3 DEF Work
<1>5. QED BY <1>4 DEF e

-----------------------------------------------------------------------------
(* Steps of the processes. *)

\* Nothing is installed at first.
LEMMA Starts0 == InstallationInit => InstallationInv
<1> SUFFICES ASSUME InstallationInit PROVE InstallationInv
  OBVIOUS
<1>1. LockInv /\ \A p \in Procs : at[p] = "idle"
  BY LockStarts DEF InstallationInit, LockInit
<1>2. Sound(disk)
  BY DEF InstallationInit, Fresh, Sound, Disks, Valid, States, NoState, NoTx
<1>3. QED BY <1>1, <1>2 DEF InstallationInit, InstallationInv

\* Nobody but the process inside has a command.
LEMMA Others ==
  ASSUME InstallationInv, NEW p \in Procs, at[p] = "in", NEW q \in Procs, q # p
  PROVE  at[q] # "in" /\ job[q] = NoJob
  BY DEF InstallationInv, LockInv, Alone, Holding

\* A step of the process inside.
LEMMA Works ==
  ASSUME InstallationInv, NEW p \in Procs, at[p] = "in", UNCHANGED lockVars, LockInv',
         NEW j, job' = [job EXCEPT ![p] = j], Work(disk', j)
  PROVE  InstallationInv'
<1>1. \A q \in Procs : at'[q] = at[q]
  BY DEF lockVars
<1>2. job'[p] = j /\ \A q \in Procs : q # p => job'[q] = job[q]
  BY DEF InstallationInv
<1>3. job' = [q \in Procs |-> job'[q]]
  BY DEF InstallationInv
<1>4. QED BY <1>1, <1>2, <1>3, Others DEF InstallationInv

\* It ends its command.
LEMMA Ended ==
  ASSUME InstallationInv, NEW p \in Procs, LockInv', disk' = disk,
         at'[p] # "in", \A q \in Procs : q # p => at'[q] = at[q],
         at[p] = "in" => job[p].phase # "remove",
         job' = [job EXCEPT ![p] = NoJob]
  PROVE  InstallationInv'
<1>1. job'[p] = NoJob /\ \A q \in Procs : q # p => job'[q] = job[q]
  BY DEF InstallationInv
<1>2. job' = [q \in Procs |-> job'[q]]
  BY DEF InstallationInv
<1>3. (\A q \in Procs : at'[q] # "in") => Sound(disk)
  BY DEF InstallationInv, Work
<1>4. QED BY <1>1, <1>2, <1>3 DEF InstallationInv

\* A change of phase, with the disk left alone.
LEMMA Phases0 ==
  ASSUME InstallationInv, NEW p \in Procs, at[p] = "in", UNCHANGED lockVars, LockInv',
         NEW phase, NEW todo, Phase(p, phase, todo), Work(disk', To(job[p], phase, todo))
  PROVE  InstallationInv'
<1>1. job' = [job EXCEPT ![p] = To(job[p], phase, todo)]
  BY DEF Phase, To
<1>2. QED BY <1>1, Works

\* Getting and giving up the lock leaves the disk alone.
LEMMA LocksKeep ==
  ASSUME InstallationInv, LockInv', NEW p \in Procs, Locks(p)
  PROVE  InstallationInv'
<1>1. /\ disk' = disk /\ job' = job
      /\ \A q \in Procs : at'[q] = "in" <=> at[q] = "in"
  BY DEF Locks, LockStep, Starts, Makes, Finds, Misses, Inspects, ReadsOwner, Restats,
         Renames, RemovesOwner, RemovesLock, Retries, Exits, Goes, GoesTo,
         InstallationInv, LockInv, LockTypeOK
<1>2. QED BY <1>1 DEF InstallationInv

\* Who gets the lock begins its command on a sound disk.
LEMMA BeginsKeep ==
  ASSUME InstallationInv, LockInv', NEW p \in Procs, Begins(p)
  PROVE  InstallationInv'
<1>1. PICK cmd \in Commands, v \in Versions :
        job' = [job EXCEPT ![p] = [NoJob EXCEPT !.cmd = cmd, !.version = v]]
  BY DEF Begins
<1> DEFINE j == [NoJob EXCEPT !.cmd = cmd, !.version = v]
<1>2. /\ disk' = disk /\ at[p] = "made" /\ at'[p] = "in"
      /\ \A q \in Procs : q # p => at'[q] = at[q]
  BY DEF Begins, Takes, GoesTo, Goes, InstallationInv, LockInv, LockTypeOK
<1>3. \A q \in Procs : at[q] # "in"
  BY <1>2 DEF InstallationInv, LockInv, Alone, Holding
<1>4. Sound(disk) /\ disk \in Disks
  BY <1>3 DEF InstallationInv, Sound
<1>5. Shaped(j) /\ j.phase = "open" /\ j.todo = <<>>
  BY DEF Shaped, NoJob, NoState, States, Phases
<1> HIDE DEF j
<1>6. Work(disk, j)
  BY <1>4, <1>5 DEF Work
<1>7. job'[p] = j /\ (\A q \in Procs : q # p => job'[q] = job[q])
      /\ job' = [q \in Procs |-> job'[q]]
  BY <1>1 DEF InstallationInv, j
<1>8. QED BY <1>2, <1>3, <1>6, <1>7 DEF InstallationInv

\* From phase to phase the disk is what the next phase starts from.
LEMMA PhasesKeep ==
  ASSUME InstallationInv, LockInv', NEW p \in Procs,
         \/ Recovers(p) \/ Recovered(p) \/ InstallStages(p) \/ RollbackStages(p)
         \/ UninstallBegins(p) \/ Activates(p) \/ Activated(p) \/ Finishes(p) \/ Refused(p)
  PROVE  InstallationInv'
<1> DEFINE j == job[p]
<1>1. /\ at[p] = "in" /\ UNCHANGED lockVars /\ disk' = disk /\ j.todo = <<>>
      /\ Work(disk, j) /\ Work(disk', j) /\ j.version \in Versions \cup {None}
  BY DEF Recovers, Recovered, InstallStages, RollbackStages, UninstallBegins, Activates,
         Activated, Finishes, Refused, Ready, Working, InstallationInv, Work, Shaped
<1>2. ASSUME NEW phase \in {"done", "failed"}, Phase(p, phase, <<>>), j.phase # "remove"
      PROVE  InstallationInv'
  BY <1>1, <1>2, MayEnd, Phases0
<1>3. CASE Recovers(p)
  <2>1. j.phase = "open" /\ (Phase(p, "recover", Recovery(disk)) \/ Phase(p, "failed", <<>>))
    BY <1>3 DEF Recovers, Ready, Working
  <2>2. QED BY <1>1, <1>2, <2>1, WorkRecovers, Phases0
<1>4. CASE Recovered(p)
  <2>1. /\ j.phase = "recover"
        /\ job' = [job EXCEPT ![p] = [j EXCEPT !.phase = "begin", !.was = disk.state]]
    BY <1>4 DEF Recovered, Ready, Working
  <2>2. Work(disk', [j EXCEPT !.phase = "begin", !.was = disk.state])
    BY <1>1, <2>1, WorkRecovered
  <2>3. QED BY <1>1, <2>1, <2>2, Works
<1>5. CASE InstallStages(p)
  <2> DEFINE todo == <<Set("releases", disk.releases \cup {j.version}),
                       Set("tx", [from |-> disk.state.current, to |-> j.version])>>
  <2>1. /\ j.phase = "begin" /\ j.cmd = "install"
        /\ Phase(p, "stage", todo) \/ Phase(p, "failed", <<>>)
    BY <1>5 DEF InstallStages, Ready, Working
  <2>2. CASE Phase(p, "failed", <<>>)
    BY <1>2, <2>1, <2>2
  <2>3. CASE Phase(p, "stage", todo) /\ j.version \in Versions
    <3>1. Work(disk', To(j, "stage", todo))
      BY <1>1, <2>1, <2>3, WorkStages
    <3> HIDE DEF todo
    <3>2. QED BY <1>1, <2>3, <3>1, Phases0
  <2>4. j.version \in Versions
    BY <1>1 DEF Work, Shaped
  <2>5. QED BY <2>1, <2>2, <2>3, <2>4
<1>6. CASE RollbackStages(p)
  <2> DEFINE to == disk.state.previous
             k == [j EXCEPT !.phase = "stage", !.version = to,
                     !.todo = <<Set("tx", [from |-> disk.state.current, to |-> to])>>]
  <2>1. /\ j.phase = "begin" /\ j.cmd = "rollback"
        /\ \/ Phase(p, "failed", <<>>)
           \/ to # None /\ job' = [job EXCEPT ![p] = k]
    BY <1>6 DEF RollbackStages, Ready, Working
  <2>2. CASE Phase(p, "failed", <<>>)
    BY <1>2, <2>1, <2>2
  <2>3. CASE to # None /\ job' = [job EXCEPT ![p] = k]
    <3>1. Work(disk', k)
      BY <1>1, <2>1, <2>3, WorkRollsBack
    <3> HIDE DEF k
    <3>2. QED BY <1>1, <2>3, <3>1, Works
  <2>4. QED BY <2>1, <2>2, <2>3
<1>7. CASE UninstallBegins(p)
  <2>1. j.phase = "begin" /\ (Phase(p, "done", <<>>) \/ Phase(p, "remove", Removal))
    BY <1>7 DEF UninstallBegins, Ready, Working
  <2>2. QED BY <1>1, <1>2, <2>1, WorkRemoves, Phases0
<1>8. CASE Activates(p)
  <2> DEFINE todo == Activation(j.version, IF j.cmd = "rollback" THEN j.was.current
                                           ELSE Previous(j.was, j.version))
  <2>1. j.phase = "stage" /\ Phase(p, "activate", todo)
    BY <1>8 DEF Activates, Ready, Working
  <2>2. Work(disk', To(j, "activate", todo))
    BY <1>1, <2>1, WorkActivates
  <2> HIDE DEF todo
  <2>3. QED BY <1>1, <2>1, <2>2, Phases0
<1>9. CASE Activated(p)
  <2>1. j.phase = "activate" /\ Phase(p, "clear", ClearTransaction)
    BY <1>9 DEF Activated, Ready, Working
  <2>2. QED BY <1>1, <2>1, WorkActivated, Phases0
<1>10. CASE Finishes(p)
  <2>1. CASE j.phase = "remove" /\ Phase(p, "done", <<>>)
    <3>1. /\ disk \in Disks /\ Shaped(j) /\ Removes(disk, j) /\ "done" \in Phases
      BY <1>1, <2>1 DEF Work, Phases
    <3>2. Sound(disk)
      BY <1>1, <3>1 DEF Removes
    <3>3. Work(disk', To(j, "done", <<>>))
      BY <1>1, <3>1, <3>2, ToIs DEF Work
    <3>4. QED BY <1>1, <2>1, <3>3, Phases0
  <2>2. CASE j.phase # "remove" /\ (Phase(p, "done", <<>>) \/ Phase(p, "failed", <<>>))
    BY <1>2, <2>2
  <2>3. QED BY <1>10, <2>1, <2>2 DEF Finishes, Ready, Working
<1>11. CASE Refused(p)
  <2>1. j.phase # "remove" /\ Phase(p, "failed", <<>>)
    BY <1>11 DEF Refused, Ready, Working
  <2>2. QED BY <1>2, <2>1
<1>12. QED BY <1>3, <1>4, <1>5, <1>6, <1>7, <1>8, <1>9, <1>10, <1>11

\* Each change of a phase keeps what its phase says.
LEMMA ChangesKeepInv ==
  ASSUME InstallationInv, LockInv', NEW p \in Procs, Changes(p) \/ RemovesRelease(p)
  PROVE  InstallationInv'
<1> DEFINE j == job[p]
<1>1. at[p] = "in" /\ UNCHANGED lockVars /\ j.todo # <<>> /\ Work(disk, j)
  BY DEF Changes, RemovesRelease, Working, InstallationInv
<1>2. CASE Changes(p)
  <2>1. /\ disk' = Make(disk, Head(j.todo))
        /\ job' = [job EXCEPT ![p] = Step(j)]
    BY <1>2 DEF Changes, Made, Make, Step
  <2>2. Work(disk', Step(j))
    BY <1>1, <2>1, ChangesKeep
  <2>3. QED BY <1>1, <2>1, <2>2, Works
<1>3. CASE RemovesRelease(p)
  <2>1. /\ j.phase = "remove" /\ Head(j.todo).part = "releases" /\ job' = job
        /\ \E v \in disk.releases : disk' = [disk EXCEPT !.releases = @ \ {v}]
    BY <1>3 DEF RemovesRelease, Working
  <2>2. Work(disk', j)
    <3>1. PICK v \in disk.releases : disk' = [disk EXCEPT !.releases = @ \ {v}]
      BY <2>1
    <3>2. Work([disk EXCEPT !.releases = @ \ {v}], j)
      BY <1>1, <2>1, WorkRemovesRelease
    <3>3. QED BY <3>1, <3>2
  <2>3. job' = [job EXCEPT ![p] = j]
    BY <2>1 DEF InstallationInv
  <2>4. QED BY <1>1, <2>2, <2>3, Works
<1>4. QED BY <1>2, <1>3

\* What a phase makes of a job does not depend on what it still had to do.
LEMMA StepTo ==
  ASSUME NEW j, Shaped(j), NEW phase \in Phases, NEW todo
  PROVE  To(Step(j), phase, todo) = To(j, phase, todo)
  BY DEF Step, To, Shaped

\* A change that fails, with or without its effect, drops the list or restores.
LEMMA BreaksKeep ==
  ASSUME ~UninstallDies, InstallationInv, LockInv', NEW p \in Procs, Breaks(p)
  PROVE  InstallationInv'
<1> DEFINE j == job[p]
           e == Make(disk, Head(j.todo))
<1>1. /\ at[p] = "in" /\ UNCHANGED lockVars /\ j.todo # <<>> /\ Work(disk, j)
      /\ j.phase # "remove" /\ Shaped(j) /\ disk' \in {disk, e}
  BY DEF Breaks, MayStop, Made, Make, InstallationInv, Work
<1>2. Work(e, Step(j))
  BY <1>1, ChangesKeep
<1>3. /\ Step(j).phase = j.phase /\ Step(j).was = j.was
      /\ \A phase \in Phases : \A todo : To(Step(j), phase, todo) = To(j, phase, todo)
      /\ {"restore", "failed"} \subseteq Phases
  BY <1>1, StepTo, StepIs DEF Phases
<1> HIDE DEF e
<1>4. CASE j.phase = "activate"
  <2> DEFINE todo == Restoration(j.was) \o ClearTransaction
  <2>1. Phase(p, "restore", todo)
    BY <1>4 DEF Breaks
  <2>2. Work(disk, To(j, "restore", todo)) /\ Work(e, To(j, "restore", todo))
    BY <1>1, <1>2, <1>3, <1>4, WorkRestores
  <2> HIDE DEF todo
  <2>3. Work(disk', To(j, "restore", todo))
    BY <1>1, <2>2
  <2>4. QED BY <1>1, <2>1, <2>3, Phases0
<1>5. CASE j.phase # "activate"
  <2>1. Phase(p, "failed", <<>>)
    BY <1>5 DEF Breaks
  <2>2. Work(disk, To(j, "failed", <<>>)) /\ Work(e, To(j, "failed", <<>>))
    BY <1>1, <1>2, <1>3, MayEnd
  <2>3. Work(disk', To(j, "failed", <<>>))
    BY <1>1, <2>2
  <2>4. QED BY <1>1, <2>1, <2>3, Phases0
<1>6. QED BY <1>4, <1>5

\* A command that ends or dies leaves a disk the next can start from.
LEMMA EndsKeep ==
  ASSUME ~UninstallDies, InstallationInv, LockInv', NEW p \in Procs, Ends(p) \/ Stops(p)
  PROVE  InstallationInv'
<1>1. /\ disk' = disk /\ job' = [job EXCEPT ![p] = NoJob]
      /\ at[p] = "in" => job[p].phase # "remove"
  BY DEF Ends, Stops, MayStop
<1>2. at'[p] # "in" /\ \A q \in Procs : q # p => at'[q] = at[q]
  BY DEF Ends, Stops, Leaves, Dies, Exits, GoesTo, Goes, InstallationInv, LockInv, LockTypeOK
<1>3. QED BY <1>1, <1>2, Ended

-----------------------------------------------------------------------------
(* The theorems. *)

\* Every step of an installation takes, gives up or leaves the lock.
LEMMA StepsAreLocked == [InstallationNext]_installationVars => [LockNext]_lockVars
  BY DEF InstallationNext, installationVars, LockNext, Locks, Begins, Recovers, Recovered,
         InstallStages, RollbackStages, UninstallBegins, Activates, Activated, Finishes,
         Changes, RemovesRelease, Breaks, Refused, Ends, Stops, Ready, Working

\* The commands use the lock as withInstallLock does: nothing that is done under
\* it disturbs it.
THEOREM ImplementsLock == InstallationSpec => LockSpec
  BY StepsAreLocked, PTL DEF InstallationSpec, InstallationInit, LockSpec

\* Every step of an installation keeps the invariant.
LEMMA InstallationStepsKeep ==
  ASSUME ~Reuse, ~LeaverDies, ~UninstallDies, InstallationInv,
         [InstallationNext]_installationVars
  PROVE  InstallationInv'
<1>1. LockInv'
  BY StepsAreLocked, LockStepsKeep DEF InstallationInv
<1>2. ASSUME NEW p \in Procs,
             \/ Locks(p) \/ Begins(p) \/ Recovers(p) \/ Recovered(p)
             \/ InstallStages(p) \/ RollbackStages(p) \/ UninstallBegins(p)
             \/ Activates(p) \/ Activated(p) \/ Finishes(p)
             \/ Changes(p) \/ RemovesRelease(p) \/ Breaks(p) \/ Refused(p) \/ Ends(p) \/ Stops(p)
      PROVE  InstallationInv'
  BY <1>1, <1>2, LocksKeep, BeginsKeep, PhasesKeep, ChangesKeepInv, BreaksKeep, EndsKeep
<1>3. CASE UNCHANGED installationVars
  BY <1>1, <1>3 DEF installationVars, lockVars, InstallationInv
<1>4. QED BY <1>2, <1>3 DEF InstallationNext

\* In every phase of every command the disk is one a later command can go on from.
THEOREM InstallationInvariant ==
  ASSUME ~Reuse, ~LeaverDies, ~UninstallDies PROVE InstallationSpec => []InstallationInv
  BY Starts0, InstallationStepsKeep, PTL DEF InstallationSpec

\* The invariant gives the three properties of the disk.
LEMMA InvSettles == InstallationInv => ReferencesRun /\ Settled /\ NeverStuck
<1> SUFFICES ASSUME InstallationInv PROVE ReferencesRun /\ Settled /\ NeverStuck
  OBVIOUS
<1>1. ~Removing => Sound(disk)
  BY DEF InstallationInv, Removing, Work
<1>2. (\A p \in Procs : at[p] # "in") => Sound(disk)
  BY DEF InstallationInv
<1>3. Sound(disk) => Recoverable(disk)
  BY DEF Sound, Valid, Recoverable, RecoveryTarget
<1>4. ReferencesRun
  BY <1>1 DEF ReferencesRun, Present, Sound, Valid
<1>5. Settled
  <2> SUFFICES ASSUME disk.tx = NoTx, \A p \in Procs : at[p] # "in"
               PROVE  IF disk.state = NoState THEN disk.link = None /\ ~disk.launcher
                      ELSE disk.link = disk.state.current /\ disk.launcher
    BY DEF Settled
  <2>1. /\ disk.link = disk.state.current /\ disk.launcher = (disk.state.current # None)
        /\ disk.state \in States /\ (disk.state.current = None => disk.state.previous = None)
    BY <1>2 DEF Sound, Valid
  <2>2. disk.state = NoState <=> disk.state.current = None
    BY <2>1 DEF States, NoState
  <2>3. QED BY <2>1, <2>2 DEF NoState
<1>6. QED BY <1>2, <1>3, <1>4, <1>5 DEF NeverStuck

\* docs/install.md: the link a service starts from, and the previous release of
\* the state file, are complete releases, whatever was interrupted and however
\* many installers there are.
THEOREM LinksRun ==
  ASSUME ~Reuse, ~LeaverDies, ~UninstallDies PROVE InstallationSpec => []ReferencesRun
  BY InstallationInvariant, InvSettles, PTL

\* Without a pending transaction the link, the launcher and the state agree.
THEOREM IsSettled ==
  ASSUME ~Reuse, ~LeaverDies, ~UninstallDies PROVE InstallationSpec => []Settled
  BY InstallationInvariant, InvSettles, PTL

\* Every pending transaction can be recovered by the next command.
THEOREM IsNeverStuck ==
  ASSUME ~Reuse, ~LeaverDies, ~UninstallDies PROVE InstallationSpec => []NeverStuck
  BY InstallationInvariant, InvSettles, PTL

\* A command succeeds when it has nothing left to do.
LEMMA SucceedsAtTheEnd ==
  ASSUME InstallationInv, [InstallationNext]_installationVars, NEW p \in Procs,
         job[p].phase = "clear", job'[p].phase = "done"
  PROVE  job[p].todo = <<>>
<1>1. job' # job
  OBVIOUS
<1>2. PICK q \in Procs :
        \/ Recovers(q) \/ Recovered(q) \/ InstallStages(q) \/ RollbackStages(q)
        \/ UninstallBegins(q) \/ Activates(q) \/ Activated(q) \/ Finishes(q)
        \/ Begins(q) \/ Changes(q) \/ Breaks(q) \/ Refused(q) \/ Ends(q) \/ Stops(q)
  BY <1>1 DEF InstallationNext, installationVars, Locks, RemovesRelease
<1>3. \A j : job' = [job EXCEPT ![q] = j] => IF q = p THEN job'[p] = j ELSE job'[p] = job[p]
  BY DEF InstallationInv
<1>4. at[p] = "in" /\ Work(disk, job[p])
  BY DEF InstallationInv, NoJob
<1>5. q = p
  <2>1. \E j : job' = [job EXCEPT ![q] = j]
    BY ZenonT(60), <1>2 DEF Recovers, Recovered, InstallStages, RollbackStages, UninstallBegins,
       Activates, Activated, Finishes, Begins, Changes, Breaks, Refused, Ends, Stops, Phase
  <2>2. QED BY <1>3, <2>1
<1>6. CASE job[p].todo # <<>>
  <2>1. Changes(p) \/ Breaks(p) \/ Ends(p) \/ Stops(p) \/ Begins(p)
    BY <1>2, <1>5, <1>6 DEF Recovers, Recovered, InstallStages, RollbackStages,
       UninstallBegins, Activates, Activated, Finishes, Refused, Ready, Working
  <2>2. ~Begins(p) /\ ~Ends(p)
    BY <1>4 DEF Begins, Takes, Ends
  <2>3. CASE Changes(p)
    BY <1>3, <1>5, <2>3, StepIs, <1>4 DEF Changes, Step, Work
  <2>4. CASE Breaks(p)
    <3>1. job' = [job EXCEPT ![p] = To(job[p], "failed", <<>>)]
      BY <2>4 DEF Breaks, Phase, To
    <3>2. job'[p] = To(job[p], "failed", <<>>) /\ "failed" \in Phases
      BY <1>3, <1>5, <3>1 DEF Phases
    <3>3. QED BY <1>4, <3>2, ToIs DEF Work
  <2>5. CASE Stops(p)
    BY <1>3, <1>5, <2>5 DEF Stops, NoJob
  <2>6. QED BY <2>1, <2>2, <2>3, <2>4, <2>5
<1>7. QED BY <1>6

\* A command that restored what it found, or that reports success, says so
\* rightly: of what the whole disk is then.
THEOREM IsTruthful ==
  ASSUME ~Reuse, ~LeaverDies, ~UninstallDies PROVE InstallationSpec => TellsTheTruth
<1> DEFINE Restored(p) == disk.state = job[p].was /\ disk.link = job[p].was.current
                          /\ disk.tx = NoTx
           Installed(p) == /\ disk.link = job[p].version /\ disk.state.current = job[p].version
                           /\ disk.launcher /\ disk.tx = NoTx
<1>1. ASSUME InstallationInv, NEW p \in Procs, job[p].todo = <<>>
      PROVE  /\ job[p].phase = "restore" => Restored(p)
             /\ job[p].phase = "clear" => Installed(p)
  <2>1. job[p].phase \in {"restore", "clear"} => Work(disk, job[p]) /\ Sound(disk)
    BY <1>1 DEF InstallationInv, NoJob, Work
  <2>2. job[p].phase = "restore" => disk.state = job[p].was /\ disk.tx = NoTx
    BY <1>1, <2>1 DEF Work, Restoring
  <2>3. QED BY <1>1, <2>1, <2>2 DEF Work, Clearing, Sound
<1>2. ASSUME InstallationInv, [InstallationNext]_installationVars, NEW p \in Procs
      PROVE  /\ job[p].phase = "restore" /\ job'[p].phase = "failed" /\ job[p].todo = <<>>
                => Restored(p)
             /\ job[p].phase = "clear" /\ job'[p].phase = "done" => Installed(p)
  BY <1>1, <1>2, SucceedsAtTheEnd
<1>3. InstallationInv /\ [InstallationNext]_installationVars =>
        [\A p \in Procs :
           /\ job[p].phase = "restore" /\ job'[p].phase = "failed" /\ job[p].todo = <<>> =>
                /\ disk.state = job[p].was /\ disk.link = job[p].was.current /\ disk.tx = NoTx
           /\ job[p].phase = "clear" /\ job'[p].phase = "done" =>
                /\ disk.link = job[p].version /\ disk.state.current = job[p].version
                /\ disk.launcher /\ disk.tx = NoTx]_installationVars
  BY <1>2
<1>4. QED BY <1>3, InstallationInvariant, PTL DEF InstallationSpec, TellsTheTruth

\* Two installers are never at work at the same time.
THEOREM InstallersExclude ==
  ASSUME ~Reuse, ~LeaverDies PROVE InstallationSpec => []OneInstaller
  BY ImplementsLock, LockExcludes, PTL
=============================================================================
