---------------------------- MODULE LaunchLedger ----------------------------
(***************************************************************************)
(* core/launch-ledger.js as a state machine: one process at a time holds    *)
(* the writer lease, mutations run one after another (#exclusive), each     *)
(* changes the Maps first and then awaits the file write, and a write that  *)
(* throws puts the Maps back.  The write can throw after the rename         *)
(* (secure-state.js: chmod, opening or syncing the directory), which leaves *)
(* the file one mutation ahead of memory.  The process can die at any       *)
(* moment.                                                                  *)
(*                                                                         *)
(* Readers (get, findBy..., list) are synchronous and see mem, a mutation   *)
(* that is still being written included.                                   *)
(***************************************************************************)
EXTENDS LedgerDocument

CONSTANT LegacyRecords  \* record tables version-1 files may hold

LegacyFile(r) == [rec |-> r, tombs |-> <<>>, cleanups |-> NoCleanups,
                  explicit |-> FALSE, legacy |-> TRUE]

ASSUME LegacyAssumption ==
  \A r \in LegacyRecords :
    /\ r \in [Ids -> Entry]
    /\ Acceptable(LegacyFile(r))
    /\ Cardinality({i \in Ids : r[i].state \in Pending}) <= MaxPending

VARIABLES
  status,   \* "closed", "open" or "writing" (a mutation awaits its write)
  mem,      \* the three Maps
  compact,  \* #compactCleanupEncoding
  undo,     \* what the mutation being written falls back to
  disk,     \* the ledger file
  ahead,    \* the last write threw after its rename
  issued    \* ids the random generator has drawn (history)

vars == <<status, mem, compact, undo, disk, ahead, issued>>

FreshFile == [rec |-> Empty.rec, tombs |-> <<>>, cleanups |-> NoCleanups,
              explicit |-> TRUE, legacy |-> FALSE]

Init ==
  /\ disk \in {FreshFile} \cup {LegacyFile(r) : r \in LegacyRecords}
  /\ status = "closed" /\ mem = Empty /\ undo = Empty
  /\ compact = FALSE /\ ahead = FALSE
  /\ issued = {i \in Ids : disk.rec[i].state # "absent"}

-----------------------------------------------------------------------------
(* Opening and closing. *)

\* open: validate, load, and rewrite a version-1 file as version 2 in place.
Open ==
  /\ status = "closed"
  /\ Acceptable(disk)
  /\ status' = "open"
  /\ mem' = Decoded(disk)
  /\ compact' = DecodedCompact(disk)
  /\ disk' = [disk EXCEPT !.legacy = FALSE]
  /\ ahead' = FALSE
  /\ UNCHANGED <<undo, issued>>

\* The migration's write throws after its rename: the ledger stays closed.
OpenFailsMigrated ==
  /\ status = "closed" /\ disk.legacy /\ Acceptable(disk)
  /\ disk' = [disk EXCEPT !.legacy = FALSE]
  /\ UNCHANGED <<status, mem, compact, undo, ahead, issued>>

Forgotten == /\ mem' = Empty /\ undo' = Empty
             /\ compact' = FALSE /\ ahead' = FALSE

Close ==
  /\ status = "open"
  /\ status' = "closed"
  /\ Forgotten
  /\ UNCHANGED <<disk, issued>>

\* The process dies; a write in progress may already have been renamed.
Crash ==
  /\ status # "closed"
  /\ status' = "closed"
  /\ \/ UNCHANGED disk
     \/ status = "writing" /\ disk' = Encoded(mem, compact)
  /\ Forgotten
  /\ UNCHANGED issued

-----------------------------------------------------------------------------
(* Mutations, up to the await of the write. *)

Mutate(next) ==
  /\ status = "open"
  /\ status' = "writing"
  /\ mem' = next
  /\ undo' = mem
  /\ UNCHANGED <<compact, disk, ahead>>

\* Variant: the key of a running or completed retirement may start a launch.
ReserveMixingRoles(k, r) ==
  \E i \in Ids \ issued :
    /\ HasRoom(mem)
    /\ k \notin CreationKeys(mem) \cup TombCreationKeys(mem)
    /\ Mutate(Reserved(mem, i, k, r))
    /\ issued' = issued \cup {i}

Reserve(k, r) ==
  \E i \in Ids \ issued :
    /\ HasRoom(mem)
    /\ KeyIsFresh(mem, k)
    /\ Mutate(Reserved(mem, i, k, r))
    /\ issued' = issued \cup {i}

\* Variant: the expected states are not looked at.
TransitionUnchecked(i, expected, to) ==
  /\ mem.rec[i].state # "absent"
  /\ Mutate([mem EXCEPT !.rec[i].state = to])
  /\ UNCHANGED issued

Transition(i, expected, to) ==
  /\ mem.rec[i].state \in expected
  /\ Mutate(Transitioned(mem, i, expected, to))
  /\ UNCHANGED issued

BeginRetirement(i, k) ==
  /\ mem.rec[i].state = "owned"
  /\ CleanupRoom(mem)
  /\ KeyIsFresh(mem, k)
  /\ Mutate(RetirementBegun(mem, i, k))
  /\ UNCHANGED issued

CompleteRetirement(i, scoped) ==
  /\ mem.rec[i].state = "retiring"
  /\ Mutate(RetirementCompleted(mem, i, scoped))
  /\ UNCHANGED issued

CompleteRetirementCleanup(i) ==
  /\ mem.cleanups[i] # NoKey
  /\ Mutate(CleanupCompleted(mem, i, compact))
  /\ UNCHANGED issued

CancelRetirement(i) ==
  /\ mem.rec[i].state = "retiring"
  /\ Mutate(RetirementCanceled(mem, i))
  /\ UNCHANGED issued

-----------------------------------------------------------------------------
(* How the awaited write ends. *)

PersistOk ==
  /\ status = "writing"
  /\ status' = "open"
  /\ disk' = Encoded(mem, compact)
  /\ ahead' = FALSE
  /\ undo' = Empty
  /\ UNCHANGED <<mem, compact, issued>>

\* Variant: only the records are put back.
PersistFailsKeepingTombs ==
  /\ status = "writing"
  /\ status' = "open"
  /\ \/ UNCHANGED <<disk, ahead>>
     \/ disk' = Encoded(mem, compact) /\ ahead' = TRUE
  /\ mem' = [mem EXCEPT !.rec = undo.rec]
  /\ undo' = Empty
  /\ UNCHANGED <<compact, issued>>

\* Before the rename (the size limit included) or after it.
PersistFails ==
  /\ status = "writing"
  /\ status' = "open"
  /\ \/ UNCHANGED <<disk, ahead>>
     \/ disk' = Encoded(mem, compact) /\ ahead' = TRUE
  /\ mem' = undo
  /\ undo' = Empty
  /\ UNCHANGED <<compact, issued>>

-----------------------------------------------------------------------------
\* The transitions the coordinator asks for: #create, start and #settle.
Settled == {"owned", "failed", "uncertain"}

CoordinatorTransition(i) ==
  \/ Transition(i, {"requested"}, "creating")
  \/ Transition(i, {"creating"}, "uncertain")
  \/ \E to \in Settled : Transition(i, {"creating", "uncertain"}, to)

Next ==
  \/ Open \/ OpenFailsMigrated \/ Close \/ Crash
  \/ \E k \in Keys, r \in Requests : Reserve(k, r)
  \/ \E i \in Ids : CoordinatorTransition(i)
  \/ \E i \in Ids, k \in Keys : BeginRetirement(i, k)
  \/ \E i \in Ids, scoped \in BOOLEAN : CompleteRetirement(i, scoped)
  \/ \E i \in Ids : CompleteRetirementCleanup(i)
  \/ \E i \in Ids : CancelRetirement(i)
  \/ PersistOk \/ PersistFails

Spec == Init /\ [][Next]_vars

-----------------------------------------------------------------------------
(* Properties. *)

\* The shape of the Maps, of the rollback copy and of the file.
TypeOK ==
  /\ status \in {"closed", "open", "writing"}
  /\ mem \in Document /\ undo \in Document
  /\ disk \in File
  /\ compact \in BOOLEAN /\ ahead \in BOOLEAN
  /\ issued \subseteq Ids

\* Whatever the ledger has written, and whenever the process died, open()
\* accepts the file: no key claimed by two launches, two roles or a launch
\* and a tombstone, every count inside its limit, every cleanup matching its
\* tombstone.  A file open() refused would keep the service down for good.
FileReopens == Acceptable(disk)

\* Reading the file back gives exactly the Maps it was written from, through
\* the compact encoding that leaves the cleanups to the tombstones: no owed
\* provider cleanup is lost and none is owed twice.  When a write threw after
\* its rename, the file is that of the mutation that was undone.
FileTellsMemory ==
  /\ status = "open" /\ ~ahead => Decoded(disk) = mem
  /\ status = "writing" /\ ~ahead => Decoded(disk) = undo
  /\ status # "closed" => Decoded(Encoded(mem, compact)) = mem

\* Admission control: never more unresolved intents than MAX_PENDING, though
\* uncertain launches stay unresolved and mutations are undone.
PendingBounded == Cardinality(InState(mem, Pending)) <= MaxPending

\* The edges of the launch lifecycle (README "States are ...").  A durable
\* change of a record follows one of them, unless the file was ahead: a late
\* provider answer never rewrites a decided record, a failed launch never
\* comes back, and a retiring one only returns to owned or becomes a
\* tombstone.
Edges == {<<"absent", "requested">>, <<"requested", "creating">>,
          <<"creating", "uncertain">>, <<"creating", "owned">>,
          <<"creating", "failed">>, <<"uncertain", "owned">>,
          <<"uncertain", "failed">>, <<"owned", "retiring">>,
          <<"retiring", "owned">>, <<"retiring", "absent">>}
Follows(old, new) ==
  /\ <<old.state, new.state>> \in Edges
  /\ (new.state \notin {"absent", "requested"}) =>
       new.key = old.key /\ new.request = old.request
DurableLifecycle ==
  [][\A i \in Ids :
       (~ahead /\ disk.rec[i] # disk'.rec[i])
         => Follows(disk.rec[i], disk'.rec[i])]_vars
=============================================================================
