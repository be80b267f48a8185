--------------------------- MODULE LedgerDocument ---------------------------
(***************************************************************************)
(* The launch ledger as a value: what core/launch-ledger.js keeps in its   *)
(* three Maps, what each of its mutations makes of them, what it writes to *)
(* the file and what open() accepts and reads back.  No state here: the    *)
(* modules LaunchLedger and LaunchCoordinator hold such values in memory   *)
(* and on disk.                                                            *)
(*                                                                         *)
(* A launch id stands for itself and for its attempt id: both are drawn    *)
(* together, at random, once per record.  A request stands for the         *)
(* normalized request and for its signature.  Fields whose values never    *)
(* decide anything (timestamps, provider ids, error codes) are left out.   *)
(***************************************************************************)
EXTENDS Naturals, Sequences, FiniteSets

CONSTANTS
  Ids,             \* launch identifiers the random generator may draw
  Keys,            \* hashed idempotency keys
  NoKey,           \* no key: the field is undefined
  Requests,        \* normalized launch requests
  NoRequest,       \* the request of a launch that has no record
  MaxPending,      \* MAX_PENDING
  MaxRecords,      \* MAX_RECORDS
  MaxRetirements,  \* MAX_RETIREMENTS
  MaxCleanups      \* MAX_RETIREMENT_CLEANUPS

ASSUME LedgerAssumption ==
  /\ IsFiniteSet(Ids)
  /\ NoKey \notin Keys
  /\ NoRequest \notin Requests
  /\ MaxPending \in Nat
  /\ MaxRecords \in Nat
  /\ MaxRetirements \in Nat \ {0}
  /\ MaxCleanups \in Nat

-----------------------------------------------------------------------------
(* Shapes. *)

States == {"absent", "requested", "creating", "uncertain", "owned", "failed",
           "retiring"}
Pending == {"requested", "creating", "uncertain"}

Entry == [state: States, key: Keys \cup {NoKey}, retireKey: Keys \cup {NoKey},
          request: Requests \cup {NoRequest}]
Absent == [state |-> "absent", key |-> NoKey, retireKey |-> NoKey,
           request |-> NoRequest]

\* A replay tombstone; scoped says whether the provider gave a cleanupScope.
Tomb == [id: Ids, key: Keys, retireKey: Keys, request: Requests,
         scoped: BOOLEAN]

\* cleanups[i] is the retirement key of i's outstanding cleanup, or NoKey.
Document == [rec: [Ids -> Entry], tombs: Seq(Tomb),
             cleanups: [Ids -> Keys \cup {NoKey}]]

Empty == [rec |-> [i \in Ids |-> Absent], tombs |-> <<>>,
          cleanups |-> [i \in Ids |-> NoKey]]

-----------------------------------------------------------------------------
(* Finders and counts. *)

Recorded(d) == {i \in Ids : d.rec[i].state # "absent"}
InState(d, S) == {i \in Ids : d.rec[i].state \in S}
Owing(d) == {i \in Ids : d.cleanups[i] # NoKey}

CreationKeys(d) == {d.rec[i].key : i \in Recorded(d)}
RetirementKeys(d) == {d.rec[i].retireKey : i \in InState(d, {"retiring"})}
TombCreationKeys(d) == {d.tombs[m].key : m \in DOMAIN d.tombs}
TombRetirementKeys(d) == {d.tombs[m].retireKey : m \in DOMAIN d.tombs}

-----------------------------------------------------------------------------
(* Mutations.  Each pairs what lets the code make the change with the      *)
(* document it makes; a mutation the code refuses leaves the document as   *)
(* it is and is told apart by the caller through the guards.               *)

\* reserve: the key names no record, no tombstone and no retirement, and
\* there is room.
KeyIsFresh(d, k) ==
  k \notin CreationKeys(d) \cup RetirementKeys(d)
           \cup TombCreationKeys(d) \cup TombRetirementKeys(d)
\* Variant: uncertain launches do not count as pending.
HasRoomIgnoringUncertain(d) ==
  /\ Cardinality(InState(d, Pending \ {"uncertain"})) < MaxPending
  /\ Cardinality(Recorded(d)) < MaxRecords
HasRoom(d) ==
  /\ Cardinality(InState(d, Pending)) < MaxPending
  /\ Cardinality(Recorded(d)) < MaxRecords
Reserved(d, i, k, r) ==
  [d EXCEPT !.rec[i] = [state |-> "requested", key |-> k,
                        retireKey |-> NoKey, request |-> r]]

\* transition: a record in none of the expected states is returned unchanged.
Transitioned(d, i, expected, to) ==
  IF d.rec[i].state \in expected THEN [d EXCEPT !.rec[i].state = to] ELSE d

\* beginRetirement, on an owned record.
CleanupRoom(d) ==
  Cardinality(Owing(d)) + Cardinality(InState(d, {"retiring"})) < MaxCleanups
RetirementBegun(d, i, k) ==
  [d EXCEPT !.rec[i].state = "retiring", !.rec[i].retireKey = k]

\* cancelRetirement, on a retiring record with this key.
RetirementCanceled(d, i) ==
  [d EXCEPT !.rec[i].state = "owned", !.rec[i].retireKey = NoKey]

\* completeRetirement: the record becomes a tombstone, the oldest tombstone
\* beyond the limit is dropped, and a scoped retirement owes a cleanup.
TombOf(i, e, scoped) ==
  [id |-> i, key |-> e.key, retireKey |-> e.retireKey, request |-> e.request,
   scoped |-> scoped]
DropOldest(s) == IF Len(s) > MaxRetirements THEN Tail(s) ELSE s
RetirementCompleted(d, i, scoped) ==
  [rec |-> [d.rec EXCEPT ![i] = Absent],
   tombs |-> DropOldest(Append(d.tombs, TombOf(i, d.rec[i], scoped))),
   cleanups |-> [d.cleanups EXCEPT
                   ![i] = IF scoped THEN d.rec[i].retireKey ELSE NoKey]]

\* completeRetirementCleanup: with the compact encoding the tombstone also
\* loses its scope, or the next reader would owe the cleanup again.
Owes(d, t) == t.scoped /\ d.cleanups[t.id] = t.retireKey
CleanupCompleted(d, i, compact) ==
  [d EXCEPT
     !.cleanups[i] = NoKey,
     !.tombs = [m \in DOMAIN d.tombs |->
                  IF compact /\ d.tombs[m].id = i /\ Owes(d, d.tombs[m])
                  THEN [d.tombs[m] EXCEPT !.scoped = FALSE]
                  ELSE d.tombs[m]]]

-----------------------------------------------------------------------------
(* The file.  explicit says whether retirementCleanups is written out; a    *)
(* compact ledger leaves it out when the scoped tombstones say the same.   *)
(* legacy marks a version-1 file, which has neither tombstones nor         *)
(* cleanups.                                                               *)

File == [rec: [Ids -> Entry], tombs: Seq(Tomb),
         cleanups: [Ids -> Keys \cup {NoKey}], explicit: BOOLEAN,
         legacy: BOOLEAN]

NoCleanups == [i \in Ids |-> NoKey]

ScopedTombs(d) == {m \in DOMAIN d.tombs : d.tombs[m].scoped}
TombsTellCleanups(d) ==
  /\ Cardinality(ScopedTombs(d)) = Cardinality(Owing(d))
  /\ \A m \in ScopedTombs(d) : Owes(d, d.tombs[m])

Encoded(d, compact) ==
  LET bare == d.tombs = <<>> /\ Owing(d) = {}
      explicit == ~bare /\ (compact => ~TombsTellCleanups(d))
  IN  [rec |-> d.rec, tombs |-> d.tombs,
       cleanups |-> IF explicit THEN d.cleanups ELSE NoCleanups,
       explicit |-> explicit, legacy |-> FALSE]

TombCleanup(f, i) ==
  LET S == {m \in DOMAIN f.tombs : f.tombs[m].id = i /\ f.tombs[m].scoped}
  IN  IF S = {} THEN NoKey ELSE f.tombs[CHOOSE m \in S : TRUE].retireKey

Decoded(f) ==
  [rec |-> f.rec, tombs |-> f.tombs,
   cleanups |-> IF f.explicit THEN f.cleanups
                ELSE [i \in Ids |-> TombCleanup(f, i)]]

DecodedCompact(f) == ~f.legacy /\ ~f.explicit

-----------------------------------------------------------------------------
(* What open() demands of a document, in the order it checks it.            *)

KeysOf(e) == {e.key, e.retireKey} \ {NoKey}

RecordKeysDistinct(d) ==
  /\ \A i \in Ids : d.rec[i].retireKey # NoKey => d.rec[i].retireKey # d.rec[i].key
  /\ \A i, j \in Ids : i # j => KeysOf(d.rec[i]) \cap KeysOf(d.rec[j]) = {}
TombKeysDistinct(d) ==
  /\ \A m \in DOMAIN d.tombs : d.tombs[m].retireKey # d.tombs[m].key
  /\ \A m, n \in DOMAIN d.tombs :
       m # n => KeysOf(d.tombs[m]) \cap KeysOf(d.tombs[n]) = {}
CrossKeysDistinct(d) ==
  \A i \in Ids, m \in DOMAIN d.tombs :
    KeysOf(d.rec[i]) \cap KeysOf(d.tombs[m]) = {}
KeysClaimedOnce(d) ==
  RecordKeysDistinct(d) /\ TombKeysDistinct(d) /\ CrossKeysDistinct(d)

OneHomePerLaunch(d) ==
  /\ \A m \in DOMAIN d.tombs : d.rec[d.tombs[m].id].state = "absent"
  /\ \A m, n \in DOMAIN d.tombs : d.tombs[m].id = d.tombs[n].id => m = n
  /\ \A i \in Owing(d) : d.rec[i].state = "absent"

CleanupsMatchTombs(d) ==
  \A m \in DOMAIN d.tombs :
    d.tombs[m].id \in Owing(d) => Owes(d, d.tombs[m])

WithinLimits(d) ==
  /\ Cardinality(Recorded(d)) <= MaxRecords
  /\ Len(d.tombs) <= MaxRetirements
  /\ Cardinality(Owing(d)) + Cardinality(InState(d, {"retiring"})) <= MaxCleanups

\* validateLaunchRecord: which fields a record of each state has.
RecordsCoherent(d) ==
  \A i \in Ids :
    LET e == d.rec[i]
    IN  /\ (e.state = "absent") => e = Absent
        /\ (e.state # "absent") => e.key \in Keys /\ e.request \in Requests
        /\ (e.state = "retiring") <=> e.retireKey # NoKey

Sound(d) ==
  /\ RecordsCoherent(d)
  /\ KeysClaimedOnce(d)
  /\ OneHomePerLaunch(d)
  /\ CleanupsMatchTombs(d)
  /\ WithinLimits(d)

Acceptable(f) == Sound(Decoded(f))
=============================================================================
