------------------------- MODULE LaunchLedgerProofs -------------------------
(***************************************************************************)
(* The launch ledger's properties for every number of launches, keys and    *)
(* requests and every limit.                                                *)
(*                                                                         *)
(* First, what its mutations do to a document: each keeps its shape, and    *)
(* each of those the code allows keeps it Sound, that is acceptable to the  *)
(* next open(); RoundTrip says that a Sound document survives being written *)
(* and read back.  Then the state machine.  The inductive invariant says    *)
(* that the Maps, the copy a failing write falls back to and what the file  *)
(* decodes to are all fit to be written, and how the three are related      *)
(* while a mutation is being written.                                       *)
(***************************************************************************)
EXTENDS LaunchLedger, FiniteSetTheorems, SequenceTheorems, TLAPS

\* The ids a document mentions, each drawn by the generator at some time.
TombIds(d) == {d.tombs[m].id : m \in DOMAIN d.tombs}
Mentioned(d) == Recorded(d) \cup TombIds(d) \cup Owing(d)

-----------------------------------------------------------------------------
(* Shapes. *)

\* The tombstones form a sequence over 1..Len, each with the fields of Tomb.
LEMMA TombShape ==
  ASSUME NEW d \in Document
  PROVE  /\ d.tombs \in Seq(Tomb)
         /\ Len(d.tombs) \in Nat
         /\ DOMAIN d.tombs = 1..Len(d.tombs)
         /\ \A m \in DOMAIN d.tombs :
              /\ d.tombs[m] \in Tomb
              /\ d.tombs[m].id \in Ids
              /\ d.tombs[m].key \in Keys
              /\ d.tombs[m].retireKey \in Keys
              /\ d.tombs[m].scoped \in BOOLEAN
<1>1. d.tombs \in Seq(Tomb)
  BY DEF Document
<1>2. Len(d.tombs) \in Nat /\ DOMAIN d.tombs = 1..Len(d.tombs)
  BY <1>1, LenProperties
<1>3. \A m \in DOMAIN d.tombs : d.tombs[m] \in Tomb
  BY <1>1, <1>2, ElementOfSeq
<1> QED
  BY <1>1, <1>2, <1>3 DEF Tomb

\* A record has the fields of Entry and every id has one.
LEMMA EntryShape ==
  ASSUME NEW d \in Document, NEW i \in Ids
  PROVE  /\ d.rec \in [Ids -> Entry]
         /\ d.rec[i] \in Entry
         /\ d.rec[i].state \in States
         /\ d.rec[i].key \in Keys \cup {NoKey}
         /\ d.rec[i].retireKey \in Keys \cup {NoKey}
         /\ d.rec[i].request \in Requests \cup {NoRequest}
         /\ d.cleanups \in [Ids -> Keys \cup {NoKey}]
         /\ d.cleanups[i] \in Keys \cup {NoKey}
BY DEF Document, Entry

\* An empty ledger is a document.
LEMMA EmptyShape == Empty \in Document
<1>1. Absent \in Entry
  BY DEF Absent, Entry, States
<1>2. <<>> \in Seq(Tomb)
  BY EmptySeq
<1> QED
  BY <1>1, <1>2 DEF Empty, Document

\* reserve makes a document of a document.
LEMMA ReservedShape ==
  ASSUME NEW d \in Document, NEW i \in Ids, NEW k \in Keys, NEW r \in Requests
  PROVE  Reserved(d, i, k, r) \in Document
BY DEF Reserved, Document, Entry, States

\* So does transition, whatever it expects.
LEMMA TransitionedShape ==
  ASSUME NEW d \in Document, NEW i \in Ids, NEW expected, NEW to \in States
  PROVE  Transitioned(d, i, expected, to) \in Document
<1>1. [d EXCEPT !.rec[i].state = to] \in Document
  BY SMTT(30) DEF Document, Entry
<1> QED
  BY <1>1 DEF Transitioned

\* beginRetirement rewrites one record and nothing else.
LEMMA BegunShape ==
  ASSUME NEW d \in Document, NEW i \in Ids, NEW k \in Keys
  PROVE  /\ RetirementBegun(d, i, k) \in Document
         /\ RetirementBegun(d, i, k).rec =
              [d.rec EXCEPT ![i] = [d.rec[i] EXCEPT !.state = "retiring", !.retireKey = k]]
         /\ RetirementBegun(d, i, k).tombs = d.tombs
         /\ RetirementBegun(d, i, k).cleanups = d.cleanups
<1> DEFINE e == [d.rec[i] EXCEPT !.state = "retiring", !.retireKey = k]
<1>1. e \in Entry
  BY ZenonT(60), EntryShape DEF Entry, States
<1>2. RetirementBegun(d, i, k) = [d EXCEPT !.rec = [d.rec EXCEPT ![i] = e]]
  BY DEF RetirementBegun, Document, Entry
<1> QED
  BY <1>1, <1>2 DEF Document

\* cancelRetirement rewrites one record and nothing else.
LEMMA CanceledShape ==
  ASSUME NEW d \in Document, NEW i \in Ids
  PROVE  /\ RetirementCanceled(d, i) \in Document
         /\ RetirementCanceled(d, i).rec =
              [d.rec EXCEPT ![i] = [d.rec[i] EXCEPT !.state = "owned", !.retireKey = NoKey]]
         /\ RetirementCanceled(d, i).tombs = d.tombs
         /\ RetirementCanceled(d, i).cleanups = d.cleanups
<1> DEFINE e == [d.rec[i] EXCEPT !.state = "owned", !.retireKey = NoKey]
<1>1. e \in Entry
  BY ZenonT(60), EntryShape DEF Entry, States
<1>2. RetirementCanceled(d, i) = [d EXCEPT !.rec = [d.rec EXCEPT ![i] = e]]
  BY DEF RetirementCanceled, Document, Entry
<1> QED
  BY <1>1, <1>2 DEF Document

\* Appending a tombstone and dropping the oldest beyond the limit leaves a
\* suffix of the appended sequence.
LEMMA DropOldestShape ==
  ASSUME NEW s \in Seq(Tomb), NEW t \in Tomb, Len(s) <= MaxRetirements
  PROVE  LET n == Append(s, t)
             z == DropOldest(n)
             o == IF Len(n) > MaxRetirements THEN 1 ELSE 0
         IN  /\ z \in Seq(Tomb)
             /\ Len(z) \in Nat
             /\ Len(z) = Len(s) + 1 - o
             /\ Len(z) <= MaxRetirements
             /\ \A m \in 1..Len(z) :
                  z[m] = IF m + o = Len(s) + 1 THEN t ELSE s[m + o]
<1> DEFINE n == Append(s, t)
           o == IF Len(n) > MaxRetirements THEN 1 ELSE 0
<1>1. /\ n \in Seq(Tomb) /\ n # <<>> /\ Len(n) = Len(s) + 1
      /\ \A m \in 1..Len(s) : n[m] = s[m]
      /\ n[Len(s) + 1] = t
      /\ Len(s) \in Nat
  BY AppendProperties, LenProperties
<1>2. MaxRetirements \in Nat \ {0}
  BY LedgerAssumption
<1>3. CASE Len(n) > MaxRetirements
  <2>1. /\ Tail(n) \in Seq(Tomb) /\ Len(Tail(n)) = Len(n) - 1
        /\ \A m \in 1..Len(Tail(n)) : Tail(n)[m] = n[m + 1]
    BY <1>1, HeadTailProperties
  <2> QED
    BY <1>1, <1>2, <1>3, <2>1 DEF DropOldest
<1>4. CASE ~(Len(n) > MaxRetirements)
  BY <1>1, <1>2, <1>4 DEF DropOldest
<1> QED
  BY <1>3, <1>4

\* completeRetirement makes a document, with a tombstone of the record.
LEMMA CompletedShape ==
  ASSUME NEW d \in Document, NEW i \in Ids, NEW scoped \in BOOLEAN,
         d.rec[i].key \in Keys, d.rec[i].retireKey \in Keys,
         d.rec[i].request \in Requests, Len(d.tombs) <= MaxRetirements
  PROVE  /\ RetirementCompleted(d, i, scoped) \in Document
         /\ TombOf(i, d.rec[i], scoped) \in Tomb
<1>1. TombOf(i, d.rec[i], scoped) \in Tomb
  BY DEF TombOf, Tomb
<1>2. DropOldest(Append(d.tombs, TombOf(i, d.rec[i], scoped))) \in Seq(Tomb)
  BY <1>1, TombShape, DropOldestShape
<1>3. Absent \in Entry
  BY DEF Absent, Entry, States
<1> QED
  BY <1>1, <1>2, <1>3 DEF RetirementCompleted, Document

\* completeRetirementCleanup changes one cleanup, and no more of a tombstone
\* than its scope.
LEMMA CleanupCompletedShape ==
  ASSUME NEW d \in Document, NEW i \in Ids, NEW short \in BOOLEAN
  PROVE  /\ CleanupCompleted(d, i, short) \in Document
         /\ LET e == CleanupCompleted(d, i, short)
            IN  /\ Len(e.tombs) = Len(d.tombs)
                /\ e.rec = d.rec
                /\ e.cleanups = [d.cleanups EXCEPT ![i] = NoKey]
                /\ DOMAIN e.tombs = DOMAIN d.tombs
                /\ \A m \in DOMAIN d.tombs :
                     /\ e.tombs[m].id = d.tombs[m].id
                     /\ e.tombs[m].key = d.tombs[m].key
                     /\ e.tombs[m].retireKey = d.tombs[m].retireKey
                     /\ e.tombs[m].id # i =>
                          e.tombs[m].scoped = d.tombs[m].scoped
<1> DEFINE g(m) == IF short /\ d.tombs[m].id = i /\ Owes(d, d.tombs[m])
                   THEN [d.tombs[m] EXCEPT !.scoped = FALSE]
                   ELSE d.tombs[m]
           ts == [m \in DOMAIN d.tombs |-> g(m)]
           e == CleanupCompleted(d, i, short)
<1>1. \A m \in DOMAIN d.tombs :
        /\ g(m) \in Tomb
        /\ g(m).id = d.tombs[m].id /\ g(m).key = d.tombs[m].key
        /\ g(m).retireKey = d.tombs[m].retireKey
        /\ g(m).id # i => g(m).scoped = d.tombs[m].scoped
  BY TombShape DEF Tomb
<1>2. /\ d.tombs \in Seq(Tomb) /\ Len(d.tombs) \in Nat
      /\ DOMAIN d.tombs = 1..Len(d.tombs)
  BY TombShape
<1>3. /\ ts \in [1..Len(d.tombs) -> Tomb] /\ DOMAIN ts = DOMAIN d.tombs
  BY <1>1, <1>2
<1>4. ts \in Seq(Tomb) /\ Len(ts) = Len(d.tombs)
  BY <1>2, <1>3
<1>5. /\ e.tombs = ts /\ e.rec = d.rec
      /\ e.cleanups = [d.cleanups EXCEPT ![i] = NoKey]
      /\ e = [rec |-> d.rec, tombs |-> ts,
              cleanups |-> [d.cleanups EXCEPT ![i] = NoKey]]
  <2>1. e = [d EXCEPT !.cleanups[i] = NoKey, !.tombs = ts]
    BY DEF CleanupCompleted
  <2> HIDE DEF e, ts
  <2> QED
    BY <2>1 DEF Document
<1>6. e \in Document
  BY <1>4, <1>5 DEF Document
<1>7. \A m \in DOMAIN d.tombs : e.tombs[m] = g(m)
  BY <1>5
<1> HIDE DEF g, ts, e
<1> QED
  BY <1>1, <1>3, <1>4, <1>5, <1>6, <1>7 DEF e

-----------------------------------------------------------------------------
(* Counting.  Every counted set is a part of the finite set Ids.            *)

\* Sets of launches are finite, and count as sets do.
LEMMA Counted ==
  ASSUME NEW S \in SUBSET Ids
  PROVE  /\ IsFiniteSet(S)
         /\ Cardinality(S) \in Nat
         /\ \A i \in Ids : i \notin S => Cardinality(S \cup {i}) = Cardinality(S) + 1
         /\ \A i \in S : Cardinality(S \ {i}) = Cardinality(S) - 1
         /\ \A T \in SUBSET S : Cardinality(T) <= Cardinality(S)
<1>1. IsFiniteSet(Ids)
  BY LedgerAssumption
<1>2. IsFiniteSet(S)
  BY <1>1, FS_Subset
<1> QED
  BY <1>2, FS_CardinalityType, FS_AddElement, FS_RemoveElement, FS_Subset

-----------------------------------------------------------------------------
(* Soundness: what open() demands survives each mutation.                   *)

\* A key that names nothing in the ledger is no key of a record or tombstone.
LEMMA FreshKey ==
  ASSUME NEW d \in Document, RecordsCoherent(d), NEW k \in Keys,
         KeyIsFresh(d, k)
  PROVE  /\ \A j \in Ids : k # d.rec[j].key /\ k # d.rec[j].retireKey
         /\ \A m \in DOMAIN d.tombs :
              k # d.tombs[m].key /\ k # d.tombs[m].retireKey
<1>1. k # NoKey
  BY LedgerAssumption
<1>2. ASSUME NEW j \in Ids
      PROVE  k # d.rec[j].key /\ k # d.rec[j].retireKey
  BY <1>1, EntryShape DEF KeyIsFresh, RecordsCoherent, Absent, CreationKeys,
     RetirementKeys, Recorded, InState
<1>3. ASSUME NEW m \in DOMAIN d.tombs
      PROVE  k # d.tombs[m].key /\ k # d.tombs[m].retireKey
  BY DEF KeyIsFresh, TombCreationKeys, TombRetirementKeys
<1> QED
  BY <1>2, <1>3

\* reserve keeps the ledger acceptable.
LEMMA ReservedSound ==
  ASSUME NEW d \in Document, Sound(d), NEW i \in Ids, i \notin Mentioned(d),
         NEW k \in Keys, NEW r \in Requests, HasRoom(d), KeyIsFresh(d, k)
  PROVE  Sound(Reserved(d, i, k, r))
<1> DEFINE e == Reserved(d, i, k, r)
           new == [state |-> "requested", key |-> k, retireKey |-> NoKey,
                   request |-> r]
<1>1. /\ e.rec = [d.rec EXCEPT ![i] = new]
      /\ e.tombs = d.tombs /\ e.cleanups = d.cleanups
  BY DEF Reserved, Document
<1>2. /\ e.rec[i] = new
      /\ \A j \in Ids : j # i => e.rec[j] = d.rec[j]
      /\ d.rec[i].state = "absent"
      /\ \A m \in DOMAIN d.tombs : d.tombs[m].id # i
      /\ d.cleanups[i] = NoKey
  BY <1>1, EntryShape DEF Mentioned, Recorded, TombIds, Owing
<1>3. k # NoKey
  BY LedgerAssumption
<1> USE DEF Sound
<1> HIDE DEF e
<1>4. RecordsCoherent(e)
  BY <1>2, <1>3 DEF RecordsCoherent
<1>5. /\ \A j \in Ids : k # d.rec[j].key /\ k # d.rec[j].retireKey
      /\ \A m \in DOMAIN d.tombs :
           k # d.tombs[m].key /\ k # d.tombs[m].retireKey
  BY FreshKey
<1>6. KeysClaimedOnce(e)
  <2>1. KeysOf(e.rec[i]) = {k}
    BY <1>2, <1>3 DEF KeysOf
  <2>2. RecordKeysDistinct(e)
    BY <1>2, <1>3, <1>5, <2>1 DEF KeysClaimedOnce, RecordKeysDistinct, KeysOf
  <2>3. TombKeysDistinct(e)
    BY <1>1 DEF KeysClaimedOnce, TombKeysDistinct
  <2>4. CrossKeysDistinct(e)
    BY SMTT(30), <1>1, <1>2, <1>5, <2>1 DEF KeysClaimedOnce, CrossKeysDistinct, KeysOf
  <2> QED
    BY <2>2, <2>3, <2>4 DEF KeysClaimedOnce
<1>7. OneHomePerLaunch(e)
  BY <1>1, <1>2, TombShape DEF OneHomePerLaunch, Owing
<1>8. CleanupsMatchTombs(e)
  BY <1>1 DEF CleanupsMatchTombs, Owing, Owes
<1>9. WithinLimits(e)
  <2>1. Recorded(e) = Recorded(d) \cup {i} /\ i \notin Recorded(d)
    BY <1>2 DEF Recorded
  <2>2. InState(e, {"retiring"}) = InState(d, {"retiring"})
    BY <1>2 DEF InState
  <2>3. Cardinality(Recorded(e)) = Cardinality(Recorded(d)) + 1
    BY <2>1, Counted DEF Recorded
  <2>4. Cardinality(Recorded(d)) \in Nat /\ MaxRecords \in Nat
    BY Counted, LedgerAssumption DEF Recorded
  <2> QED
    BY <1>1, <2>2, <2>3, <2>4 DEF WithinLimits, HasRoom, Owing
<1> QED
  BY <1>4, <1>6, <1>7, <1>8, <1>9 DEF e

\* A transition the coordinator asks for moves a record between states that
\* carry the same fields.
LEMMA TransitionedSound ==
  ASSUME NEW d \in Document, Sound(d), NEW i \in Ids,
         NEW expected \in SUBSET Pending,
         NEW to \in {"creating", "uncertain", "owned", "failed"}
  PROVE  Sound(Transitioned(d, i, expected, to))
<1>1. CASE d.rec[i].state \notin expected
  BY <1>1 DEF Transitioned
<1>2. CASE d.rec[i].state \in expected
  <2> DEFINE e == Transitioned(d, i, expected, to)
  <2>1. /\ e.rec = [d.rec EXCEPT ![i] = [d.rec[i] EXCEPT !.state = to]]
        /\ e.tombs = d.tombs /\ e.cleanups = d.cleanups
    BY <1>2 DEF Transitioned, Document
  <2>2. /\ e.rec[i].state = to
        /\ e.rec[i].key = d.rec[i].key
        /\ e.rec[i].retireKey = d.rec[i].retireKey
        /\ e.rec[i].request = d.rec[i].request
        /\ \A j \in Ids : j # i => e.rec[j] = d.rec[j]
        /\ d.rec[i].state \in Pending
    BY <1>2, <2>1, EntryShape DEF Entry
  <2> USE DEF Sound
  <2> HIDE DEF e
  <2>3. RecordsCoherent(e)
    BY <2>2 DEF RecordsCoherent, Pending
  <2>4. KeysClaimedOnce(e)
    <3>1. \A j \in Ids : /\ e.rec[j].key = d.rec[j].key
                         /\ e.rec[j].retireKey = d.rec[j].retireKey
      BY <2>2
    <3> QED
      BY <2>1, <3>1 DEF KeysClaimedOnce, RecordKeysDistinct,
         TombKeysDistinct, CrossKeysDistinct, KeysOf
  <2>5. OneHomePerLaunch(e)
    BY <2>1, <2>2, TombShape DEF OneHomePerLaunch, Owing, Pending
  <2>6. CleanupsMatchTombs(e)
    BY <2>1 DEF CleanupsMatchTombs, Owing, Owes
  <2>7. WithinLimits(e)
    <3>1. Recorded(e) = Recorded(d)
      BY <2>2 DEF Recorded, Pending
    <3>2. InState(e, {"retiring"}) = InState(d, {"retiring"})
      BY <2>2 DEF InState, Pending
    <3> QED
      BY <2>1, <3>1, <3>2 DEF WithinLimits, Owing
  <2> QED
    BY <2>3, <2>4, <2>5, <2>6, <2>7 DEF e
<1> QED
  BY <1>1, <1>2

\* beginRetirement keeps the ledger acceptable.
LEMMA BegunSound ==
  ASSUME NEW d \in Document, Sound(d), NEW i \in Ids, NEW k \in Keys,
         d.rec[i].state = "owned", CleanupRoom(d), KeyIsFresh(d, k)
  PROVE  Sound(RetirementBegun(d, i, k))
<1> DEFINE e == RetirementBegun(d, i, k)
<1>1. /\ e.rec = [d.rec EXCEPT ![i] =
                    [d.rec[i] EXCEPT !.state = "retiring", !.retireKey = k]]
      /\ e.tombs = d.tombs /\ e.cleanups = d.cleanups
  BY ZenonT(60), BegunShape
<1>2. /\ e.rec[i].state = "retiring" /\ e.rec[i].retireKey = k
      /\ e.rec[i].key = d.rec[i].key /\ e.rec[i].request = d.rec[i].request
      /\ \A j \in Ids : j # i => e.rec[j] = d.rec[j]
  BY <1>1, EntryShape DEF Entry
<1>3. k # NoKey
  BY LedgerAssumption
<1> USE DEF Sound
<1> HIDE DEF e
<1>4. RecordsCoherent(e)
  BY <1>2, <1>3 DEF RecordsCoherent
<1>5. /\ \A j \in Ids : k # d.rec[j].key /\ k # d.rec[j].retireKey
      /\ \A m \in DOMAIN d.tombs :
           k # d.tombs[m].key /\ k # d.tombs[m].retireKey
  BY FreshKey
<1>6. KeysClaimedOnce(e)
  <2>1. KeysOf(e.rec[i]) = {d.rec[i].key, k} \ {NoKey}
    BY <1>2 DEF KeysOf
  <2>2. RecordKeysDistinct(e)
    BY SMTT(30), <1>2, <1>3, <1>5, <2>1 DEF KeysClaimedOnce, RecordKeysDistinct, KeysOf
  <2>3. TombKeysDistinct(e)
    BY <1>1 DEF KeysClaimedOnce, TombKeysDistinct
  <2>4. CrossKeysDistinct(e)
    BY SMTT(30), <1>1, <1>2, <1>5, <2>1 DEF KeysClaimedOnce, CrossKeysDistinct, KeysOf
  <2> QED
    BY <2>2, <2>3, <2>4 DEF KeysClaimedOnce
<1>7. OneHomePerLaunch(e)
  BY <1>1, <1>2, TombShape DEF OneHomePerLaunch, Owing
<1>8. CleanupsMatchTombs(e)
  BY <1>1 DEF CleanupsMatchTombs, Owing, Owes
<1>9. WithinLimits(e)
  <2>1. Recorded(e) = Recorded(d)
    BY <1>2 DEF Recorded
  <2>2. /\ InState(e, {"retiring"}) = InState(d, {"retiring"}) \cup {i}
        /\ i \notin InState(d, {"retiring"})
    BY <1>2 DEF InState
  <2>3. Cardinality(InState(e, {"retiring"}))
          = Cardinality(InState(d, {"retiring"})) + 1
    BY <2>2, Counted DEF InState
  <2>4. /\ Cardinality(InState(d, {"retiring"})) \in Nat
        /\ Cardinality(Owing(d)) \in Nat /\ MaxCleanups \in Nat
        /\ Owing(e) = Owing(d)
    BY <1>1, Counted, LedgerAssumption DEF InState, Owing
  <2> QED
    BY <1>1, <2>1, <2>3, <2>4 DEF WithinLimits, CleanupRoom
<1> QED
  BY <1>4, <1>6, <1>7, <1>8, <1>9 DEF e

\* cancelRetirement keeps the ledger acceptable.
LEMMA CanceledSound ==
  ASSUME NEW d \in Document, Sound(d), NEW i \in Ids,
         d.rec[i].state = "retiring"
  PROVE  Sound(RetirementCanceled(d, i))
<1> DEFINE e == RetirementCanceled(d, i)
<1>1. /\ e.rec = [d.rec EXCEPT ![i] =
                    [d.rec[i] EXCEPT !.state = "owned", !.retireKey = NoKey]]
      /\ e.tombs = d.tombs /\ e.cleanups = d.cleanups
  BY CanceledShape
<1>2. /\ e.rec[i].state = "owned" /\ e.rec[i].retireKey = NoKey
      /\ e.rec[i].key = d.rec[i].key /\ e.rec[i].request = d.rec[i].request
      /\ \A j \in Ids : j # i => e.rec[j] = d.rec[j]
  BY <1>1, EntryShape DEF Entry
<1> USE DEF Sound
<1> HIDE DEF e
<1>3. RecordsCoherent(e)
  BY <1>2 DEF RecordsCoherent
<1>4. KeysClaimedOnce(e)
  <2>1. \A j \in Ids : KeysOf(e.rec[j]) \subseteq KeysOf(d.rec[j])
    BY <1>2 DEF KeysOf
  <2>2. RecordKeysDistinct(e)
    BY <1>2, <2>1 DEF KeysClaimedOnce, RecordKeysDistinct
  <2>3. TombKeysDistinct(e)
    BY <1>1 DEF KeysClaimedOnce, TombKeysDistinct
  <2>4. CrossKeysDistinct(e)
    BY <1>1, <2>1 DEF KeysClaimedOnce, CrossKeysDistinct
  <2> QED
    BY <2>2, <2>3, <2>4 DEF KeysClaimedOnce
<1>5. OneHomePerLaunch(e)
  BY <1>1, <1>2, TombShape DEF OneHomePerLaunch, Owing
<1>6. CleanupsMatchTombs(e)
  BY <1>1 DEF CleanupsMatchTombs, Owing, Owes
<1>7. WithinLimits(e)
  <2>1. Recorded(e) = Recorded(d)
    BY <1>2 DEF Recorded
  <2>2. InState(e, {"retiring"}) \subseteq InState(d, {"retiring"})
    BY <1>2 DEF InState
  <2>3. /\ Cardinality(InState(e, {"retiring"}))
             <= Cardinality(InState(d, {"retiring"}))
        /\ Cardinality(InState(d, {"retiring"})) \in Nat
        /\ Cardinality(InState(e, {"retiring"})) \in Nat
        /\ Cardinality(Owing(d)) \in Nat /\ MaxCleanups \in Nat
        /\ Owing(e) = Owing(d)
    BY <1>1, <2>2, Counted, LedgerAssumption DEF InState, Owing
  <2> QED
    BY <1>1, <2>1, <2>3 DEF WithinLimits
<1> QED
  BY <1>3, <1>4, <1>5, <1>6, <1>7 DEF e

\* completeRetirement keeps the ledger acceptable: the keys move from the
\* record to its tombstone, the slot the retiring record held in the cleanup
\* limit pays for the cleanup it owes, and dropping the oldest tombstone
\* frees keys and claims none.
LEMMA CompletedSound ==
  ASSUME NEW d \in Document, Sound(d), NEW i \in Ids, NEW scoped \in BOOLEAN,
         d.rec[i].state = "retiring"
  PROVE  /\ Sound(RetirementCompleted(d, i, scoped))
         /\ RetirementCompleted(d, i, scoped) \in Document
<1> DEFINE e == RetirementCompleted(d, i, scoped)
           t == TombOf(i, d.rec[i], scoped)
           n == Append(d.tombs, t)
           o == IF Len(n) > MaxRetirements THEN 1 ELSE 0
           L == Len(d.tombs)
<1> USE DEF Sound
<1>1. /\ d.rec[i].key \in Keys /\ d.rec[i].retireKey \in Keys
      /\ d.rec[i].request \in Requests /\ L <= MaxRetirements
      /\ d.rec[i].key # NoKey /\ d.rec[i].retireKey # NoKey
  BY EntryShape, LedgerAssumption DEF RecordsCoherent, WithinLimits
<1>2. e \in Document /\ t \in Tomb
  BY <1>1, CompletedShape
<1>3. /\ t.id = i /\ t.key = d.rec[i].key /\ t.retireKey = d.rec[i].retireKey
      /\ t.scoped = scoped
  BY DEF TombOf
<1>4. /\ e.rec = [d.rec EXCEPT ![i] = Absent]
      /\ e.tombs = DropOldest(n)
      /\ e.cleanups = [d.cleanups EXCEPT
                         ![i] = IF scoped THEN d.rec[i].retireKey ELSE NoKey]
  BY DEF RetirementCompleted
<1>5. /\ e.rec[i] = Absent
      /\ \A j \in Ids : j # i => e.rec[j] = d.rec[j]
      /\ e.cleanups[i] = IF scoped THEN d.rec[i].retireKey ELSE NoKey
      /\ \A j \in Ids : j # i => e.cleanups[j] = d.cleanups[j]
      /\ d.cleanups[i] = NoKey
      /\ \A m \in DOMAIN d.tombs : d.tombs[m].id # i
  BY <1>4, EntryShape, TombShape DEF OneHomePerLaunch, Owing
<1>6. /\ L \in Nat /\ o \in {0, 1} /\ DOMAIN d.tombs = 1..L
      /\ Len(e.tombs) \in Nat
      /\ DOMAIN e.tombs = 1..Len(e.tombs)
      /\ Len(e.tombs) = L + 1 - o
      /\ Len(e.tombs) <= MaxRetirements
      /\ \A m \in 1..Len(e.tombs) :
           e.tombs[m] = IF m + o = L + 1 THEN t ELSE d.tombs[m + o]
  <2>1. d.tombs \in Seq(Tomb) /\ L \in Nat /\ DOMAIN d.tombs = 1..L
    BY TombShape
  <2>2. DOMAIN e.tombs = 1..Len(e.tombs)
    BY <1>2, TombShape
  <2> HIDE DEF e, t
  <2>3. LET z == DropOldest(n)
        IN  /\ z \in Seq(Tomb) /\ Len(z) \in Nat
            /\ Len(z) = L + 1 - o /\ Len(z) <= MaxRetirements
            /\ \A m \in 1..Len(z) :
                 z[m] = IF m + o = L + 1 THEN t ELSE d.tombs[m + o]
    BY <1>1, <1>2, <2>1, DropOldestShape
  <2>4. o \in {0, 1}
    OBVIOUS
  <2> HIDE DEF n, o, L
  <2> QED
    BY <1>4, <2>1, <2>2, <2>3, <2>4
<1> HIDE DEF e, t, n, o, L
<1>7. \A m \in DOMAIN e.tombs :
        \/ m + o = L + 1 /\ e.tombs[m] = t
        \/ m + o \in DOMAIN d.tombs /\ e.tombs[m] = d.tombs[m + o]
  <2> SUFFICES ASSUME NEW m \in DOMAIN e.tombs
               PROVE  \/ m + o = L + 1 /\ e.tombs[m] = t
                      \/ m + o \in DOMAIN d.tombs /\ e.tombs[m] = d.tombs[m + o]
    OBVIOUS
  <2>1. m \in Nat /\ 1 <= m /\ m + o <= L + 1
    BY <1>6
  <2> QED
    BY <1>6, <2>1
<1>8. RecordsCoherent(e)
  BY <1>5 DEF RecordsCoherent, Absent
<1>9. KeysClaimedOnce(e)
  <2>1. /\ KeysOf(e.rec[i]) = {}
        /\ \A j \in Ids : j # i => KeysOf(e.rec[j]) = KeysOf(d.rec[j])
        /\ KeysOf(t) = KeysOf(d.rec[i])
        /\ t.key # t.retireKey
        /\ Absent.retireKey = NoKey
    BY <1>1, <1>3, <1>5
       DEF KeysOf, Absent, KeysClaimedOnce, RecordKeysDistinct
  <2>2. RecordKeysDistinct(e)
    BY <1>5, <2>1 DEF KeysClaimedOnce, RecordKeysDistinct
  <2>3. TombKeysDistinct(e)
    <3>1. \A m \in DOMAIN e.tombs : e.tombs[m].retireKey # e.tombs[m].key
      BY <1>7, <2>1 DEF KeysClaimedOnce, TombKeysDistinct
    <3>2. ASSUME NEW m \in DOMAIN e.tombs, NEW p \in DOMAIN e.tombs, m # p
          PROVE  KeysOf(e.tombs[m]) \cap KeysOf(e.tombs[p]) = {}
      <4>1. m + o # p + o
        BY <1>6, <3>2
      <4>2. \A q \in DOMAIN d.tombs : KeysOf(t) \cap KeysOf(d.tombs[q]) = {}
        BY <2>1 DEF KeysClaimedOnce, CrossKeysDistinct
      <4> QED
        BY <1>7, <4>1, <4>2 DEF KeysClaimedOnce, TombKeysDistinct
    <3> QED
      BY <3>1, <3>2 DEF TombKeysDistinct
  <2>4. CrossKeysDistinct(e)
    <3>1. ASSUME NEW j \in Ids, NEW m \in DOMAIN e.tombs
          PROVE  KeysOf(e.rec[j]) \cap KeysOf(e.tombs[m]) = {}
      <4>1. CASE j = i
        BY <2>1, <4>1
      <4>2. CASE j # i
        BY <1>7, <2>1, <4>2
           DEF KeysClaimedOnce, RecordKeysDistinct, CrossKeysDistinct
      <4> QED
        BY <4>1, <4>2
    <3> QED
      BY <3>1 DEF CrossKeysDistinct
  <2> QED
    BY <2>2, <2>3, <2>4 DEF KeysClaimedOnce
<1>10. OneHomePerLaunch(e)
  <2>1. \A m \in DOMAIN e.tombs : e.rec[e.tombs[m].id].state = "absent"
    BY <1>3, <1>5, <1>7, TombShape DEF OneHomePerLaunch, Absent
  <2>2. ASSUME NEW m \in DOMAIN e.tombs, NEW p \in DOMAIN e.tombs,
               e.tombs[m].id = e.tombs[p].id
        PROVE  m = p
    <3>1. CASE e.tombs[m].id = i
      <4>1. m + o = L + 1 /\ p + o = L + 1
        BY ZenonT(60), <1>5, <1>7, <2>2, <3>1
      <4> QED
        BY <1>6, <4>1
    <3>2. CASE e.tombs[m].id # i
      <4>1. /\ m + o \in DOMAIN d.tombs /\ e.tombs[m] = d.tombs[m + o]
            /\ p + o \in DOMAIN d.tombs /\ e.tombs[p] = d.tombs[p + o]
        BY <1>3, <1>7, <2>2, <3>2
      <4>2. m + o = p + o
        BY <2>2, <4>1 DEF OneHomePerLaunch
      <4> QED
        BY <1>6, <4>2
    <3> QED
      BY <3>1, <3>2
  <2>3. \A j \in Owing(e) : e.rec[j].state = "absent"
    BY <1>5 DEF OneHomePerLaunch, Owing, Absent
  <2> QED
    BY <2>1, <2>2, <2>3 DEF OneHomePerLaunch
<1>11. CleanupsMatchTombs(e)
  <2>1. ASSUME NEW m \in DOMAIN e.tombs, e.tombs[m].id \in Owing(e)
        PROVE  Owes(e, e.tombs[m])
    <3>1. CASE e.tombs[m] = t
      BY <1>3, <1>5, <2>1, <3>1 DEF Owes, Owing
    <3>2. CASE m + o \in DOMAIN d.tombs /\ e.tombs[m] = d.tombs[m + o]
      BY <1>5, <2>1, <3>2, TombShape DEF Owes, Owing, CleanupsMatchTombs
    <3> QED
      BY <1>7, <3>1, <3>2
  <2> QED
    BY <2>1 DEF CleanupsMatchTombs
<1>12. WithinLimits(e)
  <2>1. Recorded(e) \subseteq Recorded(d)
    BY <1>5 DEF Recorded, Absent
  <2>2. /\ Cardinality(Recorded(e)) <= Cardinality(Recorded(d))
        /\ Cardinality(Recorded(e)) \in Nat /\ Cardinality(Recorded(d)) \in Nat
    BY <2>1, Counted DEF Recorded
  <2>3. /\ InState(e, {"retiring"}) = InState(d, {"retiring"}) \ {i}
        /\ i \in InState(d, {"retiring"})
    BY <1>5 DEF InState, Absent
  <2>4. Cardinality(InState(e, {"retiring"}))
          = Cardinality(InState(d, {"retiring"})) - 1
    BY <2>3, Counted DEF InState
  <2>5. \/ Owing(e) = Owing(d)
        \/ Owing(e) = Owing(d) \cup {i} /\ i \notin Owing(d)
    BY <1>5 DEF Owing
  <2>6. Cardinality(Owing(e)) <= Cardinality(Owing(d)) + 1
    BY <2>5, Counted DEF Owing
  <2>7. /\ Cardinality(Owing(d)) \in Nat /\ Cardinality(Owing(e)) \in Nat
        /\ Cardinality(InState(d, {"retiring"})) \in Nat
        /\ MaxCleanups \in Nat /\ MaxRecords \in Nat
    BY Counted, LedgerAssumption DEF Owing, InState
  <2> QED
    BY <1>6, <2>2, <2>4, <2>6, <2>7 DEF WithinLimits
<1> QED
  BY <1>2, <1>8, <1>9, <1>10, <1>11, <1>12 DEF e

\* completeRetirementCleanup keeps the ledger acceptable.
LEMMA CleanupCompletedSound ==
  ASSUME NEW d \in Document, Sound(d), NEW i \in Ids, NEW short \in BOOLEAN
  PROVE  Sound(CleanupCompleted(d, i, short))
<1> DEFINE e == CleanupCompleted(d, i, short)
<1>1. /\ Len(e.tombs) = Len(d.tombs) /\ e.rec = d.rec
      /\ e.cleanups = [d.cleanups EXCEPT ![i] = NoKey]
      /\ DOMAIN e.tombs = DOMAIN d.tombs
      /\ \A m \in DOMAIN d.tombs :
           /\ e.tombs[m].id = d.tombs[m].id
           /\ e.tombs[m].key = d.tombs[m].key
           /\ e.tombs[m].retireKey = d.tombs[m].retireKey
           /\ e.tombs[m].id # i => e.tombs[m].scoped = d.tombs[m].scoped
  BY CleanupCompletedShape
<1> HIDE DEF e
<1> USE DEF Sound
<1>2. /\ e.cleanups[i] = NoKey
      /\ \A j \in Ids : j # i => e.cleanups[j] = d.cleanups[j]
      /\ Owing(e) = Owing(d) \ {i}
  BY <1>1, EntryShape DEF Owing
<1>3. RecordsCoherent(e)
  BY <1>1 DEF RecordsCoherent
<1>4. KeysClaimedOnce(e)
  <2>1. \A m \in DOMAIN d.tombs : KeysOf(e.tombs[m]) = KeysOf(d.tombs[m])
    BY <1>1 DEF KeysOf
  <2>2. RecordKeysDistinct(e)
    BY <1>1 DEF KeysClaimedOnce, RecordKeysDistinct
  <2>3. TombKeysDistinct(e)
    BY <1>1, <2>1 DEF KeysClaimedOnce, TombKeysDistinct
  <2>4. CrossKeysDistinct(e)
    BY <1>1, <2>1 DEF KeysClaimedOnce, CrossKeysDistinct
  <2> QED
    BY <2>2, <2>3, <2>4 DEF KeysClaimedOnce
<1>5. OneHomePerLaunch(e)
  BY <1>1, <1>2 DEF OneHomePerLaunch
<1>6. CleanupsMatchTombs(e)
  BY <1>1, <1>2, TombShape DEF CleanupsMatchTombs, Owes, Owing
<1>7. WithinLimits(e)
  <2>1. /\ Cardinality(Owing(e)) <= Cardinality(Owing(d))
        /\ Cardinality(Owing(d)) \in Nat /\ Cardinality(Owing(e)) \in Nat
        /\ Cardinality(InState(d, {"retiring"})) \in Nat
        /\ MaxCleanups \in Nat
    BY <1>2, Counted, LedgerAssumption DEF Owing, InState
  <2> QED
    BY <1>1, <2>1 DEF WithinLimits, Recorded, InState
<1> QED
  BY <1>3, <1>4, <1>5, <1>6, <1>7 DEF e

-----------------------------------------------------------------------------
(* Writing and reading back.                                                *)

\* The compact encoding leaves retirementCleanups out only when the scoped
\* tombstones name exactly the launches that owe a cleanup: as many of them,
\* with distinct ids, each owing.
LEMMA TombsNameOwing ==
  ASSUME NEW d \in Document, OneHomePerLaunch(d), TombsTellCleanups(d),
         NEW i \in Owing(d)
  PROVE  \E m \in ScopedTombs(d) : d.tombs[m].id = i
<1> DEFINE f == [m \in ScopedTombs(d) |-> d.tombs[m].id]
<1>1. \A m \in ScopedTombs(d) : d.tombs[m].id \in Owing(d)
  BY TombShape, LedgerAssumption
     DEF TombsTellCleanups, Owes, Owing, ScopedTombs
<1>2. f \in Injection(ScopedTombs(d), Owing(d))
  BY <1>1 DEF Injection, IsInjective, OneHomePerLaunch, ScopedTombs
<1>3. IsFiniteSet(Owing(d))
  BY Counted DEF Owing
<1>4. f \in Surjection(ScopedTombs(d), Owing(d))
  <2> HIDE DEF f
  <2> QED
    BY <1>2, <1>3, FS_Injection DEF TombsTellCleanups
<1> QED
  BY <1>4 DEF Surjection

\* What is written is read back: through the compact encoding too, no owed
\* cleanup is lost and none is invented.
LEMMA RoundTrip ==
  ASSUME NEW d \in Document, OneHomePerLaunch(d), NEW short \in BOOLEAN
  PROVE  Decoded(Encoded(d, short)) = d
<1> DEFINE f == Encoded(d, short)
           bare == d.tombs = <<>> /\ Owing(d) = {}
           explicit == ~bare /\ (short => ~TombsTellCleanups(d))
<1>1. /\ f.rec = d.rec /\ f.tombs = d.tombs /\ f.explicit = explicit
      /\ f.cleanups = IF explicit THEN d.cleanups ELSE NoCleanups
  BY DEF Encoded
<1> HIDE DEF f
<1>2. CASE explicit
  BY <1>1, <1>2 DEF Decoded, Document, f
<1>3. CASE ~explicit
  <2>1. ASSUME NEW i \in Ids
        PROVE  TombCleanup(f, i) = d.cleanups[i]
    <3> DEFINE S == {m \in DOMAIN f.tombs :
                       f.tombs[m].id = i /\ f.tombs[m].scoped}
    <3>1. CASE bare
      <4>1. DOMAIN f.tombs = {}
        BY <1>1, <3>1, EmptySeq
      <4>2. d.cleanups[i] = NoKey
        BY <3>1, EntryShape DEF Owing
      <4> QED
        BY <4>1, <4>2 DEF TombCleanup
    <3>2. CASE ~bare
      <4>1. TombsTellCleanups(d)
        BY <1>3, <3>2
      <4>2. CASE S = {}
        <5>1. i \notin Owing(d)
          BY <1>1, <4>1, <4>2, TombsNameOwing DEF ScopedTombs
        <5> QED
          BY <4>2, <5>1, EntryShape DEF TombCleanup, Owing
      <4>3. CASE S # {}
        <5>1. \A m \in S : f.tombs[m].retireKey = d.cleanups[i]
          BY <1>1, <4>1 DEF TombsTellCleanups, ScopedTombs, Owes
        <5> QED
          BY <4>3, <5>1 DEF TombCleanup
      <4> QED
        BY <4>2, <4>3
    <3> QED
      BY <3>1, <3>2
  <2>2. [i \in Ids |-> TombCleanup(f, i)] = d.cleanups
    BY <2>1, d.cleanups \in [Ids -> Keys \cup {NoKey}] DEF Document
  <2>3. Decoded(f) = [rec |-> d.rec, tombs |-> d.tombs, cleanups |-> d.cleanups]
    BY <1>1, <1>3, <2>2 DEF Decoded
  <2> QED
    BY <2>3 DEF Document, f
<1> QED
  BY <1>2, <1>3

\* What is written is a file with the records as they are.
LEMMA EncodedShape ==
  ASSUME NEW d \in Document, NEW short \in BOOLEAN
  PROVE  /\ Encoded(d, short) \in File
         /\ Encoded(d, short).rec = d.rec
<1>1. NoCleanups \in [Ids -> Keys \cup {NoKey}]
  BY DEF NoCleanups
<1> QED
  BY <1>1 DEF Encoded, File, Document

\* What a file decodes to is a document, and the version does not matter.
LEMMA DecodedShape ==
  ASSUME NEW f \in File
  PROVE  /\ Decoded(f) \in Document
         /\ Decoded(f).rec = f.rec
         /\ Decoded([f EXCEPT !.legacy = FALSE]) = Decoded(f)
         /\ [f EXCEPT !.legacy = FALSE] \in File
         /\ DecodedCompact(f) \in BOOLEAN
<1>1. ASSUME NEW i \in Ids
      PROVE  TombCleanup(f, i) \in Keys \cup {NoKey}
  <2> DEFINE S == {m \in DOMAIN f.tombs : f.tombs[m].id = i /\ f.tombs[m].scoped}
  <2>1. \A m \in S : f.tombs[m].retireKey \in Keys
    <3>1. f.tombs \in Seq(Tomb)
      BY DEF File
    <3>2. DOMAIN f.tombs = 1..Len(f.tombs)
      BY <3>1, LenProperties
    <3>3. \A m \in DOMAIN f.tombs : f.tombs[m] \in Tomb
      BY <3>1, <3>2, ElementOfSeq
    <3> QED
      BY <3>3 DEF Tomb
  <2> QED
    BY <2>1 DEF TombCleanup
<1>2. Decoded(f) \in Document
  BY <1>1 DEF Decoded, Document, File
<1>3. [f EXCEPT !.legacy = FALSE] \in File
  BY DEF File
<1>4. /\ [f EXCEPT !.legacy = FALSE].rec = f.rec
      /\ [f EXCEPT !.legacy = FALSE].tombs = f.tombs
      /\ [f EXCEPT !.legacy = FALSE].cleanups = f.cleanups
      /\ [f EXCEPT !.legacy = FALSE].explicit = f.explicit
  BY DEF File
<1>5. Decoded([f EXCEPT !.legacy = FALSE]) = Decoded(f)
  BY <1>4 DEF Decoded, TombCleanup
<1> QED
  BY <1>2, <1>3, <1>5 DEF Decoded, DecodedCompact, File

-----------------------------------------------------------------------------
(* The ledger. *)

\* Fit to be written: acceptable to open(), within the admission limit, and
\* speaking only of ids that were drawn.
Fit(d, drawn) ==
  /\ d \in Document
  /\ Sound(d)
  /\ Mentioned(d) \subseteq drawn
  /\ Cardinality(InState(d, Pending)) <= MaxPending

\* The mutation being written moves each record along an edge, or not at all.
Moves(old, new) ==
  \A i \in Ids : old.rec[i] # new.rec[i] => Follows(old.rec[i], new.rec[i])

IInv ==
  /\ TypeOK
  /\ Fit(mem, issued) /\ Fit(undo, issued) /\ Fit(Decoded(disk), issued)
  /\ status = "open" /\ ~ahead => Decoded(disk) = mem
  /\ status = "writing" /\ ~ahead => Decoded(disk) = undo
  /\ status = "writing" => Moves(undo, mem)

-----------------------------------------------------------------------------
(* Each mutation keeps a document fit and moves records along edges.        *)

\* The unresolved launches can be counted, and fewer of them count less.
LEMMA PendingSet ==
  ASSUME NEW d \in Document
  PROVE  /\ InState(d, Pending) \in SUBSET Ids
         /\ Cardinality(InState(d, Pending)) \in Nat
         /\ MaxPending \in Nat
         /\ \A e \in Document :
              InState(e, Pending) \subseteq InState(d, Pending)
                => Cardinality(InState(e, Pending))
                     <= Cardinality(InState(d, Pending))
<1>1. InState(d, Pending) \in SUBSET Ids
  BY DEF InState
<1> QED
  BY <1>1, Counted, LedgerAssumption

\* An empty ledger is fit, whatever was drawn.
LEMMA EmptyFit == \A drawn : Fit(Empty, drawn)
<1>1. Empty \in Document
  BY EmptyShape
<1>2. /\ \A i \in Ids : Empty.rec[i] = Absent /\ Empty.cleanups[i] = NoKey
      /\ Empty.tombs = <<>> /\ DOMAIN Empty.tombs = {} /\ Len(Empty.tombs) = 0
  BY EmptySeq DEF Empty
<1>3. /\ Recorded(Empty) = {} /\ Owing(Empty) = {} /\ TombIds(Empty) = {}
      /\ InState(Empty, {"retiring"}) = {} /\ InState(Empty, Pending) = {}
  BY <1>2 DEF Recorded, Owing, TombIds, InState, Pending, Absent
<1>4. Cardinality({}) = 0
  BY FS_EmptySet
<1>5. RecordsCoherent(Empty)
  BY <1>2 DEF RecordsCoherent, Absent
<1>6. KeysClaimedOnce(Empty)
  BY <1>2 DEF KeysClaimedOnce, RecordKeysDistinct, TombKeysDistinct,
     CrossKeysDistinct, KeysOf, Absent
<1>7. OneHomePerLaunch(Empty) /\ CleanupsMatchTombs(Empty)
  BY <1>2, <1>3 DEF OneHomePerLaunch, CleanupsMatchTombs
<1>8. WithinLimits(Empty)
  <2>1. /\ Cardinality(Recorded(Empty)) = 0 /\ Cardinality(Owing(Empty)) = 0
        /\ Cardinality(InState(Empty, {"retiring"})) = 0
    BY <1>3, <1>4
  <2>2. MaxRecords >= 0 /\ MaxRetirements >= 0 /\ MaxCleanups >= 0
    BY LedgerAssumption
  <2> QED
    BY <1>2, <2>1, <2>2 DEF WithinLimits
<1> QED
  BY <1>1, <1>3, <1>4, <1>5, <1>6, <1>7, <1>8, LedgerAssumption
     DEF Fit, Sound, Mentioned

\* reserve: the new record has the id just drawn.
LEMMA ReserveFit ==
  ASSUME NEW d, NEW S \in SUBSET Ids, Fit(d, S), NEW i \in Ids \ S,
         NEW k \in Keys, NEW r \in Requests, HasRoom(d), KeyIsFresh(d, k)
  PROVE  /\ Fit(Reserved(d, i, k, r), S \cup {i})
         /\ Moves(d, Reserved(d, i, k, r))
<1> DEFINE e == Reserved(d, i, k, r)
<1>1. d \in Document /\ Sound(d) /\ i \notin Mentioned(d) /\ Mentioned(d) \subseteq S
  BY DEF Fit
<1>2. e \in Document /\ Sound(e)
  BY <1>1, ReservedShape, ReservedSound
<1>3. /\ e.rec[i].state = "requested"
      /\ \A j \in Ids : j # i => e.rec[j] = d.rec[j]
      /\ e.tombs = d.tombs /\ e.cleanups = d.cleanups
      /\ d.rec[i].state = "absent"
  BY <1>1, EntryShape DEF Reserved, Document, Mentioned, Recorded
<1> HIDE DEF e
<1>4. Mentioned(e) \subseteq S \cup {i}
  BY <1>1, <1>3 DEF Mentioned, Recorded, TombIds, Owing
<1>5. Cardinality(InState(e, Pending)) <= MaxPending
  <2>1. /\ InState(e, Pending) = InState(d, Pending) \cup {i}
        /\ i \notin InState(d, Pending)
    BY <1>3 DEF InState, Pending
  <2>2. Cardinality(InState(e, Pending)) = Cardinality(InState(d, Pending)) + 1
    BY <1>1, <2>1, PendingSet, Counted
  <2> QED
    BY <1>1, <2>2, PendingSet DEF HasRoom
<1>6. Moves(d, e)
  BY <1>3 DEF Moves, Follows, Edges
<1> QED
  BY <1>2, <1>4, <1>5, <1>6 DEF Fit, e

\* transition, when every expected state has an edge to the new one.
LEMMA TransitionFit ==
  ASSUME NEW d, NEW S \in SUBSET Ids, Fit(d, S), NEW i \in Ids,
         NEW expected \in SUBSET Pending, NEW to \in States,
         d.rec[i].state \in expected,
         \A s \in expected : s = to \/ <<s, to>> \in Edges,
         to \in {"creating", "uncertain", "owned", "failed"}
  PROVE  /\ Fit(Transitioned(d, i, expected, to), S)
         /\ Moves(d, Transitioned(d, i, expected, to))
<1> DEFINE e == Transitioned(d, i, expected, to)
<1>1. d \in Document /\ Sound(d) /\ Mentioned(d) \subseteq S
  BY DEF Fit
<1>2. e \in Document /\ Sound(e)
  BY <1>1, TransitionedShape, TransitionedSound
<1>3. /\ e.rec[i] = [d.rec[i] EXCEPT !.state = to]
      /\ e.rec[i].state = to
      /\ e.rec[i].key = d.rec[i].key /\ e.rec[i].request = d.rec[i].request
      /\ \A j \in Ids : j # i => e.rec[j] = d.rec[j]
      /\ e.tombs = d.tombs /\ e.cleanups = d.cleanups
      /\ d.rec[i].state \in Pending
  <2>1. e = [d EXCEPT !.rec[i].state = to]
    BY DEF Transitioned
  <2> HIDE DEF e
  <2> QED
    BY <1>1, <2>1, EntryShape DEF Document, Entry
<1>4. d.rec[i].state = to => e.rec[i] = d.rec[i]
  BY <1>1, <1>3, EntryShape DEF Entry
<1> HIDE DEF e
<1>5. Mentioned(e) \subseteq S
  BY <1>1, <1>3 DEF Mentioned, Recorded, TombIds, Owing, Pending
<1>6. InState(e, Pending) \subseteq InState(d, Pending)
  BY <1>3 DEF InState
<1>7. Cardinality(InState(e, Pending)) <= MaxPending
  BY <1>1, <1>2, <1>6, PendingSet DEF Fit
<1>8. Moves(d, e)
  BY <1>3, <1>4 DEF Moves, Follows
<1> QED
  BY <1>2, <1>5, <1>7, <1>8 DEF Fit, e

\* beginRetirement.
LEMMA BeginFit ==
  ASSUME NEW d, NEW S \in SUBSET Ids, Fit(d, S), NEW i \in Ids, NEW k \in Keys,
         d.rec[i].state = "owned", CleanupRoom(d), KeyIsFresh(d, k)
  PROVE  /\ Fit(RetirementBegun(d, i, k), S)
         /\ Moves(d, RetirementBegun(d, i, k))
<1> DEFINE e == RetirementBegun(d, i, k)
<1>1. d \in Document /\ Sound(d) /\ Mentioned(d) \subseteq S
  BY DEF Fit
<1>2. e \in Document /\ Sound(e)
  BY <1>1, BegunShape, BegunSound
<1>3. /\ e.rec[i].state = "retiring"
      /\ e.rec[i].key = d.rec[i].key /\ e.rec[i].request = d.rec[i].request
      /\ \A j \in Ids : j # i => e.rec[j] = d.rec[j]
      /\ e.tombs = d.tombs /\ e.cleanups = d.cleanups
  <2>1. /\ e.rec = [d.rec EXCEPT ![i] = [d.rec[i] EXCEPT !.state = "retiring",
                                                       !.retireKey = k]]
        /\ e.tombs = d.tombs /\ e.cleanups = d.cleanups
    BY ZenonT(60), <1>1, BegunShape
  <2> HIDE DEF e
  <2> QED
    BY <1>1, <2>1, EntryShape DEF Entry
<1> HIDE DEF e
<1>4. Mentioned(e) \subseteq S
  BY <1>1, <1>3 DEF Mentioned, Recorded, TombIds, Owing
<1>5. InState(e, Pending) \subseteq InState(d, Pending)
  BY <1>3 DEF InState, Pending
<1>6. Cardinality(InState(e, Pending)) <= MaxPending
  BY <1>1, <1>2, <1>5, PendingSet DEF Fit
<1>7. Moves(d, e)
  BY <1>3 DEF Moves, Follows, Edges
<1> QED
  BY <1>2, <1>4, <1>6, <1>7 DEF Fit, e

\* cancelRetirement.
LEMMA CancelFit ==
  ASSUME NEW d, NEW S \in SUBSET Ids, Fit(d, S), NEW i \in Ids,
         d.rec[i].state = "retiring"
  PROVE  /\ Fit(RetirementCanceled(d, i), S)
         /\ Moves(d, RetirementCanceled(d, i))
<1> DEFINE e == RetirementCanceled(d, i)
<1>1. d \in Document /\ Sound(d) /\ Mentioned(d) \subseteq S
  BY DEF Fit
<1>2. e \in Document /\ Sound(e)
  BY <1>1, CanceledShape, CanceledSound
<1>3. /\ e.rec[i].state = "owned"
      /\ e.rec[i].key = d.rec[i].key /\ e.rec[i].request = d.rec[i].request
      /\ \A j \in Ids : j # i => e.rec[j] = d.rec[j]
      /\ e.tombs = d.tombs /\ e.cleanups = d.cleanups
  <2>1. /\ e.rec = [d.rec EXCEPT ![i] = [d.rec[i] EXCEPT !.state = "owned",
                                                       !.retireKey = NoKey]]
        /\ e.tombs = d.tombs /\ e.cleanups = d.cleanups
    BY <1>1, CanceledShape
  <2> HIDE DEF e
  <2> QED
    BY <1>1, <2>1, EntryShape DEF Entry
<1> HIDE DEF e
<1>4. Mentioned(e) \subseteq S
  BY <1>1, <1>3 DEF Mentioned, Recorded, TombIds, Owing
<1>5. InState(e, Pending) \subseteq InState(d, Pending)
  BY <1>3 DEF InState, Pending
<1>6. Cardinality(InState(e, Pending)) <= MaxPending
  BY <1>1, <1>2, <1>5, PendingSet DEF Fit
<1>7. Moves(d, e)
  BY <1>3 DEF Moves, Follows, Edges
<1> QED
  BY <1>2, <1>4, <1>6, <1>7 DEF Fit, e

\* completeRetirement: the tombstone speaks of the record's own id.
LEMMA CompleteFit ==
  ASSUME NEW d, NEW S \in SUBSET Ids, Fit(d, S), NEW i \in Ids,
         NEW scoped \in BOOLEAN, d.rec[i].state = "retiring"
  PROVE  /\ Fit(RetirementCompleted(d, i, scoped), S)
         /\ Moves(d, RetirementCompleted(d, i, scoped))
<1> DEFINE e == RetirementCompleted(d, i, scoped)
           t == TombOf(i, d.rec[i], scoped)
<1>1. d \in Document /\ Sound(d) /\ Mentioned(d) \subseteq S
  BY DEF Fit
<1>2. e \in Document /\ Sound(e)
  BY <1>1, CompletedSound
<1>3. /\ e.rec[i].state = "absent"
      /\ \A j \in Ids : j # i => e.rec[j] = d.rec[j]
      /\ \A j \in Ids : j # i => e.cleanups[j] = d.cleanups[j]
      /\ e.tombs = DropOldest(Append(d.tombs, t))
  BY <1>1, EntryShape DEF RetirementCompleted, Absent
<1>4. i \in Recorded(d)
  BY DEF Recorded
<1>5. TombIds(e) \subseteq TombIds(d) \cup {i}
  <2>1. /\ d.rec[i].key \in Keys /\ d.rec[i].retireKey \in Keys
        /\ d.rec[i].request \in Requests /\ Len(d.tombs) <= MaxRetirements
    BY <1>1, EntryShape DEF Sound, RecordsCoherent, WithinLimits
  <2>2. t \in Tomb /\ t.id = i
    BY <1>1, <2>1, CompletedShape DEF TombOf
  <2>3. d.tombs \in Seq(Tomb) /\ DOMAIN d.tombs = 1..Len(d.tombs)
        /\ Len(d.tombs) \in Nat
    BY <1>1, TombShape
  <2>4. DOMAIN e.tombs = 1..Len(e.tombs) /\ Len(e.tombs) \in Nat
    BY <1>2, TombShape
  <2> DEFINE n == Append(d.tombs, t)
             o == IF Len(n) > MaxRetirements THEN 1 ELSE 0
             z == DropOldest(n)
  <2>5. /\ Len(z) = Len(d.tombs) + 1 - o
        /\ \A m \in 1..Len(z) :
             z[m] = IF m + o = Len(d.tombs) + 1 THEN t ELSE d.tombs[m + o]
    <3> HIDE DEF t
    <3> QED
      BY <2>1, <2>2, <2>3, DropOldestShape
  <2>6. o \in {0, 1} /\ e.tombs = z
    BY <1>3
  <2> HIDE DEF e, t, n, o, z
  <2>7. ASSUME NEW m \in DOMAIN e.tombs
        PROVE  e.tombs[m] = t \/ \E q \in DOMAIN d.tombs : e.tombs[m] = d.tombs[q]
    <3>1. m \in 1..Len(z) /\ m + o \in 1..(Len(d.tombs) + 1)
      BY <2>3, <2>4, <2>5, <2>6
    <3>2. CASE m + o = Len(d.tombs) + 1
      BY <2>5, <2>6, <3>1, <3>2
    <3>3. CASE m + o # Len(d.tombs) + 1
      <4>1. m + o \in DOMAIN d.tombs
        BY <2>3, <3>1, <3>3
      <4>2. e.tombs[m] = d.tombs[m + o]
        BY <2>5, <2>6, <3>1, <3>3
      <4> QED
        BY <4>1, <4>2
    <3> QED
      BY <3>2, <3>3
  <2> QED
    BY <2>2, <2>7 DEF TombIds
<1> HIDE DEF e, t
<1>6. Mentioned(e) \subseteq S
  BY <1>1, <1>3, <1>4, <1>5 DEF Mentioned, Recorded, Owing
<1>7. InState(e, Pending) \subseteq InState(d, Pending)
  BY <1>3 DEF InState, Pending
<1>8. Cardinality(InState(e, Pending)) <= MaxPending
  BY <1>1, <1>2, <1>7, PendingSet DEF Fit
<1>9. Moves(d, e)
  BY <1>3 DEF Moves, Follows, Edges
<1> QED
  BY <1>2, <1>6, <1>8, <1>9 DEF Fit, e

\* completeRetirementCleanup: no record moves.
LEMMA CleanupFit ==
  ASSUME NEW d, NEW S \in SUBSET Ids, Fit(d, S), NEW i \in Ids,
         NEW c \in BOOLEAN
  PROVE  /\ Fit(CleanupCompleted(d, i, c), S)
         /\ Moves(d, CleanupCompleted(d, i, c))
<1> DEFINE e == CleanupCompleted(d, i, c)
<1>1. d \in Document /\ Sound(d) /\ Mentioned(d) \subseteq S
  BY DEF Fit
<1>2. e \in Document /\ Sound(e)
  BY <1>1, CleanupCompletedShape, CleanupCompletedSound
<1>3. /\ e.rec = d.rec
      /\ e.cleanups = [d.cleanups EXCEPT ![i] = NoKey]
      /\ DOMAIN e.tombs = DOMAIN d.tombs
      /\ \A m \in DOMAIN d.tombs : e.tombs[m].id = d.tombs[m].id
  BY <1>1, CleanupCompletedShape
<1> HIDE DEF e
<1>4. Mentioned(e) \subseteq S
  <2>1. Recorded(e) = Recorded(d) /\ TombIds(e) = TombIds(d)
    BY <1>3 DEF Recorded, TombIds
  <2>2. Owing(e) \subseteq Owing(d)
    BY <1>1, <1>3, EntryShape DEF Owing
  <2> QED
    BY <1>1, <2>1, <2>2 DEF Mentioned
<1>5. InState(e, Pending) = InState(d, Pending)
  BY <1>3 DEF InState
<1> QED
  BY <1>2, <1>3, <1>4, <1>5 DEF Fit, Moves, e

-----------------------------------------------------------------------------
(* The file after a write decodes to what was written.                      *)

\* A fit document is read back from the file as it was written.
LEMMA WrittenFile ==
  ASSUME NEW d, NEW S, Fit(d, S), NEW c \in BOOLEAN
  PROVE  /\ Encoded(d, c) \in File
         /\ Encoded(d, c).rec = d.rec
         /\ Decoded(Encoded(d, c)) = d
<1>1. d \in Document /\ OneHomePerLaunch(d)
  BY DEF Fit, Sound
<1> QED
  BY <1>1, EncodedShape, RoundTrip

-----------------------------------------------------------------------------
(* The initial files.                                                       *)

\* A version-1 file open() accepts.
LEMMA LegacyFit ==
  ASSUME NEW r \in LegacyRecords
  PROVE  /\ LegacyFile(r) \in File
         /\ Fit(Decoded(LegacyFile(r)), {i \in Ids : r[i].state # "absent"})
<1> DEFINE f == LegacyFile(r)
           d == Decoded(f)
<1>1. /\ r \in [Ids -> Entry] /\ Acceptable(f)
      /\ Cardinality({i \in Ids : r[i].state \in Pending}) <= MaxPending
  BY LegacyAssumption
<1>2. f \in File
  BY <1>1, EmptySeq DEF LegacyFile, File, NoCleanups
<1>3. d \in Document
  BY <1>2, DecodedShape
<1>4. d.rec = r /\ d.tombs = <<>> /\ DOMAIN d.tombs = {}
  BY EmptySeq DEF LegacyFile, Decoded
<1>5. \A i \in Ids : d.cleanups[i] = NoKey
  BY EmptySeq DEF LegacyFile, Decoded, TombCleanup
<1>6. Sound(d)
  BY <1>1 DEF Acceptable
<1> HIDE DEF d, f
<1>7. Mentioned(d) = {i \in Ids : r[i].state # "absent"}
  BY <1>4, <1>5 DEF Mentioned, Recorded, TombIds, Owing
<1>8. InState(d, Pending) = {i \in Ids : r[i].state \in Pending}
  BY <1>4 DEF InState
<1> QED
  BY <1>1, <1>2, <1>3, <1>6, <1>7, <1>8 DEF Fit, d, f

\* A file that was just created.
LEMMA FreshFit ==
  /\ FreshFile \in File
  /\ Decoded(FreshFile) = Empty
<1>1. Absent \in Entry
  BY DEF Absent, Entry, States
<1>2. FreshFile \in File
  BY <1>1, EmptySeq DEF FreshFile, Empty, File, NoCleanups
<1>3. Decoded(FreshFile) = Empty
  BY DEF FreshFile, Decoded, Empty, NoCleanups
<1> QED
  BY <1>2, <1>3

\* The initial files, and a closed ledger.
LEMMA InitInv == Init => IInv
<1> SUFFICES ASSUME Init
             PROVE  IInv
  OBVIOUS
<1> USE DEF Init
<1>1. Empty \in Document /\ Fit(Empty, issued)
  BY EmptyShape, EmptyFit
<1>2. disk \in File /\ Fit(Decoded(disk), issued)
  <2>1. CASE disk = FreshFile
    BY <2>1, <1>1, FreshFit
  <2>2. CASE \E r \in LegacyRecords : disk = LegacyFile(r)
    <3>1. PICK r \in LegacyRecords : disk = LegacyFile(r)
      BY <2>2
    <3>2. disk.rec = r
      BY <3>1 DEF LegacyFile
    <3> QED
      BY <3>1, <3>2, LegacyFit
  <2> QED
    BY <2>1, <2>2
<1> QED
  BY <1>1, <1>2 DEF IInv, TypeOK

-----------------------------------------------------------------------------
(* Each action keeps the inductive invariant.                               *)

\* Fitness only asks that ids were drawn, so drawing more keeps it.
LEMMA FitGrows ==
  \A d, S, T : Fit(d, S) /\ S \subseteq T => Fit(d, T)
BY DEF Fit

\* Opening, and a migration that fails after its rename.
LEMMA OpenInv == IInv /\ (Open \/ OpenFailsMigrated) => IInv'
<1> SUFFICES ASSUME IInv, Open \/ OpenFailsMigrated
             PROVE  IInv'
  OBVIOUS
<1>1. disk \in File /\ disk' = [disk EXCEPT !.legacy = FALSE]
  BY DEF Open, OpenFailsMigrated, IInv, TypeOK
<1>2. /\ disk' \in File /\ Decoded(disk') = Decoded(disk)
      /\ Decoded(disk) \in Document /\ DecodedCompact(disk) \in BOOLEAN
  BY <1>1, DecodedShape
<1>3. CASE Open
  BY <1>1, <1>2, <1>3 DEF Open, IInv, TypeOK
<1>4. CASE OpenFailsMigrated
  BY <1>1, <1>2, <1>4 DEF OpenFailsMigrated, IInv, TypeOK
<1> QED
  BY <1>3, <1>4

\* Closing, and a crash: the file is the old one, or the one being written.
LEMMA CloseInv == IInv /\ (Close \/ Crash) => IInv'
<1> SUFFICES ASSUME IInv, Close \/ Crash
             PROVE  IInv'
  OBVIOUS
<1>1. Fit(Empty, issued) /\ Empty \in Document
  BY EmptyFit, EmptyShape
<1>2. status' = "closed" /\ mem' = Empty /\ undo' = Empty /\ compact' = FALSE
      /\ ahead' = FALSE /\ issued' = issued
  BY DEF Close, Crash, Forgotten
<1>3. disk' \in File /\ Fit(Decoded(disk'), issued)
  <2>1. CASE disk' = disk
    BY <2>1 DEF IInv, TypeOK
  <2>2. CASE disk' = Encoded(mem, compact)
    BY <2>2, WrittenFile DEF IInv, TypeOK
  <2> QED
    BY <2>1, <2>2 DEF Close, Crash
<1> QED
  BY <1>1, <1>2, <1>3 DEF IInv, TypeOK

\* A mutation that keeps the document fit and moves records along edges.
LEMMA MutateInv ==
  ASSUME IInv, NEW next, Mutate(next), issued \subseteq issued',
         issued' \subseteq Ids, Fit(next, issued'), Moves(mem, next)
  PROVE  IInv'
<1>1. /\ mem' = next /\ undo' = mem /\ status = "open" /\ status' = "writing"
      /\ compact' = compact /\ disk' = disk /\ ahead' = ahead
  BY DEF Mutate
<1>2. Fit(mem', issued') /\ Fit(undo', issued') /\ Fit(Decoded(disk'), issued')
  BY <1>1, FitGrows DEF IInv
<1>3. TypeOK'
  BY <1>1, <1>2 DEF IInv, TypeOK, Fit
<1> QED
  BY <1>1, <1>2, <1>3 DEF IInv

\* reserve draws an id and mutates.
LEMMA ReserveInv ==
  ASSUME NEW k \in Keys, NEW r \in Requests, IInv, Reserve(k, r)
  PROVE  IInv'
<1>1. PICK i \in Ids \ issued :
        /\ HasRoom(mem) /\ KeyIsFresh(mem, k)
        /\ Mutate(Reserved(mem, i, k, r)) /\ issued' = issued \cup {i}
  BY DEF Reserve
<1>2. issued \in SUBSET Ids /\ Fit(mem, issued)
  BY DEF IInv, TypeOK
<1>3. /\ Fit(Reserved(mem, i, k, r), issued')
      /\ Moves(mem, Reserved(mem, i, k, r))
  BY <1>1, <1>2, ReserveFit
<1> QED
  BY <1>1, <1>2, <1>3, MutateInv

\* The transitions the coordinator asks for are edges of the lifecycle.
LEMMA TransitionInv ==
  ASSUME NEW i \in Ids, IInv, CoordinatorTransition(i)
  PROVE  IInv'
<1>1. issued \in SUBSET Ids /\ Fit(mem, issued)
  BY DEF IInv, TypeOK
<1>2. ASSUME NEW expected \in SUBSET Pending, NEW to \in States,
             \A s \in expected : s = to \/ <<s, to>> \in Edges,
             to \in {"creating", "uncertain", "owned", "failed"},
             Transition(i, expected, to)
      PROVE  IInv'
  <2>1. /\ mem.rec[i].state \in expected /\ issued' = issued
        /\ Mutate(Transitioned(mem, i, expected, to))
    BY <1>2 DEF Transition
  <2>2. /\ Fit(Transitioned(mem, i, expected, to), issued)
        /\ Moves(mem, Transitioned(mem, i, expected, to))
    BY <1>1, <1>2, <2>1, TransitionFit
  <2> QED
    BY <1>1, <2>1, <2>2, MutateInv
<1>3. CASE Transition(i, {"requested"}, "creating")
  BY <1>2, <1>3 DEF Pending, States, Edges
<1>4. CASE Transition(i, {"creating"}, "uncertain")
  BY <1>2, <1>4 DEF Pending, States, Edges
<1>5. CASE \E to \in Settled : Transition(i, {"creating", "uncertain"}, to)
  BY <1>2, <1>5 DEF Pending, States, Edges, Settled
<1> QED
  BY <1>3, <1>4, <1>5 DEF CoordinatorTransition

\* The four mutations of a retirement.
LEMMA RetirementInv ==
  ASSUME NEW i \in Ids, IInv,
         \/ \E k \in Keys : BeginRetirement(i, k)
         \/ \E scoped \in BOOLEAN : CompleteRetirement(i, scoped)
         \/ CompleteRetirementCleanup(i)
         \/ CancelRetirement(i)
  PROVE  IInv'
<1>1. issued \in SUBSET Ids /\ Fit(mem, issued) /\ compact \in BOOLEAN
  BY DEF IInv, TypeOK
<1>2. ASSUME NEW k \in Keys, BeginRetirement(i, k)
      PROVE  IInv'
  BY <1>1, <1>2, BeginFit, MutateInv DEF BeginRetirement
<1>3. ASSUME NEW scoped \in BOOLEAN, CompleteRetirement(i, scoped)
      PROVE  IInv'
  BY <1>1, <1>3, CompleteFit, MutateInv DEF CompleteRetirement
<1>4. CASE CompleteRetirementCleanup(i)
  BY <1>1, <1>4, CleanupFit, MutateInv DEF CompleteRetirementCleanup
<1>5. CASE CancelRetirement(i)
  BY <1>1, <1>5, CancelFit, MutateInv DEF CancelRetirement
<1> QED
  BY <1>2, <1>3, <1>4, <1>5

\* The end of a write: the file is memory, or memory falls back.
LEMMA PersistInv == IInv /\ (PersistOk \/ PersistFails) => IInv'
<1> SUFFICES ASSUME IInv, PersistOk \/ PersistFails
             PROVE  IInv'
  OBVIOUS
<1>1. Fit(Empty, issued) /\ Empty \in Document
  BY EmptyFit, EmptyShape
<1>2. /\ Encoded(mem, compact) \in File
      /\ Decoded(Encoded(mem, compact)) = mem
  BY WrittenFile DEF IInv, TypeOK
<1>3. CASE PersistOk
  BY <1>1, <1>2, <1>3 DEF PersistOk, IInv, TypeOK
<1>4. CASE PersistFails
  BY <1>1, <1>2, <1>4 DEF PersistFails, IInv, TypeOK
<1> QED
  BY <1>3, <1>4

\* Every step keeps the invariant.
LEMMA NextInv == IInv /\ [Next]_vars => IInv'
<1> SUFFICES ASSUME IInv, [Next]_vars
             PROVE  IInv'
  OBVIOUS
<1>1. CASE UNCHANGED vars
  BY <1>1 DEF vars, IInv, TypeOK
<1>2. CASE Open \/ OpenFailsMigrated
  BY <1>2, OpenInv
<1>3. CASE Close \/ Crash
  BY <1>3, CloseInv
<1>4. CASE \E k \in Keys, r \in Requests : Reserve(k, r)
  BY <1>4, ReserveInv
<1>5. CASE \E i \in Ids : CoordinatorTransition(i)
  BY <1>5, TransitionInv
<1>6. CASE \/ \E i \in Ids, k \in Keys : BeginRetirement(i, k)
           \/ \E i \in Ids, scoped \in BOOLEAN : CompleteRetirement(i, scoped)
           \/ \E i \in Ids : CompleteRetirementCleanup(i)
           \/ \E i \in Ids : CancelRetirement(i)
  BY <1>6, RetirementInv
<1>7. CASE PersistOk \/ PersistFails
  BY <1>7, PersistInv
<1> QED
  BY <1>1, <1>2, <1>3, <1>4, <1>5, <1>6, <1>7 DEF Next

\* The inductive invariant holds of every reachable state of the ledger.
THEOREM Invariant == Spec => []IInv
BY InitInv, NextInv, PTL DEF Spec

-----------------------------------------------------------------------------
(* The properties.                                                          *)

\* The Maps, the rollback copy and the file keep their shape.
THEOREM TypeCorrect == Spec => []TypeOK
<1>1. IInv => TypeOK
  BY DEF IInv
<1> QED
  BY <1>1, Invariant, PTL

\* open() accepts the file whenever the process may die: every write,
\* complete or cut short, leaves a ledger the next process can load.
THEOREM AlwaysReopens == Spec => []FileReopens
<1>1. IInv => FileReopens
  BY DEF IInv, Fit, FileReopens, Acceptable
<1> QED
  BY <1>1, Invariant, PTL

\* The file decodes to memory, or to what a failing write would restore, and
\* the compact encoding loses no cleanup.
THEOREM FileIsMemory == Spec => []FileTellsMemory
<1>1. IInv => FileTellsMemory
  BY WrittenFile DEF IInv, TypeOK, FileTellsMemory
<1> QED
  BY <1>1, Invariant, PTL

\* Unresolved intents never exceed the admission limit.
THEOREM AdmissionBounded == Spec => []PendingBounded
<1>1. IInv => PendingBounded
  BY DEF IInv, Fit, PendingBounded
<1> QED
  BY <1>1, Invariant, PTL

\* What is durable changes only along the edges of the launch lifecycle.
THEOREM LifecycleKept == Spec => DurableLifecycle
<1> DEFINE Kept == \A i \in Ids :
                     (~ahead /\ disk.rec[i] # disk'.rec[i])
                       => Follows(disk.rec[i], disk'.rec[i])
<1>1. IInv /\ [Next]_vars => [Kept]_vars
  <2> SUFFICES ASSUME IInv, Next, NEW i \in Ids, ~ahead,
                      disk.rec[i] # disk'.rec[i]
               PROVE  Follows(disk.rec[i], disk'.rec[i])
    OBVIOUS
  <2>1. status = "writing" /\ disk' = Encoded(mem, compact)
    <3>1. disk' = [disk EXCEPT !.legacy = FALSE] => disk'.rec = disk.rec
      BY DEF IInv, TypeOK, File
    <3> QED
      BY <3>1 DEF Next, Open, OpenFailsMigrated, Close, Crash, Reserve, Mutate,
         CoordinatorTransition, Transition, BeginRetirement,
         CompleteRetirement, CompleteRetirementCleanup, CancelRetirement,
         PersistOk, PersistFails
  <2>2. disk'.rec = mem.rec
    BY <2>1, WrittenFile DEF IInv, TypeOK
  <2>3. disk.rec = undo.rec
    BY <2>1, DecodedShape DEF IInv, TypeOK
  <2>4. Moves(undo, mem)
    BY <2>1 DEF IInv
  <2> QED
    BY <2>2, <2>3, <2>4 DEF Moves
<1> QED
  BY <1>1, Invariant, PTL DEF Spec, DurableLifecycle
=============================================================================
