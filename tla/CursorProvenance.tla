--------------------------- MODULE CursorProvenance ---------------------------
(***************************************************************************)
(* CursorSdkProvenanceStore of adapters/cursor-sdk.js: the private file     *)
(* that says, per launch attempt, which agent of the Cursor bridge belongs  *)
(* to this host, which run it was prompted to, and which deliveries are     *)
(* still in doubt.                                                          *)
(*                                                                         *)
(* Every operation loads the file, changes one record, validates it and     *)
(* writes the file anew, one operation at a time (#exclusive): one step.    *)
(* It may throw before the file is replaced or after (#save asserts the     *)
(* anchored directory again), so what a caller knows is only ok.            *)
(***************************************************************************)
EXTENDS CursorRuns

CONSTANTS
  Keys,        \* hashes of retirement keys
  NoKey,
  WritesFail   \* may an operation of the store throw?

ASSUME ProvenanceAssumption == NoKey \notin Keys /\ WritesFail \in BOOLEAN

VARIABLE file   \* the durable records, one per attempt

Records == [state: {"absent", "intent", "owned", "retiring", "retired"},
            run: Runs \cup {NoRun},          \* runId
            pending: BOOLEAN,                \* runPending
            cancel: Runs \cup {NoRun},       \* cancelAttemptedRunId
            key: Keys \cup {NoKey},          \* retirementKeyHash
            reserved: BOOLEAN,               \* retirementReserved
            del: {"unset", "no", "yes"}]     \* deleteAttempted

Absent == [state |-> "absent", run |-> NoRun, pending |-> FALSE, cancel |-> NoRun,
           key |-> NoKey, reserved |-> FALSE, del |-> "unset"]

\* validateRecord, for what it says of the fields that change.
ValidRecord(r) ==
  /\ r.cancel # NoRun => r.cancel = r.run
  /\ r.del = "yes" => r.state = "retiring"
  /\ r.reserved => r.state = "owned" /\ r.key # NoKey /\ r.del = "no"
  /\ r.del = "no" /\ r.state # "retiring" => r.reserved
  /\ (r.state \in {"retiring", "retired"} \/ r.reserved) <=> r.key # NoKey
  /\ r.state = "retired" => r.del = "unset"
  /\ r.state \in {"absent", "intent"} => r = [Absent EXCEPT !.state = r.state]

ProvenanceInit == file = [a \in Attempts |-> Absent]

\* One operation of the store on the record of a: allowed says whether it
\* accepts the record it finds, next is what it writes.
Write(a, allowed, next, ok) ==
  LET fits == allowed /\ ValidRecord(next)
  IN  \/ ok /\ fits /\ file' = [file EXCEPT ![a] = next]
      \/ ~ok /\ ~fits /\ UNCHANGED file
      \/ ~ok /\ fits /\ WritesFail /\ file' \in {file, [file EXCEPT ![a] = next]}

\* What a read throws for is what a write throws for.
Read(ok) == (ok \/ WritesFail) /\ UNCHANGED file

-----------------------------------------------------------------------------
(* Creation.                                                                *)

Reserve(a, ok) ==
  Write(a, file[a].state = "absent", [Absent EXCEPT !.state = "intent"], ok)

MarkOwned(a, ok) ==
  Write(a, file[a].state # "absent", [file[a] EXCEPT !.state = "owned"], ok)

-----------------------------------------------------------------------------
(* #updateOwned: runs and their cancellation.                               *)

UpdateOwned(a, allowed, next, ok) == Write(a, file[a].state = "owned" /\ allowed, next, ok)

BeginRun(a, ok) == UpdateOwned(a, TRUE, [file[a] EXCEPT !.pending = TRUE], ok)

CommitRun(a, r, ok) ==
  UpdateOwned(a, TRUE, [file[a] EXCEPT !.run = r, !.pending = FALSE, !.cancel = NoRun], ok)

RestoreRun(a, ok) == UpdateOwned(a, TRUE, [file[a] EXCEPT !.pending = FALSE], ok)

BeginCancel(a, r, ok) ==
  UpdateOwned(a, /\ ~file[a].pending
                 /\ file[a].run = r
                 /\ file[a].cancel = NoRun,
              [file[a] EXCEPT !.cancel = r], ok)

RestoreCancel(a, r, ok) ==
  UpdateOwned(a, file[a].run = r /\ file[a].cancel = r,
              [file[a] EXCEPT !.cancel = NoRun], ok)

-----------------------------------------------------------------------------
(* Retirement: a reservation in an owned record, then the fence "retiring". *)

NotReservedByOther(a, k) == file[a].key \in {NoKey, k}
Unreserved(r) == [r EXCEPT !.key = NoKey, !.reserved = FALSE, !.del = "unset"]

ReserveRetirement(a, k, ok) ==
  UpdateOwned(a, NotReservedByOther(a, k),
              [file[a] EXCEPT !.key = k, !.reserved = TRUE, !.del = "no"], ok)

ReleaseRetirementReservation(a, k, ok) ==
  UpdateOwned(a, file[a].key = k /\ file[a].reserved /\ file[a].del = "no",
              Unreserved(file[a]), ok)

BeginRetirement(a, k, ok) ==
  UpdateOwned(a, NotReservedByOther(a, k),
              [file[a] EXCEPT !.state = "retiring", !.key = k, !.reserved = FALSE], ok)

\* #updateRetirement
UpdateRetirement(a, k, next, ok) ==
  Write(a, file[a].state = "retiring" /\ file[a].key = k, next, ok)

MarkDeleteAttempted(a, k, ok) ==
  UpdateRetirement(a, k, [file[a] EXCEPT !.del = "yes"], ok)

MarkRetired(a, k, ok) ==
  UpdateRetirement(a, k, [file[a] EXCEPT !.state = "retired", !.del = "unset"], ok)

CancelRetirement(a, k, ok) ==
  Write(a, file[a].state \in {"owned", "retiring"} /\ file[a].key = k,
        [Unreserved(file[a]) EXCEPT !.state = "owned"], ok)

\* Nothing to do when the record is gone already.
RemoveRetired(a, k, ok) ==
  \/ ok /\ file[a].state = "absent" /\ UNCHANGED file
  \/ /\ file[a].state # "absent"
     /\ Write(a, file[a].state = "retired" /\ file[a].key = k, Absent, ok)
=============================================================================
