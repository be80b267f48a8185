----------------------------- MODULE CursorBridge -----------------------------
(***************************************************************************)
(* adapters/cursor-sdk-transport.js, the client of the Cursor bridge, and   *)
(* the bridge itself, which is not part of this repository.                 *)
(*                                                                         *)
(* A request that changes something out there is put on the wire; the       *)
(* bridge carries it out, refuses it, or it is lost.  The caller waits for  *)
(* one request at a time and may give up on it: what is on the wire may     *)
(* still be carried out, also after this process has died.  The client      *)
(* remembers the prompts it has sent and the runs it has seen start, and    *)
(* forgets them with the process.                                           *)
(***************************************************************************)
EXTENDS CursorRuns

VARIABLES
  svc,      \* the bridge: "none", "live" or "deleted", per agent
  runs,     \* the bridge: per agent and run, "none", "live" or "over"
  wire,     \* requests under way
  waiting,  \* per agent: the request its operation waits for, or NoRequest
  reply,    \* per agent: "none", "ok", "rejected" or "missing"
  active,   \* #activeRuns: the run seen to start, or NoRun
  asked,    \* its cancelRequested
  sending,  \* pendingSends: "none", "open", "uncertain" or "accepted"
  cancels   \* per agent and run: CancelRun requests not refused (history)

service == <<svc, runs>>
client == <<active, asked, sending>>
network == <<wire, waiting, reply>>
bridgeVars == <<service, network, client, cancels>>

\* A delete that is repeated is told from the one sent before it.
Deletes == {"delete", "delete again"}
Request == [kind: {"create", "send", "cancel"} \cup Deletes, run: Runs \cup {NoRun}]
Ask(kind) == [kind |-> kind, run |-> NoRun]
CancelOf(r) == [kind |-> "cancel", run |-> r]
NoRequest == Ask("none")

BridgeInit ==
  /\ svc = [a \in Attempts |-> "none"]
  /\ runs = [a \in Attempts |-> [r \in Runs |-> "none"]]
  /\ wire = [a \in Attempts |-> {}]
  /\ waiting = [a \in Attempts |-> NoRequest]
  /\ reply = [a \in Attempts |-> "none"]
  /\ active = [a \in Attempts |-> NoRun]
  /\ asked = [a \in Attempts |-> FALSE]
  /\ sending = [a \in Attempts |-> "none"]
  /\ cancels = [a \in Attempts |-> [r \in Runs |-> 0]]

Started(a) == {r \in Runs : runs[a][r] # "none"}
LiveRuns(a) == {r \in Runs : runs[a][r] = "live"}
NextRun(a) == 1 + Cardinality(Started(a))

-----------------------------------------------------------------------------
(* What the bridge does with a request, and the answer if it is awaited.    *)

Answered(a, q, answer) ==
  /\ wire' = [wire EXCEPT ![a] = @ \ {q}]
  /\ reply' = [reply EXCEPT ![a] = IF waiting[a] = q THEN answer ELSE @]
  /\ UNCHANGED <<waiting, client>>

Creates(a) ==
  /\ Ask("create") \in wire[a]
  /\ svc' = [svc EXCEPT ![a] = IF @ = "none" THEN "live" ELSE @]
  /\ Answered(a, Ask("create"), "ok")
  /\ UNCHANGED <<runs, cancels>>

StartsRun(a) ==
  /\ Ask("send") \in wire[a]
  /\ svc[a] = "live" /\ NextRun(a) \in Runs
  /\ runs' = [runs EXCEPT ![a][NextRun(a)] = "live"]
  /\ Answered(a, Ask("send"), "ok")
  /\ UNCHANGED <<svc, cancels>>

CancelsRun(a, r) ==
  /\ CancelOf(r) \in wire[a]
  /\ runs' = [runs EXCEPT ![a][r] = IF @ = "live" THEN "over" ELSE @]
  /\ Answered(a, CancelOf(r), "ok")
  /\ UNCHANGED <<svc, cancels>>

DeletesAgent(a, q) ==
  /\ q \in wire[a] /\ q.kind \in Deletes
  /\ svc' = [svc EXCEPT ![a] = "deleted"]
  /\ Answered(a, q, IF svc[a] = "live" THEN "ok" ELSE "missing")
  /\ UNCHANGED <<runs, cancels>>

\* A definitive rejection: nothing is done, and nothing will be.
Rejects(a, q) ==
  /\ q \in wire[a]
  /\ Answered(a, q, "rejected")
  /\ cancels' = IF q.kind = "cancel" THEN [cancels EXCEPT ![a][q.run] = @ - 1] ELSE cancels
  /\ UNCHANGED service

Loses(a, q) ==
  /\ q \in wire[a] /\ wire' = [wire EXCEPT ![a] = @ \ {q}]
  /\ UNCHANGED <<service, waiting, reply, client, cancels>>

RunEnds(a, r) ==
  /\ runs[a][r] = "live"
  /\ runs' = [runs EXCEPT ![a][r] = "over"]
  /\ UNCHANGED <<svc, network, client, cancels>>

BridgeStep(a) ==
  \/ Creates(a) \/ StartsRun(a)
  \/ \E r \in Runs : CancelsRun(a, r) \/ RunEnds(a, r)
  \/ \E q \in wire[a] : DeletesAgent(a, q) \/ Rejects(a, q) \/ Loses(a, q)

-----------------------------------------------------------------------------
(* The client's calls.  Sends(a, q) puts a request on the wire; the caller  *)
(* resumes with Replied, or with GivesUp at its timeout or abort.           *)

Sends(a, q) ==
  /\ wire' = [wire EXCEPT ![a] = @ \cup {q}]
  /\ waiting' = [waiting EXCEPT ![a] = q]
  /\ UNCHANGED <<service, reply>>

Settled(a) ==
  /\ waiting' = [waiting EXCEPT ![a] = NoRequest]
  /\ reply' = [reply EXCEPT ![a] = "none"]
  /\ UNCHANGED <<wire, service>>

Replied(a, answer) == reply[a] = answer /\ Settled(a)
GivesUp(a) == waiting[a] # NoRequest /\ Settled(a)

\* What getLocal can find, after resumeLocal if need be; mapAgent's status.
StatusesOf(a) ==
  IF svc[a] # "live" THEN {}
  ELSE IF LiveRuns(a) # {} THEN {"working"} ELSE {"idle", "error", "unknown"}

\* getLocal's bookkeeping: an agent that is not working has no active run,
\* and an idle one has no prompt under way.
Looked(a, status) ==
  /\ active' = [active EXCEPT ![a] = IF status = "working" THEN @ ELSE NoRun]
  /\ asked' = [asked EXCEPT ![a] = status = "working" /\ @]
  /\ sending' = [sending EXCEPT ![a] =
       IF status \in {"idle", "error"} /\ @ \in {"uncertain", "accepted"}
       THEN "none" ELSE @]
  /\ UNCHANGED <<service, network, cancels>>

\* inspectRunLocal: mapRun of what GetRun says.
RunStatuses(a, r) ==
  IF r \in LiveRuns(a) THEN {"working", "creating"}
  ELSE IF r \in Started(a) THEN {"terminal"} ELSE {}

\* sendLocal: one prompt per agent at a time; first the agent is resumed.
Busy(a) == active[a] # NoRun \/ sending[a] # "none"

SendLocal(a) ==
  /\ ~Busy(a)
  /\ Sends(a, Ask("send"))
  /\ sending' = [sending EXCEPT ![a] = "open"]
  /\ UNCHANGED <<active, asked, cancels>>

\* The stream names the run: it is accepted, and followed until it ends.
SendAccepted(a) ==
  /\ Replied(a, "ok")
  /\ sending' = [sending EXCEPT ![a] = IF @ = "open" THEN "accepted" ELSE @]
  /\ active' = [active EXCEPT ![a] = NextRun(a) - 1]
  /\ UNCHANGED <<asked, cancels>>

SendRejected(a) ==
  /\ Replied(a, "rejected")
  /\ sending' = [sending EXCEPT ![a] = "none"]
  /\ UNCHANGED <<active, asked, cancels>>

SendUncertain(a) ==
  /\ GivesUp(a)
  /\ sending' = [sending EXCEPT ![a] = "uncertain"]
  /\ UNCHANGED <<active, asked, cancels>>

\* The stream of an accepted run ends, with its result or without.
StreamEnds(a) ==
  /\ sending[a] = "accepted"
  /\ sending' = [sending EXCEPT ![a] = "none"]
  /\ \/ UNCHANGED <<active, asked>>
     \/ /\ active[a] \notin LiveRuns(a)
        /\ active' = [active EXCEPT ![a] = NoRun]
        /\ asked' = [asked EXCEPT ![a] = FALSE]
  /\ UNCHANGED <<service, network, cancels>>

\* cancelLocal: refused for another run and for one already asked to end;
\* without a stream the run is inspected first.
Cancellable(a, r) == active[a] \in {NoRun, r} /\ ~asked[a]

CancelLocal(a, r) ==
  /\ Cancellable(a, r)
  /\ active[a] = NoRun => "working" \in RunStatuses(a, r)
  /\ Sends(a, CancelOf(r))
  /\ asked' = [asked EXCEPT ![a] = active[a] # NoRun]
  /\ cancels' = [cancels EXCEPT ![a][r] = @ + 1]
  /\ UNCHANGED <<active, sending>>

CancelRejected(a) ==
  /\ Replied(a, "rejected")
  /\ asked' = [asked EXCEPT ![a] = FALSE]
  /\ UNCHANGED <<active, sending, cancels>>

\* deleteLocal: what is known of the agent's runs is forgotten.
DeleteConfirmed(a) ==
  /\ active' = [active EXCEPT ![a] = NoRun]
  /\ asked' = [asked EXCEPT ![a] = FALSE]
  /\ sending' = [sending EXCEPT ![a] = "none"]
  /\ UNCHANGED cancels

\* close(), destroy(), and the end of the process.
ClientForgets ==
  /\ active' = [a \in Attempts |-> NoRun]
  /\ asked' = [a \in Attempts |-> FALSE]
  /\ sending' = [a \in Attempts |-> "none"]
  /\ waiting' = [a \in Attempts |-> NoRequest]
  /\ reply' = [a \in Attempts |-> "none"]
  /\ UNCHANGED <<wire, service, cancels>>
=============================================================================
