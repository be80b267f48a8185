-------------------------------- MODULE CodexRpc --------------------------------
(***************************************************************************)
(* adapters/codex-rpc.js: the JSON-RPC client that owns one child process  *)
(* at a time.  Every start of a process is a generation; a request belongs *)
(* to the generation it was written on and ends with its answer, with its  *)
(* timer, or with the generation.  The adapter's calls are sequential, so  *)
(* each has at most one request under way.                                 *)
(*                                                                         *)
(* A promise that settles is continued in a microtask: after the whole     *)
(* chunk of input that settled it was handled, and before anything else    *)
(* happens.  Deliver takes one message of a chunk, so it may happen while  *)
(* a settled request waits for its continuation (Pausing) as long as no    *)
(* continuation of that chunk has run yet (draining).                      *)
(***************************************************************************)
EXTENDS Integers, Queues

CONSTANTS
    Calls,      \* the adapter's calls that may be under way at once
    NoCall,     \* the id of a request nobody waits for any more
    Modes,      \* TRUE for a proxy to a shared App Server, FALSE for an owned one
    MaxGen      \* bound: processes started

ASSUME NoCallAssumption == NoCall \notin Calls
ASSUME GenAssumption == MaxGen \in Nat /\ Modes \subseteq BOOLEAN

VARIABLES
    control,    \* #transport (and #mode of the adapter), fixed at the start
    gen,        \* #generation
    started,    \* #started, which goes with #writer
    boot,       \* where #startInternal is
    req,        \* the request each call awaits, #pending among them
    toServer,   \* written on this connection and not handled yet
    toClient,   \* sent on this connection and not delivered yet
    draining    \* the continuations of a chunk are being run

rpcVars == <<control, gen, started, boot, req, toServer, toClient, draining>>

Unbound == 0        \* no expectedGeneration

NoRequest == [at |-> "none"]
Failed == [at |-> "failed"]
Sent == [at |-> "sent", gen |-> gen]
\* request() and ensureStarted() of a client that is not started wait for
\* #startPromise; msg is what request() writes afterwards.
Queued(msg) == [at |-> "queued", msg |-> msg]
Answered(body) == [at |-> "answered", gen |-> gen, body |-> body]

Settled(r) == r.at \in {"answered", "failed", "connected"}
Pausing == boot = "greeted" \/ \E c \in Calls : Settled(req[c])
\* A task of its own: a timer, an event of the process, a call from
\* outside.  Every promise that settled before it has been continued.
Task == ~Pausing /\ ~draining
Drain == draining' = Pausing'

RpcInit ==
    /\ control \in Modes
    /\ gen = 0 /\ started = FALSE /\ boot = "down" /\ draining = FALSE
    /\ req = [c \in Calls |-> NoRequest]
    /\ toServer = <<>> /\ toClient = <<>>

-----------------------------------------------------------------------------
\* request: refused, written, or waiting for a connection it starts.

Refused(expected) == expected # Unbound /\ (~started \/ gen # expected)

StartsConnection == boot' = IF boot = "down" THEN "spawning" ELSE boot

Send(c, msg, expected) ==
    /\ UNCHANGED <<gen, started, toClient>>
    /\ \/ /\ Refused(expected)
          /\ req' = [req EXCEPT ![c] = Failed]
          /\ UNCHANGED <<boot, toServer>>
       \/ /\ ~Refused(expected) /\ started
          /\ req' = [req EXCEPT ![c] = Sent]
          /\ toServer' = Append(toServer, msg)
          /\ UNCHANGED boot
       \/ /\ ~Refused(expected) /\ ~started
          /\ req' = [req EXCEPT ![c] = Queued(msg)]
          /\ StartsConnection
          /\ UNCHANGED toServer

\* The request that waited for start() is written when it is connected.
WriteQueued(c) ==
    /\ req[c].at = "connected" /\ "msg" \in DOMAIN req[c]
    /\ IF started
       THEN /\ req' = [req EXCEPT ![c] = Sent]
            /\ toServer' = Append(toServer, req[c].msg)
       ELSE /\ req' = [req EXCEPT ![c] = Failed]
            /\ UNCHANGED toServer
    /\ UNCHANGED <<gen, started, boot, toClient>>
    /\ Drain

Effective == {"resume", "steer", "start", "interrupt", "decision", "initialize"}

Unawaited(queue, c) ==
    LET late == [i \in DOMAIN queue |-> IF queue[i].call = c
                   THEN [queue[i] EXCEPT !.call = NoCall] ELSE queue[i]]
    IN  Without(late, {m \in Elems(late) : m.call = NoCall /\ m.kind \notin Effective})

Unanswered(queue, c) == Without(queue, {m \in Elems(queue) : m.call = c})

\* The timer of a request, or the signal of its call: the id is no longer
\* pending and an answer to it will be dropped.  Only what the server will
\* still do with the request is kept.
TimesOut(c) ==
    /\ Task /\ req[c].at = "sent"
    /\ req' = [req EXCEPT ![c] = Failed]
    /\ toServer' = Unawaited(toServer, c)
    /\ toClient' = Unanswered(toClient, c)
    /\ UNCHANGED <<gen, started, boot>>
    /\ Drain

-----------------------------------------------------------------------------
\* startInternal.

\* The initialize request is the first thing written on a connection.
Greeting == [kind |-> "initialize", call |-> NoCall]

Opened == /\ started' = TRUE /\ boot' = "hello" /\ toServer' = <<Greeting>>

Spawned ==
    /\ Task /\ boot = "spawning" /\ gen < MaxGen
    /\ gen' = gen + 1
    /\ IF control
       THEN /\ boot' = "wiring"
            /\ UNCHANGED <<started, toServer>>
       ELSE Opened
    /\ UNCHANGED <<req, toClient, draining>>

WireOpens ==
    /\ Task /\ boot = "wiring"
    /\ Opened
    /\ UNCHANGED <<gen, req, toClient, draining>>

\* #disconnect: the exit of the process, the end of the wire, or close.
\* What was under way on the connection is gone with it.
Disconnect ==
    /\ started' = FALSE
    /\ toServer' = <<>> /\ toClient' = <<>>
    /\ req' = [c \in Calls |-> IF req[c].at = "sent" THEN Failed ELSE req[c]]
    /\ boot' = IF boot \in {"hello", "greeted", "wiring"} THEN "closing" ELSE "down"
    /\ UNCHANGED gen
    /\ Drain

\* The catch of #startInternal waited for the process: all who wait for
\* #startPromise fail with it.
GivesUp ==
    /\ boot' = "down"
    /\ req' = [c \in Calls |-> IF req[c].at = "queued" THEN Failed ELSE req[c]]
    /\ UNCHANGED <<gen, started, toServer, toClient>>
    /\ Drain

StartFails == Task /\ boot \in {"spawning", "closing"} /\ GivesUp

\* The answer to initialize is there and nothing broke the connection
\* since: "connected" is emitted, #startPromise resolves.
Connects ==
    /\ boot = "greeted"
    /\ boot' = "up"
    /\ req' = [c \in Calls |-> IF req[c].at = "queued"
                               THEN [req[c] EXCEPT !.at = "connected"] ELSE req[c]]
    /\ UNCHANGED <<gen, started, toServer, toClient>>
    /\ Drain

\* handleLine and #consumeFrames go on through a chunk until its end.
Chunk == ~draining /\ toClient # <<>>

\* An answer: to initialize or to the request its id is pending for.  One
\* to an id that is not pending is dropped, so it is not listed.
TakeAnswer ==
    /\ Chunk /\ toClient' = Tail(toClient)
    /\ LET m == Head(toClient) IN
       \/ /\ m.kind = "welcome" /\ boot = "hello"
          /\ boot' = "greeted" /\ UNCHANGED req
       \/ /\ m.kind = "answer"
          /\ req' = [req EXCEPT ![m.call] = IF m.ok THEN Answered(m.body) ELSE Failed]
          /\ UNCHANGED boot
    /\ UNCHANGED <<gen, started, toServer, draining>>
=============================================================================
