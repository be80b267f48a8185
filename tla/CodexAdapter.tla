------------------------------ MODULE CodexAdapter ------------------------------
(***************************************************************************)
(* adapters/codex.js over codex-rpc.js: discovery and subscription of      *)
(* threads, prompts, interrupts and the approvals that the App Server asks *)
(* for.  Everything the adapter remembers was learnt on one connection and *)
(* is of no use on the next: approval ids of the server may repeat, turns  *)
(* may be over, subscriptions are gone.  A call awaits several answers and *)
(* must notice that the connection changed in between.                     *)
(*                                                                         *)
(* The App Server is external: an actor that handles requests in order,    *)
(* runs turns, edits files and asks.                                       *)
(***************************************************************************)
EXTENDS CodexRpc

CONSTANTS
    Discovery,  \* of Calls: the registry has one discovery of an adapter at a time
    Threads, NoThread,
    Contexts, NoContext,    \* the file changes of an item, as sanitized
    AskKinds,   \* of the server: TRUE for a file change, FALSE for a command
    MaxTurns,   \* bound: turns started
    MaxAsks,    \* bound: approvals asked on one connection
    MaxWire     \* bound: messages under way that nobody asked for or waits for

ASSUME CodexAssumption ==
    /\ Discovery \in Calls
    /\ NoThread \notin Threads /\ NoContext \notin Contexts
    /\ MaxTurns \in Nat /\ MaxAsks \in Nat /\ MaxWire \in Nat

Turns == 1..MaxTurns
NoTurn == 0

VARIABLES
    aGen,       \* #connectionGeneration
    aStarted,   \* #started of the adapter
    sub,        \* #subscriptions: the generation, 0 when there is none
    turn,       \* #activeTurns
    context,    \* #fileChangeContexts, of the one file change of a turn
    approvals,  \* #pendingApprovals
    call,       \* the calls of discover, prompt, interrupt, approve and reject
    shown,      \* history: an approval as a client knows it from agent records
    told,       \* history: the decisions written on this connection
    loaded,     \* external: the threads the server has loaded
    running,    \* external: the turn each of them runs
    owner,      \* external: the thread of each turn started so far
    resumed,    \* external: the threads resumed on this connection
    asked,      \* external: the approvals asked on this connection
    open        \* external: those of them that wait

adapterVars == <<aGen, aStarted, sub, turn, context, approvals>>
histories == <<shown, told>>
serverVars == <<loaded, running, owner, resumed, asked, open>>
codexVars == <<rpcVars, adapterVars, call, histories, serverVars>>

Idle == [op |-> "idle"]

CodexInit ==
    /\ RpcInit
    /\ aGen = 0 /\ aStarted = FALSE
    /\ sub = [t \in Threads |-> 0]
    /\ turn = [t \in Threads |-> NoTurn]
    /\ context = [n \in Turns |-> NoContext]
    /\ approvals = {} /\ shown = {} /\ told = <<>>
    /\ call = [c \in Calls |-> Idle]
    /\ loaded \in SUBSET Threads
    /\ running = [t \in Threads |-> NoTurn]
    /\ owner = [n \in Turns |-> NoThread]
    /\ resumed = {} /\ asked = {} /\ open = {}

-----------------------------------------------------------------------------
\* What the adapter remembers.

ApprovalId(raw) == IF control THEN <<gen, raw>> ELSE <<0, raw>>

Of(t) == {e \in approvals : e.thread = t}

\* #clearApprovalsForThread, #clearFileContextsForThread and the turn.
ForgetWork(T) ==
    /\ approvals' = {e \in approvals : e.thread \notin T}
    /\ context' = [n \in Turns |-> IF owner[n] \in T THEN NoContext ELSE context[n]]
    /\ turn' = [t \in Threads |-> IF t \in T THEN NoTurn ELSE turn[t]]

\* Variant: the subscription stays.
StillSubscribed(T) == sub

Unsubscribed(T) == [t \in Threads |-> IF t \in T THEN 0 ELSE sub[t]]

\* clearConnectionState.
ClearConnectionState == ForgetWork(Threads) /\ sub' = Unsubscribed(Threads)

Work == <<turn, context, approvals>>

\* connected: the state of another connection is cleared.
OnConnected ==
    /\ Connects
    /\ aGen' = gen /\ aStarted' = TRUE
    /\ IF aGen # gen THEN ClearConnectionState ELSE UNCHANGED <<sub, Work>>
    /\ UNCHANGED <<call, histories, serverVars>>

\* disconnected, of the connection the adapter knows.
OnDisconnected ==
    /\ IF started /\ gen = aGen
       THEN aStarted' = FALSE /\ ClearConnectionState
       ELSE UNCHANGED <<aStarted, sub, Work>>
    /\ UNCHANGED aGen

\* The process exits, or the wire ends (in control mode at the end of a
\* chunk too).  An owned server's turns end with it; the shared one may go
\* on.
Lost ==
    /\ boot \in {"wiring", "hello", "greeted", "up"}
    /\ Task \/ (control /\ ~draining)
    /\ Disconnect /\ OnDisconnected
    /\ running' \in {[t \in Threads |-> NoTurn]} \cup (IF control THEN {running} ELSE {})
    /\ resumed' = {} /\ open' = {} /\ asked' = {} /\ told' = <<>>
    /\ UNCHANGED <<call, shown, loaded, owner>>

-----------------------------------------------------------------------------
\* ensureStarted: at once when the adapter or the client has started (the
\* client has while initialize is not answered yet), after #startPromise
\* otherwise.
Begin(c, record) ==
    /\ Task /\ call[c] = Idle /\ Len(toServer) <= MaxWire
    /\ call' = [call EXCEPT ![c] = record]
    /\ req' = [req EXCEPT ![c] = [at |-> IF aStarted \/ started THEN "connected" ELSE "queued"]]
    /\ IF aStarted THEN UNCHANGED <<aGen, aStarted, boot>>
       ELSE IF started THEN aGen' = gen /\ aStarted' = TRUE /\ UNCHANGED boot
       ELSE StartsConnection /\ UNCHANGED <<aGen, aStarted>>
    /\ UNCHANGED <<gen, started, toServer, toClient>> /\ Drain
    /\ UNCHANGED <<sub, Work, histories, serverVars>>

\* The call goes on after what it awaited.
Entered(c) == call[c].op # "idle" /\ call[c].at = "start" /\ req[c].at = "connected"
Awaited(c, op, at) == call[c].op = op /\ call[c].at = at /\ req[c].at = "answered"
Missed(c, op, at) == call[c].op = op /\ call[c].at = at /\ req[c].at = "failed"

\* The call returns or throws.
Returns(c) ==
    /\ call' = [call EXCEPT ![c] = Idle]
    /\ req' = [req EXCEPT ![c] = NoRequest]
    /\ UNCHANGED <<gen, started, boot, toServer, toClient>>

\* Variant: a shared server may be asked for a new turn too.
MayRetryAnywhere == TRUE

\* An uncertain steer is not retried on a shared server.
MayRetry == ~control

\* A failure that the call does not catch; that of a steer when the call was
\* aborted, or else after the turn is forgotten.
Throws(c) ==
    /\ call[c].op # "idle" /\ req[c].at = "failed"
    /\ call[c].at \in {"start", "presume", "find", "start turn", "interrupt", "loaded",
                       "list", "steer"}
    /\ Returns(c)
    /\ turn' \in {turn} \cup (IF call[c].at = "steer" /\ ~MayRetry
                            THEN {[turn EXCEPT ![call[c].thread] = NoTurn]} ELSE {})
    /\ UNCHANGED <<aGen, aStarted, sub, context, approvals, histories, serverVars>> /\ Drain

-----------------------------------------------------------------------------
\* discover.

DiscoverBegins == Begin(Discovery, [op |-> "discover", at |-> "start"])

Lists(c, record) ==
    /\ Send(c, [kind |-> "list", call |-> c], Unbound)
    /\ call' = [call EXCEPT ![c] = [record EXCEPT !.at = "list", !.left = {}]]

\* The loop of #syncLoadedThreads from one thread to the next, with subs
\* the subscriptions left so far.
Subscribes(c, record, subs) ==
    LET todo == {t \in record.left : subs[t] # record.gen} IN
    \/ /\ todo = {} /\ sub' = subs
       /\ Lists(c, record)
    \/ \E t \in todo :
          /\ sub' = [subs EXCEPT ![t] = record.gen]
          /\ Send(c, [kind |-> "resume", call |-> c, thread |-> t], Unbound)
          /\ call' = [call EXCEPT ![c] = [record EXCEPT !.at = "resume", !.thread = t,
                                                        !.left = todo \ {t}]]

DiscoverEnters(c) ==
    /\ Entered(c) /\ call[c].op = "discover"
    /\ LET record == [op |-> "discover", at |-> "loaded", gen |-> aGen,
                      thread |-> NoThread, left |-> {}] IN
       IF control
       THEN /\ Send(c, [kind |-> "loaded", call |-> c], Unbound)
            /\ call' = [call EXCEPT ![c] = record]
       ELSE Lists(c, record)
    /\ UNCHANGED <<adapterVars, histories, serverVars>> /\ Drain

\* The pages of thread/loaded/list; when they were not all read, nothing
\* is known of the threads that are missing.
LoadedAnswered(c) ==
    /\ Awaited(c, "discover", "loaded")
    /\ \E complete \in BOOLEAN :
          LET gone == IF complete
                      THEN {t \in Threads : sub[t] # 0} \ req[c].body ELSE {} IN
          /\ ForgetWork(gone)
          /\ Subscribes(c, [call[c] EXCEPT !.left = req[c].body], Unsubscribed(gone))
    /\ UNCHANGED <<aGen, aStarted, histories, serverVars>> /\ Drain

ResumeAnswered(c) ==
    /\ Awaited(c, "discover", "resume")
    /\ IF call[c].gen # aGen
       THEN Lists(c, call[c]) /\ UNCHANGED sub
       ELSE Subscribes(c, call[c], sub)
    /\ UNCHANGED <<aGen, aStarted, Work, histories, serverVars>> /\ Drain

ResumeFailed(c) ==
    /\ Missed(c, "discover", "resume")
    /\ LET t == call[c].thread IN
       /\ ForgetWork({t})
       /\ IF call[c].gen # aGen
          THEN Returns(c) /\ sub' = Unsubscribed({t})
          ELSE \/ Subscribes(c, call[c], Unsubscribed({t}))
               \/ Returns(c) /\ sub' = Unsubscribed({t})   \* aborted
    /\ UNCHANGED <<aGen, aStarted, histories, serverVars>> /\ Drain

View(e) == [aid |-> e.aid, gen |-> e.gen, raw |-> e.raw, context |-> e.context]

Publishes(c) == ~control \/ call[c].gen = aGen

\* mapThread: the agents are published, with the approvals of the moment;
\* a client remembers one of them, or the one it knew.
ListAnswered(c) ==
    /\ Awaited(c, "discover", "list")
    /\ Returns(c)
    /\ \/ UNCHANGED shown
       \/ /\ Publishes(c)
          /\ \E e \in approvals : shown' = {View(e)}
    /\ UNCHANGED <<adapterVars, told, serverVars>> /\ Drain

-----------------------------------------------------------------------------
\* prompt and interrupt.

TurnCallBegins(c, op, t) ==
    Begin(c, [op |-> op, at |-> "start", thread |-> t, gen |-> Unbound, wrote |-> 0])

Asks(c, record, at, msg, expected) ==
    /\ Send(c, msg, expected)
    /\ call' = [call EXCEPT ![c] = [record EXCEPT !.at = at]]

\* A message that carries the prompt, which the history counts.
Delivers(c, record, at, msg) ==
    /\ Send(c, msg, record.gen)
    /\ call' = [call EXCEPT ![c] =
          [record EXCEPT !.at = at,
                         !.wrote = IF toServer' # toServer THEN @ + 1 ELSE @]]

StartsTurn(c, record) ==
    Delivers(c, record, "start turn",
             [kind |-> "start", call |-> c, thread |-> record.thread])

ActsOn(c, record, n) ==
    IF record.op = "prompt"
    THEN Delivers(c, record, "steer",
                  [kind |-> "steer", call |-> c, thread |-> record.thread, turn |-> n])
    ELSE Asks(c, record, "interrupt",
              [kind |-> "interrupt", call |-> c, thread |-> record.thread, turn |-> n],
              record.gen)

\* The active turn, remembered or looked for (#findActiveTurn).
Finds(c, record) ==
    IF turn[record.thread] # NoTurn
    THEN ActsOn(c, record, turn[record.thread])
    ELSE Asks(c, record, "find",
              [kind |-> "read", call |-> c, thread |-> record.thread], record.gen)

Controllable(t) == ~control \/ (aStarted /\ sub[t] = aGen)

\* assertControllable: only in control mode is the call bound to a
\* connection.
TurnCallEnters(c) ==
    /\ Entered(c) /\ call[c].op \in {"prompt", "interrupt"}
    /\ LET t == call[c].thread
           record == [call[c] EXCEPT !.gen = IF control THEN aGen ELSE Unbound] IN
       IF ~Controllable(t) THEN Returns(c)
       ELSE IF ~control /\ call[c].op = "prompt"
            THEN Asks(c, record, "presume",
                      [kind |-> "resume", call |-> c, thread |-> t], Unbound)
            ELSE Finds(c, record)
    /\ UNCHANGED <<adapterVars, histories, serverVars>> /\ Drain

OwnedResumed(c) ==
    /\ Awaited(c, "prompt", "presume")
    /\ Finds(c, call[c])
    /\ UNCHANGED <<adapterVars, histories, serverVars>> /\ Drain

TurnFound(c) ==
    /\ \E op \in {"prompt", "interrupt"} : Awaited(c, op, "find")
    /\ LET t == call[c].thread IN
       IF req[c].body # {}
       THEN \E n \in req[c].body : ActsOn(c, call[c], n) /\ turn' = [turn EXCEPT ![t] = n]
       ELSE /\ IF call[c].op = "prompt" THEN StartsTurn(c, call[c]) ELSE Returns(c)
            /\ UNCHANGED turn
    /\ UNCHANGED <<aGen, aStarted, sub, context, approvals, histories, serverVars>> /\ Drain

\* An owned server refused the steer: the turn was over, start another.
SteerFailed(c) ==
    /\ Missed(c, "prompt", "steer") /\ MayRetry
    /\ turn' = [turn EXCEPT ![call[c].thread] = NoTurn]
    /\ StartsTurn(c, call[c])
    /\ UNCHANGED <<aGen, aStarted, sub, context, approvals, histories, serverVars>> /\ Drain

Acted(c) ==
    /\ \/ Awaited(c, "prompt", "steer") \/ Awaited(c, "prompt", "start turn")
       \/ Awaited(c, "interrupt", "interrupt")
    /\ turn' = [turn EXCEPT ![call[c].thread] =
                  IF call[c].op = "prompt" THEN CHOOSE n \in req[c].body : TRUE ELSE NoTurn]
    /\ Returns(c)
    /\ UNCHANGED <<aGen, aStarted, sub, context, approvals, histories, serverVars>> /\ Drain

-----------------------------------------------------------------------------
\* approve and reject.

AnyApproval == [aid |-> <<>>]

DecisionBegins(c, t) ==
    \E s \in shown \cup {AnyApproval} :
        Begin(c, [op |-> "decide", at |-> "start", thread |-> t, as |-> s])

\* respond(): the wire carries the id of the server only.
Tell(e, as) ==
    /\ toServer' = Append(toServer, [kind |-> "decision", call |-> NoCall, raw |-> e.raw])
    /\ told' = Append(told, [gen |-> gen, raw |-> e.raw, as |-> as,
                             context |-> e.context])

Spends(e) ==
    /\ approvals' = approvals \ {e}
    /\ context' = [context EXCEPT ![e.turn] = NoContext]

Decidable(c) ==
    {e \in Of(call[c].thread) :
        /\ IF call[c].as = AnyApproval
           THEN Cardinality(Of(call[c].thread)) = 1 ELSE e.aid = call[c].as.aid
        /\ Controllable(e.thread) /\ e.gen = aGen /\ e.actionable /\ started}

DecisionEnters(c) ==
    /\ Entered(c) /\ call[c].op = "decide"
    /\ call' = [call EXCEPT ![c] = Idle]
    /\ req' = [req EXCEPT ![c] = NoRequest]
    /\ IF Decidable(c) # {}
       THEN \E e \in Decidable(c) :
               /\ Tell(e, IF call[c].as = AnyApproval THEN View(e) ELSE call[c].as)
               /\ Spends(e)
       ELSE UNCHANGED <<toServer, told, approvals, context>>
    /\ UNCHANGED <<gen, started, boot, toClient, aGen, aStarted, sub, turn,
                   shown, serverVars>> /\ Drain

\* The timer of an approval: an owned server gets "cancel", a shared one
\* has other clients to ask.
Expires(e) ==
    /\ Task
    /\ approvals' = approvals \ {e}
    /\ IF ~control /\ e.gen = aGen /\ started THEN Tell(e, View(e))
       ELSE UNCHANGED <<toServer, told>>
    /\ UNCHANGED <<gen, started, boot, req, toClient, draining, aGen, aStarted, sub,
                   turn, context, call, shown, serverVars>>

-----------------------------------------------------------------------------
\* onServerRequest and onNotification.

\* A message is for the adapter when it knows the connection and, in
\* control mode, subscribed to the thread on it.
Mine(t) == gen = aGen /\ (control => sub[t] = gen)

Entry(m) ==
    [aid |-> ApprovalId(m.raw), raw |-> m.raw, gen |-> gen, thread |-> m.thread,
     turn |-> m.turn, file |-> m.file,
     context |-> IF m.file THEN context[m.turn] ELSE NoContext,
     actionable |-> m.file => context[m.turn] # NoContext,
     invalidated |-> FALSE]

OnServerRequest(m) ==
    /\ m.kind = "ask"
    /\ approvals' = IF Mine(m.thread)
                    THEN {e \in approvals : e.aid # ApprovalId(m.raw)} \cup {Entry(m)}
                    ELSE approvals
    /\ UNCHANGED <<turn, context>>

\* Variant: an approval follows the file change it is about.
UpdatedAlways(e, x) ==
    [e EXCEPT !.context = x, !.actionable = x # NoContext]

\* A file change arrived for an approval that shows another, or none yet.
Updated(e, x) ==
    IF e.context # NoContext /\ e.context # x
    THEN [e EXCEPT !.context = NoContext, !.actionable = FALSE, !.invalidated = TRUE]
    ELSE IF e.context = NoContext /\ ~e.invalidated /\ x # NoContext
    THEN [e EXCEPT !.context = x, !.actionable = TRUE]
    ELSE e

OnItem(m) ==
    /\ m.kind = "item"
    /\ IF Mine(m.thread)
       THEN /\ context' = [context EXCEPT ![m.turn] = m.context]
            /\ approvals' = {IF e.file /\ e.gen = gen /\ e.turn = m.turn
                             THEN Updated(e, m.context) ELSE e : e \in approvals}
       ELSE UNCHANGED <<context, approvals>>
    /\ UNCHANGED turn

OnTurn(m) ==
    /\ \/ /\ m.kind = "started" /\ Mine(m.thread)
          /\ turn' = [turn EXCEPT ![m.thread] = m.turn]
          /\ UNCHANGED <<context, approvals>>
       \/ /\ m.kind = "ended" /\ Mine(m.thread)
          /\ ForgetWork({m.thread})
       \/ /\ m.kind \in {"started", "ended"} /\ ~Mine(m.thread)
          /\ UNCHANGED Work

OnResolved(m) ==
    /\ m.kind = "resolved"
    /\ approvals' = IF Mine(m.thread)
                    THEN {e \in approvals : ~(e.gen = gen /\ e.raw = m.raw)} ELSE approvals
    /\ UNCHANGED <<turn, context>>

Notified ==
    /\ Chunk /\ toClient' = Tail(toClient)
    /\ LET m == Head(toClient) IN
       OnServerRequest(m) \/ OnItem(m) \/ OnTurn(m) \/ OnResolved(m)
    /\ UNCHANGED <<gen, started, boot, req, toServer, draining, aGen, aStarted, sub,
                   call, shown, told, serverVars>>

-----------------------------------------------------------------------------
\* External: the App Server.

Post(msgs) == toClient' = toClient \o msgs
Answer(m, ok, body) ==
    IF m.call = NoCall THEN <<>>
    ELSE <<[kind |-> "answer", call |-> m.call, ok |-> ok, body |-> body]>>
ToThread(kind, t, n) == [kind |-> kind, thread |-> t, turn |-> n, call |-> NoCall]
Resolved(a) == [kind |-> "resolved", thread |-> a.thread, raw |-> a.raw, call |-> NoCall]
Subscribed(t, msgs) == IF t \in resumed THEN msgs ELSE <<>>

StartTurn(t, n) ==
    /\ owner[n] = NoThread /\ \A k \in 1..(n - 1) : owner[k] # NoThread
    /\ owner' = [owner EXCEPT ![n] = t]
    /\ running' = [running EXCEPT ![t] = n]

EndTurn(t) ==
    /\ running' = [running EXCEPT ![t] = NoTurn]
    /\ open' = {a \in open : a.thread # t}

Listed(m) ==
    /\ \/ m.kind = "initialize" /\ Post(<<[kind |-> "welcome", call |-> NoCall]>>)
       \/ m.kind = "loaded" /\ Post(Answer(m, TRUE, loaded))
       \/ m.kind = "list" /\ Post(Answer(m, TRUE, {}))
       \/ m.kind = "read" /\ Post(Answer(m, TRUE, {running[m.thread]} \ {NoTurn}))
    /\ UNCHANGED serverVars

Resumes(m) ==
    /\ m.kind = "resume"
    /\ \/ /\ resumed' = resumed \cup {m.thread} /\ loaded' = loaded \cup {m.thread}
          /\ Post(Answer(m, TRUE, {}))
       \/ Post(Answer(m, FALSE, {})) /\ UNCHANGED <<resumed, loaded>>
    /\ UNCHANGED <<running, owner, asked, open>>

Turned(m) ==
    /\ \/ /\ m.kind = "start" /\ running[m.thread] = NoTurn /\ m.thread \in loaded
          /\ \E n \in Turns : /\ StartTurn(m.thread, n)
                              /\ Post(Answer(m, TRUE, {n})
                                       \o Subscribed(m.thread, <<ToThread("started", m.thread, n)>>))
          /\ UNCHANGED open
       \/ /\ m.kind \in {"start", "steer"} /\ Post(Answer(m, FALSE, {}))
          /\ UNCHANGED <<running, owner, open>>
       \/ /\ m.kind = "steer" /\ running[m.thread] = m.turn
          /\ Post(Answer(m, TRUE, {m.turn}))
          /\ UNCHANGED <<running, owner, open>>
       \/ /\ m.kind = "interrupt" /\ running[m.thread] = m.turn
          /\ EndTurn(m.thread)
          /\ Post(Answer(m, TRUE, {})
                  \o Subscribed(m.thread, <<ToThread("ended", m.thread, m.turn)>>))
          /\ UNCHANGED owner
       \/ /\ m.kind = "interrupt" /\ running[m.thread] # m.turn
          /\ Post(Answer(m, FALSE, {}))
          /\ UNCHANGED <<running, owner, open>>
    /\ UNCHANGED <<loaded, resumed, asked>>

Decided(m) ==
    /\ m.kind = "decision"
    /\ LET hit == {a \in open : a.raw = m.raw} IN
       /\ open' = open \ hit
       /\ IF hit = {} THEN UNCHANGED toClient
          ELSE \E a \in hit : Post(<<Resolved(a)>>)
    /\ UNCHANGED <<loaded, running, owner, resumed, asked>>

ServerHandles ==
    /\ Task /\ toServer # <<>> /\ toServer' = Tail(toServer)
    /\ LET m == Head(toServer) IN Listed(m) \/ Resumes(m) \/ Turned(m) \/ Decided(m)
    /\ UNCHANGED <<gen, started, boot, req, draining, adapterVars, call, histories>>

Quietly == Task /\ started /\ Len(toClient) < MaxWire
           /\ UNCHANGED <<gen, started, boot, req, toServer, draining, adapterVars,
                          call, histories>>

TurnEnds(t) ==
    /\ Quietly /\ running[t] # NoTurn
    /\ EndTurn(t)
    /\ Post(Subscribed(t, <<ToThread("ended", t, running[t])>>))
    /\ UNCHANGED <<loaded, owner, resumed, asked>>

OtherClientStarts(t) ==
    /\ Quietly /\ control /\ t \in loaded /\ running[t] = NoTurn
    /\ \E n \in Turns : /\ StartTurn(t, n)
                        /\ Post(Subscribed(t, <<ToThread("started", t, n)>>))
    /\ UNCHANGED <<loaded, resumed, asked, open>>

\* The file change of the running turn is announced, or changed.
Edits(t) ==
    /\ Quietly /\ t \in resumed /\ running[t] # NoTurn
    /\ \E x \in Contexts \cup {NoContext} :
          Post(<<[kind |-> "item", thread |-> t, turn |-> running[t], context |-> x,
                  call |-> NoCall]>>)
    /\ UNCHANGED serverVars

\* The ids start again on each connection.
AskApproval(t, file) ==
    LET raw == Cardinality(asked) + 1
        a == [gen |-> gen, raw |-> raw, thread |-> t, turn |-> running[t], file |-> file] IN
    /\ Quietly /\ t \in resumed /\ running[t] # NoTurn /\ raw <= MaxAsks
    /\ asked' = asked \cup {a} /\ open' = open \cup {a}
    /\ Post(<<[kind |-> "ask", thread |-> t, turn |-> running[t], raw |-> raw,
               file |-> file, call |-> NoCall]>>)
    /\ UNCHANGED <<loaded, running, owner, resumed>>

OtherClientResolves(a) ==
    /\ Quietly /\ control
    /\ open' = open \ {a}
    /\ Post(<<Resolved(a)>>)
    /\ UNCHANGED <<loaded, running, owner, resumed, asked>>

Unloads(t) ==
    /\ Quietly /\ t \in loaded /\ running[t] = NoTurn
    /\ loaded' = loaded \ {t}
    /\ UNCHANGED <<toClient, running, owner, resumed, asked, open>>

AppServer ==
    \/ ServerHandles
    \/ \E t \in Threads :
          \/ TurnEnds(t) \/ OtherClientStarts(t) \/ Edits(t) \/ Unloads(t)
          \/ \E file \in AskKinds : AskApproval(t, file)
    \/ \E a \in open : OtherClientResolves(a)

-----------------------------------------------------------------------------

Connection ==
    \/ (Spawned \/ WireOpens \/ StartFails \/ TakeAnswer \/ \E c \in Calls : TimesOut(c) \/ WriteQueued(c))
       /\ UNCHANGED <<adapterVars, call, histories, serverVars>>
    \/ OnConnected \/ Lost \/ Notified

Step(c) ==
    \/ DiscoverEnters(c) \/ LoadedAnswered(c) \/ ResumeAnswered(c) \/ ResumeFailed(c)
    \/ ListAnswered(c) \/ TurnCallEnters(c) \/ OwnedResumed(c) \/ TurnFound(c)
    \/ SteerFailed(c) \/ Acted(c) \/ DecisionEnters(c) \/ Throws(c)

Outside ==
    \/ DiscoverBegins
    \/ \E c \in Calls \ {Discovery}, t \in Threads :
          \/ TurnCallBegins(c, "prompt", t)
          \/ TurnCallBegins(c, "interrupt", t)
          \/ DecisionBegins(c, t)
    \/ \E e \in approvals : Expires(e)

CodexNext == Connection \/ (\E c \in Calls : Step(c)) \/ Outside \/ AppServer

CodexSpec == CodexInit /\ [][CodexNext /\ UNCHANGED control]_codexVars

-----------------------------------------------------------------------------
\* Properties.

\* #resolveApproval and the timer: each decision written answers a request
\* that the server made on that same connection, and no request is
\* answered twice, whatever the ids of earlier connections were.  Under
\* shared control, where the id of an approval names its connection, a
\* client that decides on what an agent record showed decides on that very
\* request and on the file change it saw, although the server may have
\* announced another since.
Answers(d, a) == a.gen = d.gen /\ a.raw = d.raw

DecidesWhatWasShown ==
    \A i \in DOMAIN told :
        /\ \E a \in asked : Answers(told[i], a)
        /\ \A j \in DOMAIN told : Answers(told[i], told[j]) => i = j
        /\ control => Answers(told[i], told[i].as)
        /\ control /\ told[i].as.context # NoContext
              => told[i].as.context = told[i].context

\* Shared control: a prompt is written at most once, and on the connection
\* on which the thread was found controllable, although the call awaits
\* other answers first, may be refused, time out or lose the connection.
PromptOnce ==
    \A c \in Calls : call[c].op = "prompt" /\ control =>
        /\ call[c].wrote <= 1
        /\ \A i \in DOMAIN toServer :
              toServer[i].call = c /\ toServer[i].kind \in {"steer", "start"}
                  => call[c].gen = gen

\* Shared control: a thread counts as subscribed on the live connection
\* only if a resume of it was accepted there or is still under way.
SubscriptionIsLive ==
    \A t \in Threads :
        control /\ boot = "up" /\ sub[t] = gen =>
            \/ t \in resumed
            \/ \E c \in Calls : call[c].op = "discover" /\ call[c].at = "resume"
                                /\ call[c].thread = t
=============================================================================
