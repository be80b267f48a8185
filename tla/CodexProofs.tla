------------------------------- MODULE CodexProofs -------------------------------
(***************************************************************************)
(* The Codex adapter never decides, prompts or counts as subscribed on a   *)
(* connection what it learnt on another, for any calls, threads, turns,    *)
(* approvals and connections.                                              *)
(*                                                                         *)
(* What makes it so is said of one connection: nothing is under way, asked *)
(* or remembered when there is none (Connected); every request under way   *)
(* is that of the call that awaits it, alone (InFlight); and what a client *)
(* may have been shown of an approval is what it still shows, unless it is *)
(* invalidated (Seen).                                                     *)
(***************************************************************************)
EXTENDS CodexAdapter, QueuesProofs

Boots == {"down", "spawning", "wiring", "hello", "greeted", "up", "closing"}

\* The connection: the adapter knows it or an earlier one, and nothing is under
\* way or remembered of an approval when there is none.
Connected ==
  /\ control \in BOOLEAN /\ gen \in Nat /\ aGen \in Nat /\ aGen <= gen
  /\ boot \in Boots /\ started \in BOOLEAN
  /\ started <=> boot \in {"hello", "greeted", "up"}
  /\ started => gen > 0
  /\ boot = "wiring" => aGen < gen
  /\ aStarted \in BOOLEAN
  /\ aStarted => started /\ aGen = gen
  /\ ~started => /\ toServer = <<>> /\ toClient = <<>>
                 /\ approvals = {} /\ asked = {} /\ told = <<>>

-----------------------------------------------------------------------------
\* Requests: k is what a call remembers, r the request it awaits.

Discovers(k) ==
  /\ k.op = "discover"
  /\ k.at \in {"start", "loaded", "resume", "list"}
  /\ k.at # "start" => /\ DOMAIN k = {"op", "at", "gen", "thread", "left"}
                       /\ k.gen \in Nat /\ k.gen <= aGen
Resuming(k) == k.op = "discover" /\ k.at = "resume"

\* In shared control a call that has looked at the connection is bound to it,
\* and has written its prompt at most once.
Turning(k) ==
  /\ k.op \in {"prompt", "interrupt"}
  /\ DOMAIN k = {"op", "at", "thread", "gen", "wrote"}
  /\ k.gen \in Nat /\ k.wrote \in Nat
  /\ control => /\ k.at # "start" => k.gen # Unbound
                /\ k.at \in {"start", "presume", "find"} => k.wrote = 0
                /\ k.wrote <= 1

Remembers(c, k) ==
  k = Idle \/ (c = Discovery /\ Discovers(k)) \/ Turning(k) \/ k.op = "decide"

\* A resume is that of the thread the discovery is at, and a prompt is written
\* only on the connection the call is bound to.
Delivery == {"steer", "start"}
Fits(k, m) ==
  /\ Resuming(k) => m.kind = "resume" /\ m.thread = k.thread
  /\ control /\ k.op = "prompt" /\ m.kind \in Delivery => k.gen = gen

Message(m) == {"call", "kind"} \subseteq DOMAIN m /\ m.call \in Calls \cup {NoCall}

\* What waits for a connection is no prompt of a shared server.
Waits(c, k, r) ==
  /\ "at" \in DOMAIN r
  /\ "msg" \in DOMAIN r => /\ Message(r.msg) /\ r.msg.call = c /\ Fits(k, r.msg)
                           /\ control => r.msg.kind \notin Delivery

Awaits == {"none", "queued", "connected", "sent", "answered", "failed"}

Calling(c, k, r) ==
  /\ Remembers(c, k)
  /\ r.at \in Awaits
  /\ k = Idle => r = NoRequest
  /\ r.at \in {"queued", "connected"} => Waits(c, k, r)
  /\ r.at = "sent" => started
  /\ r.at = "answered" /\ Resuming(k) /\ started => k.thread \in resumed

\* At most one message of a call is under way, in one place: s is toServer, q
\* toClient, and res the threads resumed.
OneFor(q, c) == \A m, n \in DOMAIN q : q[m].call = c /\ q[n].call = c => m = n
InFlight(c, s, q, k, r, res) ==
  /\ OneFor(s, c) /\ OneFor(q, c)
  /\ \A m \in Elems(s) : m.call = c =>
       r.at = "sent" /\ Fits(k, m) /\ \A x \in Elems(q) : x.call # c
  /\ \A x \in Elems(q) : x.call = c =>
       r.at = "sent" /\ (x.ok /\ Resuming(k) => k.thread \in res)
Wires(s, q, K, R, res) ==
  /\ IsQueue(s) /\ IsQueue(q)
  /\ \A m \in Elems(s) : Message(m)
  /\ \A x \in Elems(q) : x.kind = "answer" <=> x.call \in Calls
  /\ \A c \in Calls : InFlight(c, s, q, K[c], R[c], res)

\* The discovery subscribes a thread before it asks for it.
Subscribing(t) ==
  /\ sub[t] \in Nat /\ sub[t] <= aGen
  /\ started /\ sub[t] = gen =>
       \/ t \in resumed
       \/ Resuming(call[Discovery]) /\ call[Discovery].thread = t

Requesting ==
  /\ req = [c \in Calls |-> req[c]] /\ call = [c \in Calls |-> call[c]]
  /\ sub = [t \in Threads |-> sub[t]]
  /\ Wires(toServer, toClient, call, req, resumed)
  /\ \A c \in Calls : Calling(c, call[c], req[c])
  /\ \A t \in Threads : Subscribing(t)

-----------------------------------------------------------------------------
\* Approvals.

Raws == {a.raw : a \in asked}
Numbered ==
  /\ IsFiniteSet(asked)
  /\ \A a \in asked : a.gen = gen /\ a.raw \in 1..Cardinality(asked)

\* An approval the adapter remembers is one of this connection, and what is
\* invalidated can no longer be decided.
Pending(e) ==
  /\ e = [aid |-> ApprovalId(e.raw), raw |-> e.raw, gen |-> gen, thread |-> e.thread,
          turn |-> e.turn, file |-> e.file, context |-> e.context,
          actionable |-> e.actionable, invalidated |-> e.invalidated]
  /\ aGen = gen /\ e.raw \in Raws /\ e.thread \in Threads
  /\ e.invalidated => ~e.actionable /\ e.context = NoContext

\* The approvals on their way, each once.
OnItsWay(q, r) == \E x \in Elems(q) : x.kind = "ask" /\ x.raw = r
AskOnce(q) ==
  \A m, n \in DOMAIN q : q[m].kind = "ask" /\ q[n].kind = "ask" /\ q[m].raw = q[n].raw => m = n

\* What a client may have been shown.
Seen(s) ==
  /\ s.gen \in Nat /\ s.gen <= aGen
  /\ control => s.aid = <<s.gen, s.raw>>
  /\ started /\ s.gen = gen =>
       /\ s.raw \in Raws /\ ~OnItsWay(toClient, s.raw)
       /\ \A e \in approvals : e.raw = s.raw /\ s.context # NoContext =>
            e.context = s.context \/ e.invalidated

\* A decision that was written.
Told(d) ==
  /\ d.gen = gen /\ d.raw \in Raws /\ ~OnItsWay(toClient, d.raw)
  /\ \A e \in approvals : e.raw # d.raw
  /\ control => /\ d.as.gen = d.gen /\ d.as.raw = d.raw
                /\ d.as.context # NoContext => d.as.context = d.context
ToldOnce(q) == \A m, n \in DOMAIN q : q[m].raw = q[n].raw => m = n

Approving ==
  /\ Numbered
  /\ \A e \in approvals : Pending(e) /\ ~OnItsWay(toClient, e.raw)
  /\ \A e, f \in approvals : e.raw = f.raw => e = f
  /\ \A x \in Elems(toClient) : x.kind = "ask" => x.raw \in Raws /\ x.thread \in Threads
  /\ AskOnce(toClient)
  /\ IsQueue(told) /\ ToldOnce(told)
  /\ \A d \in Elems(told) : Told(d)
  /\ \A s \in shown : Seen(s)
  /\ \A c \in Calls : call[c].op = "decide" => call[c].as = AnyApproval \/ Seen(call[c].as)

CodexInv == Connected /\ Requesting /\ Approving

-----------------------------------------------------------------------------
\* Messages on the wires.

\* What leaves a wire leaves the others as they were.
LEMMA OneForKept ==
  ASSUME NEW q, NEW r, IsQueue(q), IsQueue(r), InOrder(r, q), NEW c, OneFor(q, c)
  PROVE  OneFor(r, c)
<1>1. /\ DOMAIN q = 1..Len(q) /\ Len(q) \in Nat
      /\ DOMAIN r = 1..Len(r) /\ Len(r) \in Nat
  BY LenProperties DEF IsQueue
<1>2. ASSUME NEW m \in DOMAIN r, NEW n \in DOMAIN r, r[m].call = c, r[n].call = c
      PROVE  ~(m < n)
  <2> SUFFICES ASSUME m < n
               PROVE  FALSE
    OBVIOUS
  <2>1. PICK k, l \in DOMAIN q : k < l /\ q[k] = r[m] /\ q[l] = r[n]
    BY DEF InOrder
  <2> QED
    BY <1>1, <1>2, <2>1 DEF OneFor
<1> QED
  BY <1>1, <1>2 DEF OneFor

\* The first or the only message of a call joins a wire.
LEMMA OneForJoined ==
  ASSUME NEW q, IsQueue(q), NEW x, NEW c, OneFor(q, c),
         x.call = c => \A y \in Elems(q) : y.call # c
  PROVE  OneFor(Append(q, x), c)
<1> DEFINE a == Append(q, x)
<1>1. /\ Len(q) \in Nat /\ DOMAIN q = 1..Len(q) /\ DOMAIN a = 1..(Len(q) + 1)
      /\ a[Len(q) + 1] = x /\ \A n \in DOMAIN q : a[n] = q[n]
  BY Joined
<1>2. \A n \in DOMAIN a : n = Len(q) + 1 \/ n \in DOMAIN q
  BY <1>1
<1>3. \A n \in DOMAIN q : x.call = c => q[n].call # c
  BY DEF Elems
<1> HIDE DEF a
<1> QED
  BY <1>1, <1>2, <1>3 DEF OneFor, a

\* No approval is on its way on r that is not on q, and none more often.
Fewer(r, q) ==
  /\ \A x \in Elems(r) : x.kind = "ask" => x \in Elems(q)
  /\ AskOnce(q) => AskOnce(r)

\* What leaves a wire leaves no more approvals.
LEMMA FewerKept ==
  ASSUME NEW q, NEW r, IsQueue(q), IsQueue(r), InOrder(r, q), Elems(r) \subseteq Elems(q)
  PROVE  Fewer(r, q)
<1>1. /\ DOMAIN q = 1..Len(q) /\ Len(q) \in Nat
      /\ DOMAIN r = 1..Len(r) /\ Len(r) \in Nat
  BY LenProperties DEF IsQueue
<1>2. ASSUME AskOnce(q), NEW m \in DOMAIN r, NEW n \in DOMAIN r,
             r[m].kind = "ask", r[n].kind = "ask", r[m].raw = r[n].raw
      PROVE  ~(m < n)
  <2> SUFFICES ASSUME m < n
               PROVE  FALSE
    OBVIOUS
  <2>1. PICK k, l \in DOMAIN q : k < l /\ q[k] = r[m] /\ q[l] = r[n]
    BY DEF InOrder
  <2> QED
    BY <1>1, <1>2, <2>1 DEF AskOnce
<1>3. AskOnce(q) => AskOnce(r)
  BY <1>1, <1>2 DEF AskOnce
<1> QED
  BY <1>3 DEF Fewer

\* A message that asks for nothing adds no approval; one that asks for another
\* than all others adds it once.
LEMMA FewerJoined ==
  ASSUME NEW q, IsQueue(q), NEW x
  PROVE  /\ x.kind # "ask" => Fewer(Append(q, x), q)
         /\ AskOnce(q) /\ (\A y \in Elems(q) : y.kind = "ask" => y.raw # x.raw)
              => AskOnce(Append(q, x))
<1> DEFINE a == Append(q, x)
<1>1. /\ Len(q) \in Nat /\ DOMAIN q = 1..Len(q) /\ DOMAIN a = 1..(Len(q) + 1)
      /\ a[Len(q) + 1] = x /\ \A n \in DOMAIN q : a[n] = q[n]
      /\ Elems(a) = Elems(q) \cup {x}
  BY Joined
<1>2. \A n \in DOMAIN a : n = Len(q) + 1 \/ n \in DOMAIN q
  BY <1>1
<1>3. \A n \in DOMAIN q : q[n] \in Elems(q)
  BY DEF Elems
<1> HIDE DEF a
<1>4. AskOnce(q) /\ x.kind # "ask" => AskOnce(a)
  BY <1>1, <1>2 DEF AskOnce
<1>5. AskOnce(q) /\ (\A y \in Elems(q) : y.kind = "ask" => y.raw # x.raw) => AskOnce(a)
  BY <1>1, <1>2, <1>3 DEF AskOnce
<1>6. x.kind # "ask" => Fewer(a, q)
  BY <1>1, <1>4 DEF Fewer
<1> QED
  BY <1>5, <1>6 DEF a

\* Twice fewer is fewer.
LEMMA FewerAgain ==
  ASSUME NEW p, NEW q, NEW r, Fewer(p, q), Fewer(q, r)
  PROVE  Fewer(p, r)
  BY DEF Fewer

\* Nothing of call c is under way.
Silent(c, s, q) == (\A m \in Elems(s) : m.call # c) /\ \A x \in Elems(q) : x.call # c

\* Only a call that awaits an answer has a message under way.
LEMMA SilentUnlessSent ==
  ASSUME NEW s, NEW q, NEW K, NEW R, NEW res, Wires(s, q, K, R, res),
         NEW c \in Calls, R[c].at # "sent"
  PROVE  Silent(c, s, q)
  BY DEF Wires, InFlight, Silent

\* A call that has nothing under way goes on.
LEMMA WiresGoOn ==
  ASSUME NEW s, NEW q, NEW K, NEW R, NEW res, Wires(s, q, K, R, res),
         NEW c \in Calls, Silent(c, s, q), NEW K2, NEW R2,
         \A d \in Calls \ {c} : K2[d] = K[d] /\ R2[d] = R[d]
  PROVE  Wires(s, q, K2, R2, res)
<1>1. InFlight(c, s, q, K2[c], R2[c], res)
  <2>1. OneFor(s, c) /\ OneFor(q, c)
    BY DEF Wires, InFlight
  <2> QED
    BY <2>1 DEF Silent, InFlight
<1>2. ASSUME NEW d \in Calls, d # c
      PROVE  InFlight(d, s, q, K2[d], R2[d], res)
  BY <1>2 DEF Wires
<1> QED
  BY <1>1, <1>2 DEF Wires

\* So do several.
LEMMA WiresOthers ==
  ASSUME NEW s, NEW q, NEW K, NEW R, NEW res, Wires(s, q, K, R, res), NEW K2, NEW R2,
         \A d \in Calls : (K2[d] = K[d] /\ R2[d] = R[d]) \/ Silent(d, s, q)
  PROVE  Wires(s, q, K2, R2, res)
<1>1. ASSUME NEW d \in Calls
      PROVE  InFlight(d, s, q, K2[d], R2[d], res)
  BY DEF Wires, InFlight, Silent
<1> QED
  BY <1>1 DEF Wires

\* It writes a request.
LEMMA WiresSend ==
  ASSUME NEW s, NEW q, NEW K, NEW R, NEW res, Wires(s, q, K, R, res),
         NEW c \in Calls, Silent(c, s, q), NEW m, Message(m), m.call = c,
         R[c].at = "sent", Fits(K[c], m)
  PROVE  Wires(Append(s, m), q, K, R, res)
<1>1. IsQueue(s)
  BY DEF Wires
<1> DEFINE a == Append(s, m)
<1>2. IsQueue(a) /\ Elems(a) = Elems(s) \cup {m}
  BY <1>1, Joined
<1>3. ASSUME NEW d \in Calls
      PROVE  OneFor(a, d)
  <2>1. OneFor(s, d) /\ (m.call = d => \A y \in Elems(s) : y.call # d)
    BY DEF Wires, InFlight, Silent
  <2> QED
    BY <1>1, <2>1, OneForJoined
<1> HIDE DEF a
<1>4. ASSUME NEW d \in Calls
      PROVE  InFlight(d, a, q, K[d], R[d], res)
  <2>1. InFlight(d, s, q, K[d], R[d], res)
    BY DEF Wires
  <2> QED
    BY <1>2, <1>3, <2>1 DEF InFlight, Silent
<1> QED
  BY <1>2, <1>4 DEF Wires, a

\* A message that answers no call joins those on their way to the client.
LEMMA WiresPost ==
  ASSUME NEW s, NEW q, NEW K, NEW R, NEW res, Wires(s, q, K, R, res),
         NEW x, x.call \notin Calls, x.kind # "answer"
  PROVE  Wires(s, Append(q, x), K, R, res)
<1>1. IsQueue(q)
  BY DEF Wires
<1> DEFINE a == Append(q, x)
<1>2. IsQueue(a) /\ Elems(a) = Elems(q) \cup {x}
  BY <1>1, Joined
<1>3. ASSUME NEW d \in Calls
      PROVE  OneFor(a, d)
  <2>1. OneFor(q, d) /\ x.call # d
    BY DEF Wires, InFlight
  <2> QED
    BY <1>1, <2>1, OneForJoined
<1> HIDE DEF a
<1>4. ASSUME NEW d \in Calls
      PROVE  InFlight(d, s, a, K[d], R[d], res)
  <2>1. InFlight(d, s, q, K[d], R[d], res)
    BY DEF Wires
  <2> QED
    BY <1>2, <1>3, <2>1 DEF InFlight
<1> QED
  BY <1>2, <1>4 DEF Wires, a

\* So does the answer to a call.
LEMMA WiresAnswer ==
  ASSUME NEW s, NEW q, NEW K, NEW R, NEW res, Wires(s, q, K, R, res),
         NEW c \in Calls, Silent(c, s, q), R[c].at = "sent",
         NEW x, x.call = c, x.kind = "answer", x.ok /\ Resuming(K[c]) => K[c].thread \in res
  PROVE  Wires(s, Append(q, x), K, R, res)
<1>1. IsQueue(q)
  BY DEF Wires
<1> DEFINE a == Append(q, x)
<1>2. IsQueue(a) /\ Elems(a) = Elems(q) \cup {x}
  BY <1>1, Joined
<1>3. ASSUME NEW d \in Calls
      PROVE  OneFor(a, d)
  <2>1. OneFor(q, d) /\ (x.call = d => \A y \in Elems(q) : y.call # d)
    BY DEF Wires, InFlight, Silent
  <2> QED
    BY <1>1, <2>1, OneForJoined
<1> HIDE DEF a
<1>4. ASSUME NEW d \in Calls
      PROVE  InFlight(d, s, a, K[d], R[d], res)
  <2>1. InFlight(d, s, q, K[d], R[d], res)
    BY DEF Wires
  <2> QED
    BY <1>2, <1>3, <2>1 DEF InFlight, Silent
<1> QED
  BY <1>2, <1>4 DEF Wires, a

\* The server takes a message, and may have resumed more threads.
LEMMA WiresTaken ==
  ASSUME NEW s, NEW q, NEW K, NEW R, NEW res, Wires(s, q, K, R, res), s # <<>>,
         NEW more, res \subseteq more
  PROVE  /\ Wires(Tail(s), q, K, R, more)
         /\ Message(Head(s))
         /\ \A c \in Calls : Head(s).call = c =>
              Silent(c, Tail(s), q) /\ R[c].at = "sent" /\ Fits(K[c], Head(s))
<1> DEFINE a == Tail(s)  h == Head(s)
<1>0. IsQueue(s)
  BY DEF Wires
<1>1. /\ IsQueue(a) /\ InOrder(a, s) /\ h \in Elems(s) /\ Elems(a) \subseteq Elems(s)
      /\ 1 \in DOMAIN s /\ s[1] = h
      /\ \A x \in Elems(a) : \E n \in DOMAIN s : n # 1 /\ s[n] = x
  BY <1>0, Taken
<1>2. ASSUME NEW c \in Calls
      PROVE  OneFor(a, c)
  <2>1. OneFor(s, c)
    BY DEF Wires, InFlight
  <2> QED
    BY <1>0, <1>1, <2>1, OneForKept
<1> HIDE DEF a, h
<1>3. ASSUME NEW c \in Calls
      PROVE  /\ InFlight(c, a, q, K[c], R[c], more)
             /\ h.call = c => Silent(c, a, q) /\ R[c].at = "sent" /\ Fits(K[c], h)
  <2>1. InFlight(c, s, q, K[c], R[c], res)
    BY DEF Wires
  <2>2. InFlight(c, a, q, K[c], R[c], more)
    BY <1>1, <1>2, <2>1 DEF InFlight
  <2>3. ASSUME h.call = c
        PROVE  Silent(c, a, q) /\ R[c].at = "sent" /\ Fits(K[c], h)
    <3>1. \A x \in Elems(a) : x.call # c
      BY <1>1, <2>1, <2>3 DEF InFlight, OneFor
    <3> QED
      BY <1>1, <2>1, <2>3, <3>1 DEF InFlight, Silent
  <2> QED
    BY <2>2, <2>3
<1>4. Wires(a, q, K, R, more) /\ Message(h)
  BY <1>1, <1>3 DEF Wires
<1> QED
  BY <1>3, <1>4 DEF a, h

\* The client takes a message.
LEMMA WiresDelivered ==
  ASSUME NEW s, NEW q, NEW K, NEW R, NEW res, Wires(s, q, K, R, res), q # <<>>
  PROVE  /\ Wires(s, Tail(q), K, R, res)
         /\ Head(q).kind = "answer" <=> Head(q).call \in Calls
         /\ \A c \in Calls : Head(q).call = c =>
              /\ Silent(c, s, Tail(q)) /\ R[c].at = "sent"
              /\ Head(q).ok /\ Resuming(K[c]) => K[c].thread \in res
<1> DEFINE a == Tail(q)  h == Head(q)
<1>0. IsQueue(q)
  BY DEF Wires
<1>1. /\ IsQueue(a) /\ InOrder(a, q) /\ h \in Elems(q) /\ Elems(a) \subseteq Elems(q)
      /\ 1 \in DOMAIN q /\ q[1] = h
      /\ \A x \in Elems(a) : \E n \in DOMAIN q : n # 1 /\ q[n] = x
  BY <1>0, Taken
<1>2. ASSUME NEW c \in Calls
      PROVE  OneFor(a, c)
  <2>1. OneFor(q, c)
    BY DEF Wires, InFlight
  <2> QED
    BY <1>0, <1>1, <2>1, OneForKept
<1> HIDE DEF a, h
<1>3. ASSUME NEW c \in Calls
      PROVE  /\ InFlight(c, s, a, K[c], R[c], res)
             /\ h.call = c => /\ Silent(c, s, a) /\ R[c].at = "sent"
                              /\ h.ok /\ Resuming(K[c]) => K[c].thread \in res
  <2>1. InFlight(c, s, q, K[c], R[c], res)
    BY DEF Wires
  <2>2. InFlight(c, s, a, K[c], R[c], res)
    BY <1>1, <1>2, <2>1 DEF InFlight
  <2>3. ASSUME h.call = c
        PROVE  /\ Silent(c, s, a) /\ R[c].at = "sent"
               /\ h.ok /\ Resuming(K[c]) => K[c].thread \in res
    <3>1. \A x \in Elems(a) : x.call # c
      BY <1>1, <2>1, <2>3 DEF InFlight, OneFor
    <3>2. \A m \in Elems(s) : m.call # c
      BY <1>1, <2>1, <2>3 DEF InFlight
    <3> QED
      BY <1>1, <2>1, <2>3, <3>1, <3>2 DEF InFlight, Silent
  <2> QED
    BY <2>2, <2>3
<1>4. Wires(s, a, K, R, res) /\ (h.kind = "answer" <=> h.call \in Calls)
  BY <1>1, <1>3 DEF Wires
<1> QED
  BY <1>3, <1>4 DEF a, h

\* The messages of call c, for nobody.
Nobodys(q, c) == [n \in DOMAIN q |-> IF q[n].call = c THEN [q[n] EXCEPT !.call = NoCall] ELSE q[n]]

\* Each keeps its place, and only those of c are changed.
LEMMA NobodysMessages ==
  ASSUME NEW q, IsQueue(q), NEW c \in Calls, \A m \in Elems(q) : Message(m)
  PROVE  LET l == Nobodys(q, c)
         IN  /\ IsQueue(l) /\ DOMAIN l = DOMAIN q
             /\ \A m \in Elems(l) : Message(m) /\ m.call # c
             /\ \A n \in DOMAIN q : q[n].call \notin {c, NoCall} => l[n] = q[n]
             /\ \A n \in DOMAIN q : q[n].call \in {c, NoCall} => l[n].call = NoCall
<1> DEFINE l == Nobodys(q, c)
<1>1. /\ DOMAIN q = 1..Len(q) /\ Len(q) \in Nat
  BY LenProperties DEF IsQueue
<1>2. NoCall # c
  BY NoCallAssumption
<1>3. DOMAIN l = DOMAIN q
  BY DEF Nobodys
<1>4. ASSUME NEW n \in DOMAIN q
      PROVE  /\ Message(l[n]) /\ l[n].call # c
             /\ q[n].call \notin {c, NoCall} => l[n] = q[n]
             /\ q[n].call \in {c, NoCall} => l[n].call = NoCall
  <2>1. Message(q[n])
    BY DEF Elems
  <2>2. CASE q[n].call = c
    <3>1. l[n] = [q[n] EXCEPT !.call = NoCall]
      BY <2>2 DEF Nobodys
    <3> QED
      BY <1>2, <2>1, <2>2, <3>1 DEF Message
  <2>3. CASE q[n].call # c
    <3>1. l[n] = q[n]
      BY <2>3 DEF Nobodys
    <3> QED
      BY <2>1, <2>3, <3>1
  <2> QED
    BY <2>2, <2>3
<1>5. IsQueue(l)
  <2> DEFINE T == {l[n] : n \in 1..Len(q)}
  <2>1. l \in [1..Len(q) -> T]
    BY <1>1 DEF Nobodys
  <2>2. l \in Seq(T)
    <3> HIDE DEF T, l
    <3> QED
      BY <1>1, <2>1
  <2> HIDE DEF T, l
  <2> QED
    BY <2>2, AnyQueue
<1> HIDE DEF l
<1>6. \A m \in Elems(l) : Message(m) /\ m.call # c
  BY <1>3, <1>4 DEF Elems
<1> QED
  BY <1>3, <1>4, <1>5, <1>6 DEF l

\* TimesOut: what the server will do with a request nobody waits for any more
\* stays under way, for nobody; an answer to it does not.
LEMMA WiresDropped ==
  ASSUME NEW s, NEW q, NEW K, NEW R, NEW res, Wires(s, q, K, R, res), NEW c \in Calls
  PROVE  /\ Wires(Unawaited(s, c), Unanswered(q, c), K, R, res)
         /\ Silent(c, Unawaited(s, c), Unanswered(q, c))
         /\ Fewer(Unanswered(q, c), q)
<1> DEFINE l == Nobodys(s, c)  a == Unawaited(s, c)  b == Unanswered(q, c)
           X == {m \in Elems(l) : m.call = NoCall /\ m.kind \notin Effective}
<1>0. IsQueue(s) /\ IsQueue(q) /\ \A m \in Elems(s) : Message(m)
  BY DEF Wires
<1>1. /\ IsQueue(l) /\ DOMAIN l = DOMAIN s
      /\ \A m \in Elems(l) : Message(m) /\ m.call # c
      /\ \A n \in DOMAIN s : s[n].call \notin {c, NoCall} => l[n] = s[n]
      /\ \A n \in DOMAIN s : s[n].call \in {c, NoCall} => l[n].call = NoCall
  <2> HIDE DEF l
  <2> QED
    BY <1>0, NobodysMessages DEF l
<1>2. a = Without(l, X)
  BY DEF Unawaited, Nobodys
<1> HIDE DEF l, a, X
<1>3. IsQueue(a) /\ InOrder(a, l) /\ Elems(a) \subseteq Elems(l)
  BY <1>1, <1>2, Dropped
<1>4. IsQueue(b) /\ InOrder(b, q) /\ Elems(b) = Elems(q) \ {m \in Elems(q) : m.call = c}
  <2> DEFINE Y == {m \in Elems(q) : m.call = c}
  <2>1. b = Without(q, Y)
    BY DEF Unanswered
  <2> HIDE DEF Y, b
  <2> QED
    BY <1>0, <2>1, Dropped DEF Y
<1> HIDE DEF b
<1>5. ASSUME NEW d \in Calls
      PROVE  OneFor(a, d) /\ OneFor(b, d)
  <2>1. OneFor(s, d) /\ OneFor(q, d) /\ d # NoCall
    BY NoCallAssumption DEF Wires, InFlight
  <2>2. OneFor(l, d)
    BY <1>1, <2>1 DEF OneFor
  <2> QED
    BY <1>0, <1>1, <1>3, <1>4, <2>1, <2>2, OneForKept
<1>6. \A m \in Elems(a) : m.call \in Calls => m \in Elems(s)
  <2>1. \A n \in DOMAIN s : l[n].call \in Calls => l[n] = s[n]
    <3>1. \A n \in DOMAIN s : s[n].call \in Calls \cup {NoCall}
      BY <1>0 DEF Elems, Message
    <3> QED
      BY <1>1, <3>1, NoCallAssumption
  <2> QED
    BY <1>1, <1>3, <2>1 DEF Elems
<1>7. ASSUME NEW d \in Calls
      PROVE  InFlight(d, a, b, K[d], R[d], res)
  <2>1. InFlight(d, s, q, K[d], R[d], res)
    BY DEF Wires
  <2> QED
    BY <1>4, <1>5, <1>6, <2>1 DEF InFlight
<1>8. Wires(a, b, K, R, res)
  <2>1. \A x \in Elems(b) : x.kind = "answer" <=> x.call \in Calls
    BY <1>4 DEF Wires
  <2> QED
    BY <1>1, <1>3, <1>4, <1>7, <2>1 DEF Wires
<1>9. Silent(c, a, b)
  BY <1>1, <1>3, <1>4 DEF Silent
<1>10. Fewer(b, q)
  BY <1>0, <1>4, FewerKept
<1> QED
  BY <1>8, <1>9, <1>10 DEF a, b

\* Nothing is under way on a wire that is gone.
LEMMA WiresGone ==
  ASSUME NEW K, NEW R, NEW res
  PROVE  Wires(<<>>, <<>>, K, R, res) /\ \A q : Fewer(<<>>, q)
<1>1. IsQueue(<<>>) /\ DOMAIN <<>> = {}
  <2>1. <<>> \in Seq({}) /\ Len(<<>>) = 0
    OBVIOUS
  <2>2. IsQueue(<<>>) /\ DOMAIN <<>> = 1..Len(<<>>)
    BY <2>1, AnyQueue
  <2> QED
    BY <2>1, <2>2
<1>2. Elems(<<>>) = {}
  BY <1>1 DEF Elems
<1> QED
  BY <1>1, <1>2 DEF Wires, InFlight, OneFor, Fewer, AskOnce

-----------------------------------------------------------------------------
\* The parts of the invariant, kept.

\* The approvals of a connection become fewer, and are shown as they are.
LEMMA ApprovalsKept ==
  ASSUME CodexInv, UNCHANGED <<control, gen, started, asked, told>>, aGen' \in {aGen, gen},
         approvals' \subseteq approvals, Fewer(toClient', toClient),
         \A s \in shown' : s \in shown \/ \E e \in approvals : s = View(e),
         \A c \in Calls : call'[c].op = "decide" =>
            call'[c] = call[c] \/ call'[c].as \in shown \cup {AnyApproval}
  PROVE  Approving'
<1> USE DEF CodexInv
<1>1. \A r : OnItsWay(toClient', r) => OnItsWay(toClient, r)
  BY DEF Fewer, OnItsWay
<1>2. Numbered' /\ Raws' = Raws
  BY DEF Approving, Numbered, Raws
<1>3. ASSUME NEW e \in approvals'
      PROVE  Pending(e)' /\ ~OnItsWay(toClient', e.raw)
  <2>1. e \in approvals /\ Pending(e) /\ ~OnItsWay(toClient, e.raw)
    BY DEF Approving
  <2> QED
    BY <1>1, <1>2, <2>1 DEF Pending, ApprovalId
<1>4. /\ \A e, f \in approvals' : e.raw = f.raw => e = f
      /\ \A x \in Elems(toClient') : x.kind = "ask" => x.raw \in Raws' /\ x.thread \in Threads
      /\ AskOnce(toClient')
  BY <1>2 DEF Approving, Fewer
<1>5. ASSUME NEW d \in Elems(told)
      PROVE  Told(d)'
  <2>1. Told(d)
    BY DEF Approving
  <2> QED
    BY <1>1, <1>2, <2>1 DEF Told
<1>6. ASSUME NEW s, Seen(s)
      PROVE  Seen(s)'
  <2>1. s.gen <= aGen'
    BY <1>6 DEF Seen, Connected
  <2> QED
    BY <1>1, <1>2, <1>6, <2>1 DEF Seen
<1>7. ASSUME NEW e \in approvals
      PROVE  Seen(View(e))
  <2>1. Pending(e) /\ ~OnItsWay(toClient, e.raw)
    BY DEF Approving
  <2>2. /\ View(e).gen = gen /\ View(e).aid = ApprovalId(e.raw) /\ View(e).raw = e.raw
        /\ View(e).context = e.context
    BY <2>1 DEF Pending, View
  <2>3. \A f \in approvals : f.raw = e.raw => f = e
    BY DEF Approving
  <2>4. gen \in Nat /\ gen <= gen
    BY DEF Connected
  <2> HIDE DEF View
  <2> QED
    BY <2>1, <2>2, <2>3, <2>4 DEF Seen, Pending, ApprovalId
<1>8. \A s \in shown' : Seen(s)'
  <2>1. \A s \in shown : Seen(s)
    BY DEF Approving
  <2> QED
    BY <1>6, <1>7, <2>1
<1>9. ASSUME NEW c \in Calls, call'[c].op = "decide"
      PROVE  (call[c].as = AnyApproval \/ Seen(call[c].as))'
  <2>1. PICK s : s = call'[c].as
    OBVIOUS
  <2>2. s = AnyApproval \/ Seen(s)
    BY <1>9, <2>1 DEF Approving
  <2>3. s = AnyApproval \/ Seen(s)'
    BY <1>6, <2>2
  <2> QED
    BY <2>1, <2>3 DEF Seen, AnyApproval
<1>10. (\A d \in Elems(told) : Told(d))' /\ (IsQueue(told) /\ ToldOnce(told))'
  BY <1>5 DEF Approving
<1> QED
  BY <1>2, <1>3, <1>4, <1>8, <1>9, <1>10 DEF Approving

\* The wires are what they are, whatever the others have learnt.
LEMMA WiresAfter ==
  ASSUME UNCHANGED <<control, gen>>, Wires(toServer', toClient', call', req', resumed')
  PROVE  Wires(toServer, toClient, call, req, resumed)'
  BY DEF Wires, InFlight, Fits

\* A call that does nothing knows as much as before.
LEMMA CallingKept ==
  ASSUME CodexInv, UNCHANGED <<control, gen, started>>, aGen' \in {aGen, gen},
         resumed \subseteq resumed', NEW c \in Calls
  PROVE  (Calling(c, call'[c], req'[c]) \/ (call'[c] = call[c] /\ req'[c] = req[c]))
           => Calling(c, call[c], req[c])'
<1>1. aGen <= aGen' /\ aGen \in Nat /\ aGen' \in Nat
  BY DEF CodexInv, Connected
<1>2. ASSUME NEW k, Remembers(c, k)
      PROVE  Remembers(c, k)'
  BY <1>1, <1>2 DEF Remembers, Discovers, Turning
<1>3. ASSUME NEW k, NEW r, Waits(c, k, r)
      PROVE  Waits(c, k, r)'
  BY <1>3 DEF Waits, Fits
<1>4. Calling(c, call[c], req[c])
  BY DEF CodexInv, Requesting
<1> DEFINE k == call'[c]  r == req'[c]
<1> SUFFICES ASSUME Calling(c, k, r)
             PROVE  Calling(c, call[c], req[c])'
  BY <1>4
<1> PICK K : K = k
  OBVIOUS
<1> PICK R : R = r
  OBVIOUS
<1>5. Calling(c, K, R)
  OBVIOUS
<1> HIDE DEF k, r
<1>6. Calling(c, K, R)'
  BY <1>2, <1>3, <1>5 DEF Calling
<1> QED
  BY <1>6 DEF k, r, Calling, Remembers, Waits, Discovers, Turning, Fits

\* A connection that stays, or is about to be started.
LEMMA ConnectionKept ==
  ASSUME CodexInv, UNCHANGED <<control, gen, started, aGen, aStarted, asked>>,
         boot' = boot \/ (boot = "down" /\ boot' = "spawning"),
         ~started => (toServer' = <<>> /\ toClient' = <<>> /\ told' = <<>>),
         ~started => approvals' = {}
  PROVE  Connected'
  BY DEF CodexInv, Connected, Boots

\* Everything about requests, when the calls other than c do nothing.
LEMMA RequestsKept ==
  ASSUME CodexInv, UNCHANGED <<control, gen, started>>, aGen' \in {aGen, gen},
         resumed \subseteq resumed', Wires(toServer', toClient', call', req', resumed'),
         call' = [c \in Calls |-> call'[c]], req' = [c \in Calls |-> req'[c]],
         sub' = [t \in Threads |-> sub'[t]],
         \A c \in Calls : \/ call'[c] = call[c] /\ req'[c] = req[c]
                          \/ Calling(c, call'[c], req'[c]),
         \A t \in Threads : Subscribing(t)'
  PROVE  Requesting'
<1>1. \A c \in Calls : Calling(c, call[c], req[c])'
  BY CallingKept
<1>2. Wires(toServer, toClient, call, req, resumed)'
  BY WiresAfter
<1> QED
  BY <1>1, <1>2 DEF Requesting

\* The subscriptions, when they and the discovery do nothing.
LEMMA SubscriptionsKept ==
  ASSUME CodexInv, UNCHANGED <<gen, started, sub>>, aGen' \in {aGen, gen},
         resumed \subseteq resumed', call'[Discovery] = call[Discovery]
  PROVE  (\A t \in Threads : Subscribing(t)') /\ sub' = [t \in Threads |-> sub'[t]]
<1>1. aGen <= aGen' /\ aGen \in Nat /\ aGen' \in Nat
  BY DEF CodexInv, Connected
<1>2. ASSUME NEW t \in Threads
      PROVE  Subscribing(t)'
  <2>1. Subscribing(t)
    BY DEF CodexInv, Requesting
  <2> QED
    BY <1>1, <2>1 DEF Subscribing
<1> QED
  BY <1>2 DEF CodexInv, Requesting

-----------------------------------------------------------------------------
\* A call that goes on after what it awaited.

\* It writes, waits for the connection, fails or returns.
Moves(c) ==
  /\ UNCHANGED <<gen, started, toClient>>
  /\ boot' = boot \/ (boot = "down" /\ boot' = "spawning")
  /\ ~started => toServer' = <<>>
  /\ call' = [call EXCEPT ![c] = call'[c]] /\ req' = [req EXCEPT ![c] = req'[c]]
  /\ Calling(c, call'[c], req'[c])
  /\ Wires(toServer', toClient', call', req', resumed)

\* A call that returns has nothing under way.
LEMMA ReturnMoves ==
  ASSUME CodexInv, NEW c \in Calls, req[c].at # "sent", Returns(c)
  PROVE  Moves(c) /\ call'[c] = Idle
<1> USE DEF CodexInv
<1>1. call'[c] = Idle /\ req'[c] = NoRequest
  BY DEF Requesting, Returns
<1>2. Calling(c, Idle, NoRequest)
  BY DEF Calling, Remembers, NoRequest, Awaits, Idle, Resuming
<1>3. Wires(toServer, toClient, call, req, resumed)
  BY DEF Requesting
<1>4. \A d \in Calls \ {c} : call'[d] = call[d] /\ req'[d] = req[d]
  BY DEF Requesting, Returns
<1>5. Silent(c, toServer, toClient)
  BY <1>3, SilentUnlessSent
<1> PICK K, R : K = call' /\ R = req'
  OBVIOUS
<1>6. Wires(toServer, toClient, K, R, resumed)
  BY <1>3, <1>4, <1>5, WiresGoOn
<1> QED
  BY <1>1, <1>2, <1>6 DEF Moves, Returns, Connected

\* A call that asks has one request, where it belongs.
LEMMA SendMoves ==
  ASSUME CodexInv, NEW c \in Calls, req[c].at # "sent", NEW msg, NEW expected,
         Send(c, msg, expected), NEW k, call' = [call EXCEPT ![c] = k],
         Remembers(c, k), k # Idle, Message(msg), msg.call = c,
         ~Refused(expected) => Fits(k, msg) /\ (control /\ ~started => msg.kind \notin Delivery)
  PROVE  Moves(c) /\ call'[c] = k
<1> USE DEF CodexInv
<1>1. call'[c] = k /\ call' = [call EXCEPT ![c] = call'[c]]
  BY DEF Requesting
<1>2. Wires(toServer, toClient, call, req, resumed)
  BY DEF Requesting
<1>3. Silent(c, toServer, toClient)
  BY <1>2, SilentUnlessSent
<1>0. PICK K, R : K = call' /\ R = req'
  OBVIOUS
<1>4. \A d \in Calls \ {c} : K[d] = call[d] /\ R[d] = req[d]
  BY <1>0 DEF Requesting, Send
<1>5. Wires(toServer, toClient, K, R, resumed)
  BY <1>2, <1>3, <1>4, WiresGoOn
<1>6. CASE Refused(expected)
  <2>1. req' = [req EXCEPT ![c] = Failed] /\ UNCHANGED <<boot, gen, started, toClient, toServer>>
    BY <1>6 DEF Send
  <2>2. req'[c] = Failed
    BY <2>1 DEF Requesting
  <2>3. Calling(c, k, Failed)
    BY DEF Calling, Failed, Awaits
  <2> QED
    BY <1>0, <1>1, <1>5, <2>1, <2>2, <2>3 DEF Moves, Connected
<1>7. CASE ~Refused(expected) /\ started
  <2>1. /\ req' = [req EXCEPT ![c] = Sent] /\ toServer' = Append(toServer, msg)
        /\ UNCHANGED <<boot, gen, started, toClient>>
    BY <1>7 DEF Send
  <2>2. req'[c] = Sent /\ Sent.at = "sent"
    BY <2>1 DEF Requesting, Sent
  <2>3. Calling(c, k, Sent)
    BY <1>7, <2>2 DEF Calling, Awaits
  <2>4. Fits(k, msg)
    BY <1>7
  <2>5. R[c].at = "sent" /\ K[c] = k
    BY <1>0, <1>1, <2>2
  <2>6. Wires(Append(toServer, msg), toClient, K, R, resumed)
    BY <1>3, <1>5, <2>4, <2>5, WiresSend
  <2> QED
    BY <1>0, <1>1, <1>7, <2>1, <2>2, <2>3, <2>6 DEF Moves
<1>8. CASE ~Refused(expected) /\ ~started
  <2>1. /\ req' = [req EXCEPT ![c] = Queued(msg)] /\ StartsConnection
        /\ UNCHANGED <<gen, started, toClient, toServer>>
    BY <1>8 DEF Send
  <2>2. req'[c] = Queued(msg)
    BY <2>1 DEF Requesting
  <2>3. Calling(c, k, Queued(msg))
    BY <1>8 DEF Calling, Queued, Awaits, Waits
  <2>4. boot' = boot \/ (boot = "down" /\ boot' = "spawning")
    BY <2>1 DEF StartsConnection
  <2> QED
    BY <1>0, <1>1, <1>5, <1>8, <2>1, <2>2, <2>3, <2>4 DEF Moves, Connected
<1> QED
  BY <1>6, <1>7, <1>8

\* The rest of what a call does when it goes on.
LEMMA MovesKeep ==
  ASSUME CodexInv, NEW c \in Calls, Moves(c), UNCHANGED <<control, aGen, aStarted, asked, resumed, told>>,
         approvals' \subseteq approvals, call'[c].op = "decide" => call'[c] = call[c],
         \A s \in shown' : s \in shown \/ \E e \in approvals : s = View(e),
         sub' = [t \in Threads |-> sub'[t]], \A t \in Threads : Subscribing(t)'
  PROVE  CodexInv'
<1>1. \A d \in Calls \ {c} : call'[d] = call[d] /\ req'[d] = req[d]
  BY DEF CodexInv, Requesting, Moves
<1>2. Connected'
  <2>1. ~started => toServer' = <<>> /\ toClient' = <<>> /\ told' = <<>> /\ approvals' = {}
    BY DEF CodexInv, Connected, Moves
  <2> QED
    BY <2>1, ConnectionKept DEF Moves
<1>3. Requesting'
  <2>1. call' = [d \in Calls |-> call'[d]] /\ req' = [d \in Calls |-> req'[d]]
    BY DEF CodexInv, Requesting, Moves
  <2>2. Wires(toServer', toClient', call', req', resumed')
    BY DEF Moves
  <2>3. \A d \in Calls : \/ call'[d] = call[d] /\ req'[d] = req[d]
                         \/ Calling(d, call'[d], req'[d])
    BY <1>1 DEF Moves
  <2> QED
    BY <2>1, <2>2, <2>3, RequestsKept DEF Moves
<1>4. Approving'
  <2>1. Fewer(toClient', toClient)
    BY DEF Moves, Fewer
  <2>2. \A d \in Calls : call'[d].op = "decide" =>
           call'[d] = call[d] \/ call'[d].as \in shown \cup {AnyApproval}
    BY <1>1
  <2> QED
    BY <2>1, <2>2, ApprovalsKept DEF Moves
<1> QED
  BY <1>2, <1>3, <1>4 DEF CodexInv

-----------------------------------------------------------------------------
\* The discovery.

\* What a discovery remembers once it has asked for the loaded threads.
Synchronizes(k) ==
  /\ k.op = "discover" /\ DOMAIN k = {"op", "at", "gen", "thread", "left"}
  /\ k.gen \in Nat /\ k.gen <= aGen

\* It asks for the list.
LEMMA ListsMove ==
  ASSUME CodexInv, NEW c \in Calls, c = Discovery, req[c].at # "sent",
         NEW record, Synchronizes(record), Lists(c, record)
  PROVE  Moves(c) /\ call'[c].op = "discover" /\ ~Resuming(call'[c])
<1> DEFINE k == [record EXCEPT !.at = "list", !.left = {}]
           msg == [kind |-> "list", call |-> c]
<1>1. Send(c, msg, Unbound) /\ call' = [call EXCEPT ![c] = k]
  BY DEF Lists
<1>2. /\ k.op = "discover" /\ k.at = "list" /\ k.gen = record.gen
      /\ DOMAIN k = {"op", "at", "gen", "thread", "left"}
  BY DEF Synchronizes
<1>3. Message(msg) /\ msg.call = c /\ msg.kind = "list"
  BY DEF Message
<1> HIDE DEF k, msg
<1>4. Remembers(c, k) /\ k # Idle /\ ~Resuming(k)
  BY <1>2 DEF Remembers, Discovers, Synchronizes, Idle, Resuming
<1>5. Fits(k, msg) /\ msg.kind \notin Delivery
  BY <1>2, <1>3 DEF Fits, Resuming, Delivery
<1>6. Moves(c) /\ call'[c] = k
  BY <1>1, <1>3, <1>4, <1>5, SendMoves
<1> QED
  BY <1>2, <1>4, <1>6

\* It goes on to the next thread, with subscriptions that are all accepted on
\* this connection.
LEMMA SubscribesMove ==
  ASSUME CodexInv, NEW c \in Calls, c = Discovery, req[c].at # "sent",
         NEW record, Synchronizes(record),
         NEW subs, subs = [t \in Threads |-> subs[t]],
         \A t \in Threads : /\ subs[t] \in Nat /\ subs[t] <= aGen
                            /\ started /\ subs[t] = gen => t \in resumed,
         Subscribes(c, record, subs), UNCHANGED <<control, aGen, resumed>>
  PROVE  /\ Moves(c) /\ call'[c].op = "discover"
         /\ sub' = [t \in Threads |-> sub'[t]] /\ \A t \in Threads : Subscribing(t)'
<1> DEFINE todo == {t \in record.left : subs[t] # record.gen}
<1>1. CASE sub' = subs /\ Lists(c, record)
  <2>1. Moves(c) /\ call'[c].op = "discover"
    BY <1>1, ListsMove
  <2>2. gen' = gen /\ started' = started
    BY <2>1 DEF Moves
  <2>3. \A t \in Threads : Subscribing(t)'
    BY <1>1, <2>2 DEF Subscribing
  <2> QED
    BY <1>1, <2>1, <2>3
<1>2. ASSUME NEW t \in todo, sub' = [subs EXCEPT ![t] = record.gen],
             Send(c, [kind |-> "resume", call |-> c, thread |-> t], Unbound),
             call' = [call EXCEPT ![c] = [record EXCEPT !.at = "resume", !.thread = t,
                                                        !.left = todo \ {t}]]
      PROVE  /\ Moves(c) /\ call'[c].op = "discover"
             /\ sub' = [u \in Threads |-> sub'[u]] /\ \A u \in Threads : Subscribing(u)'
  <2> DEFINE left == todo \ {t}
             k == [record EXCEPT !.at = "resume", !.thread = t, !.left = left]
             msg == [kind |-> "resume", call |-> c, thread |-> t]
  <2>1. Send(c, msg, Unbound) /\ call' = [call EXCEPT ![c] = k]
    BY <1>2
  <2> HIDE DEF left
  <2>2. /\ k.op = "discover" /\ k.at = "resume" /\ k.gen = record.gen /\ k.thread = t
        /\ DOMAIN k = {"op", "at", "gen", "thread", "left"}
    BY DEF Synchronizes
  <2>3. Message(msg) /\ msg.call = c /\ msg.kind = "resume" /\ msg.thread = t
    BY DEF Message
  <2> HIDE DEF k, msg
  <2>4. Remembers(c, k) /\ k # Idle /\ Resuming(k)
    BY <2>2 DEF Remembers, Discovers, Synchronizes, Idle, Resuming
  <2>5. Fits(k, msg) /\ msg.kind \notin Delivery
    BY <2>2, <2>3 DEF Fits, Resuming, Delivery
  <2>6. Moves(c) /\ call'[c] = k
    BY <2>1, <2>3, <2>4, <2>5, SendMoves
  <2>7. gen' = gen /\ started' = started
    BY <2>6 DEF Moves
  <2>8. \A u \in Threads : sub'[u] = subs[u] \/ (u = t /\ sub'[u] = record.gen)
    BY <1>2
  <2>9. \A u \in Threads : Subscribing(u)'
    BY <2>2, <2>4, <2>6, <2>7, <2>8 DEF Subscribing, Synchronizes
  <2> QED
    BY <1>2, <2>2, <2>6, <2>9
<1> QED
  BY <1>1, <1>2 DEF Subscribes

\* Only the discovery discovers; what it is told is what is subscribed, unless
\* it is about to ask.
LEMMA OnlyDiscovery ==
  ASSUME CodexInv, NEW c \in Calls, call[c].op = "discover"
  PROVE  /\ c = Discovery /\ Discovers(call[c])
         /\ call[c].at # "start" => Synchronizes(call[c])
         /\ \A t \in Threads : sub[t] \in Nat /\ sub[t] <= aGen
         /\ req[c].at = "answered" \/ call[c].at # "resume" =>
              \A t \in Threads : started /\ sub[t] = gen => t \in resumed
         /\ \A t \in Threads : started /\ sub[t] = gen /\ t # call[c].thread => t \in resumed
         /\ sub = [t \in Threads |-> sub[t]]
<1>1. c = Discovery /\ Discovers(call[c])
  BY DEF CodexInv, Requesting, Calling, Remembers, Idle, Turning
<1>2. call[c].at # "start" => Synchronizes(call[c])
  BY <1>1 DEF Discovers, Synchronizes
<1>3. req[c].at = "answered" /\ Resuming(call[c]) /\ started => call[c].thread \in resumed
  BY DEF CodexInv, Requesting, Calling
<1>4. ASSUME NEW t \in Threads
      PROVE  /\ sub[t] \in Nat /\ sub[t] <= aGen
             /\ started /\ sub[t] = gen =>
                  t \in resumed \/ (call[c].at = "resume" /\ call[c].thread = t)
  BY <1>1 DEF CodexInv, Requesting, Subscribing, Resuming
<1>5. sub = [t \in Threads |-> sub[t]]
  BY DEF CodexInv, Requesting
<1> QED
  BY <1>1, <1>2, <1>3, <1>4, <1>5 DEF Resuming

\* The discovery enters, and asks on the connection it found.
LEMMA DiscoverEntersInv ==
  ASSUME CodexInv, UNCHANGED control, NEW c \in Calls, DiscoverEnters(c)
  PROVE  CodexInv'
<1> DEFINE record == [op |-> "discover", at |-> "loaded", gen |-> aGen,
                      thread |-> NoThread, left |-> {}]
           msg == [kind |-> "loaded", call |-> c]
<1>1. /\ call[c].op = "discover" /\ call[c].at = "start" /\ req[c].at = "connected"
      /\ UNCHANGED <<aGen, aStarted, sub, approvals, shown, told, resumed, asked>>
      /\ \/ Send(c, msg, Unbound) /\ call' = [call EXCEPT ![c] = record]
         \/ Lists(c, record)
  BY DEF DiscoverEnters, Entered, adapterVars, histories, serverVars
<1>2. c = Discovery /\ ~Resuming(call[c])
  BY <1>1, OnlyDiscovery DEF Resuming
<1>3. /\ record.op = "discover" /\ record.at = "loaded" /\ record.gen = aGen
      /\ DOMAIN record = {"op", "at", "gen", "thread", "left"}
      /\ Message(msg) /\ msg.call = c /\ msg.kind = "loaded"
  BY DEF Message
<1> HIDE DEF record, msg
<1>4. aGen \in Nat /\ aGen <= aGen
  BY DEF CodexInv, Connected
<1>5. Synchronizes(record) /\ Remembers(c, record) /\ record # Idle /\ ~Resuming(record)
  BY <1>2, <1>3, <1>4 DEF Synchronizes, Remembers, Discovers, Idle, Resuming
<1>6. Fits(record, msg) /\ msg.kind \notin Delivery
  BY <1>3 DEF Fits, Resuming, Delivery
<1>7. Moves(c) /\ call'[c].op = "discover"
  <2>1. CASE Send(c, msg, Unbound) /\ call' = [call EXCEPT ![c] = record]
    <3>1. Moves(c) /\ call'[c] = record
      BY ZenonT(60), <1>1, <1>3, <1>5, <1>6, <2>1, SendMoves
    <3> QED
      BY <1>3, <3>1
  <2>2. CASE Lists(c, record)
    BY <1>1, <1>2, <1>5, <2>2, ListsMove
  <2> QED
    BY <1>1, <2>1, <2>2
<1>8. /\ sub' = [t \in Threads |-> sub'[t]] /\ gen' = gen /\ started' = started
      /\ \A t \in Threads : Subscribing(t)'
  <2>1. gen' = gen /\ started' = started
    BY <1>7 DEF Moves
  <2>2. \A t \in Threads : /\ sub[t] \in Nat /\ sub[t] <= aGen
                           /\ started /\ sub[t] = gen => t \in resumed
    BY <1>1, OnlyDiscovery
  <2> QED
    BY <1>1, <2>1, <2>2, OnlyDiscovery DEF Subscribing
<1> QED
  BY <1>1, <1>7, <1>8, MovesKeep

\* It learns which threads are loaded; those that are not are forgotten.
LEMMA LoadedAnsweredInv ==
  ASSUME CodexInv, UNCHANGED control, NEW c \in Calls, LoadedAnswered(c)
  PROVE  CodexInv'
<1>1. /\ call[c].op = "discover" /\ call[c].at = "loaded" /\ req[c].at = "answered"
      /\ UNCHANGED <<aGen, aStarted, shown, told, resumed, asked>>
  BY DEF LoadedAnswered, Awaited, histories, serverVars
<1>2. PICK gone : /\ approvals' = {e \in approvals : e.thread \notin gone}
                  /\ Subscribes(c, [call[c] EXCEPT !.left = req[c].body], Unsubscribed(gone))
  BY DEF LoadedAnswered, ForgetWork
<1> DEFINE record == [call[c] EXCEPT !.left = req[c].body]
           subs == Unsubscribed(gone)
<1>3. Synchronizes(record)
  <2>1. Synchronizes(call[c])
    BY <1>1, OnlyDiscovery
  <2> QED
    BY <2>1 DEF Synchronizes
<1>4. /\ subs = [t \in Threads |-> subs[t]]
      /\ \A t \in Threads : subs[t] \in {0, sub[t]}
  BY DEF Unsubscribed
<1> HIDE DEF record, subs
<1>5. aGen \in Nat /\ (started => 0 # gen)
  BY DEF CodexInv, Connected
<1>6. \A t \in Threads : /\ subs[t] \in Nat /\ subs[t] <= aGen
                         /\ started /\ subs[t] = gen => t \in resumed
  BY <1>1, <1>4, <1>5, OnlyDiscovery
<1>7. c = Discovery /\ Subscribes(c, record, subs)
  BY <1>1, <1>2, OnlyDiscovery DEF record, subs
<1>8. /\ Moves(c) /\ call'[c].op = "discover"
      /\ sub' = [t \in Threads |-> sub'[t]] /\ \A t \in Threads : Subscribing(t)'
  BY <1>1, <1>3, <1>4, <1>6, <1>7, SubscribesMove
<1> QED
  BY <1>1, <1>2, <1>8, MovesKeep

\* The thread is resumed: it stays subscribed.
LEMMA ResumeAnsweredInv ==
  ASSUME CodexInv, UNCHANGED control, NEW c \in Calls, ResumeAnswered(c)
  PROVE  CodexInv'
<1>1. /\ call[c].op = "discover" /\ call[c].at = "resume" /\ req[c].at = "answered"
      /\ UNCHANGED <<aGen, aStarted, approvals, shown, told, resumed, asked>>
      /\ \/ Lists(c, call[c]) /\ UNCHANGED sub
         \/ Subscribes(c, call[c], sub)
  BY DEF ResumeAnswered, Awaited, histories, serverVars, Work
<1>2. c = Discovery /\ Synchronizes(call[c]) /\ sub = [t \in Threads |-> sub[t]]
  BY <1>1, OnlyDiscovery
<1>3. \A t \in Threads : /\ sub[t] \in Nat /\ sub[t] <= aGen
                         /\ started /\ sub[t] = gen => t \in resumed
  BY <1>1, OnlyDiscovery
<1>4. /\ Moves(c) /\ call'[c].op = "discover"
      /\ sub' = [t \in Threads |-> sub'[t]] /\ \A t \in Threads : Subscribing(t)'
  <2>1. CASE Lists(c, call[c]) /\ UNCHANGED sub
    <3>1. Moves(c) /\ call'[c].op = "discover"
      BY <1>1, <1>2, <2>1, ListsMove
    <3> QED
      BY <1>1, <1>2, <1>3, <2>1, <3>1 DEF Subscribing, Moves
  <2>2. CASE Subscribes(c, call[c], sub)
    BY <1>1, <1>2, <1>3, <2>2, SubscribesMove
  <2> QED
    BY <1>1, <2>1, <2>2
<1> QED
  BY <1>1, <1>4, MovesKeep

\* It is not: it no longer counts as subscribed.
LEMMA ResumeFailedInv ==
  ASSUME CodexInv, UNCHANGED control, NEW c \in Calls, ResumeFailed(c)
  PROVE  CodexInv'
<1> DEFINE t == call[c].thread  subs == Unsubscribed({t})
<1>1. /\ call[c].op = "discover" /\ call[c].at = "resume" /\ req[c].at = "failed"
      /\ UNCHANGED <<aGen, aStarted, shown, told, resumed, asked>>
      /\ approvals' \subseteq approvals
      /\ \/ Subscribes(c, call[c], subs)
         \/ Returns(c) /\ sub' = subs
  BY DEF ResumeFailed, Missed, histories, serverVars, ForgetWork
<1>2. c = Discovery /\ Synchronizes(call[c])
  BY <1>1, OnlyDiscovery
<1>3. /\ subs = [u \in Threads |-> subs[u]]
      /\ \A u \in Threads : subs[u] = IF u = t THEN 0 ELSE sub[u]
  BY DEF Unsubscribed
<1> HIDE DEF subs
<1>4. aGen \in Nat /\ (started => 0 # gen)
  BY DEF CodexInv, Connected
<1>5. \A u \in Threads : /\ subs[u] \in Nat /\ subs[u] <= aGen
                         /\ started /\ subs[u] = gen => u \in resumed
  BY <1>1, <1>3, <1>4, OnlyDiscovery
<1>6. /\ Moves(c) /\ call'[c].op # "decide"
      /\ sub' = [u \in Threads |-> sub'[u]] /\ \A u \in Threads : Subscribing(u)'
  <2>1. CASE Returns(c) /\ sub' = subs
    <3>1. Moves(c) /\ call'[c] = Idle
      BY <1>1, <2>1, ReturnMoves
    <3> QED
      BY <1>1, <1>3, <1>5, <2>1, <3>1 DEF Subscribing, Moves, Idle
  <2>2. CASE Subscribes(c, call[c], subs)
    BY <1>1, <1>2, <1>3, <1>5, <2>2, SubscribesMove
  <2> QED
    BY <1>1, <2>1, <2>2
<1> QED
  BY <1>1, <1>6, MovesKeep

\* The agents are published.
LEMMA ListAnsweredInv ==
  ASSUME CodexInv, UNCHANGED control, NEW c \in Calls, ListAnswered(c)
  PROVE  CodexInv'
<1>1. /\ call[c].op = "discover" /\ call[c].at = "list" /\ req[c].at = "answered"
      /\ UNCHANGED <<aGen, aStarted, sub, approvals, told, resumed, asked>> /\ Returns(c)
      /\ \A s \in shown' : s \in shown \/ \E e \in approvals : s = View(e)
  BY DEF ListAnswered, Awaited, adapterVars, serverVars
<1>2. Moves(c) /\ call'[c] = Idle
  BY <1>1, ReturnMoves
<1>3. \A t \in Threads : /\ sub[t] \in Nat /\ sub[t] <= aGen
                         /\ started /\ sub[t] = gen => t \in resumed
  BY <1>1, OnlyDiscovery
<1>4. \A t \in Threads : Subscribing(t)'
  BY <1>1, <1>2, <1>3 DEF Subscribing, Moves
<1>5. sub' = [t \in Threads |-> sub'[t]] /\ call'[c].op # "decide"
  BY <1>1, <1>2, OnlyDiscovery DEF Idle
<1> QED
  BY <1>1, <1>2, <1>4, <1>5, MovesKeep

-----------------------------------------------------------------------------
\* Prompts and interrupts.

\* A call that has looked at the connection, and has not written its prompt on
\* a shared server yet.
Bound(k) ==
  /\ k.op \in {"prompt", "interrupt"}
  /\ DOMAIN k = {"op", "at", "thread", "gen", "wrote"}
  /\ k.gen \in Nat /\ k.wrote \in Nat
  /\ control => k.gen # Unbound /\ k.wrote = 0

\* A prompt is written on the connection the call is bound to.
LEMMA DeliversMove ==
  ASSUME CodexInv, NEW c \in Calls, req[c].at # "sent", NEW record, Bound(record),
         NEW at, at \notin {"start", "presume", "find"}, NEW msg, Message(msg), msg.call = c,
         Delivers(c, record, at, msg)
  PROVE  Moves(c) /\ call'[c].op # "decide"
<1>1. PICK w : w = IF toServer' # toServer THEN record.wrote + 1 ELSE record.wrote
  OBVIOUS
<1> DEFINE k == [record EXCEPT !.at = at, !.wrote = w]
<1>2. Send(c, msg, record.gen) /\ call' = [call EXCEPT ![c] = k]
  BY <1>1 DEF Delivers, Bound
<1>3. /\ k.op = record.op /\ k.at = at /\ k.gen = record.gen /\ k.wrote = w
      /\ DOMAIN k = {"op", "at", "thread", "gen", "wrote"}
  BY DEF Bound
<1> HIDE DEF k
<1>4. w \in Nat /\ w <= record.wrote + 1
  <2>1. record.wrote \in Nat
    BY DEF Bound
  <2>2. w \in {record.wrote, record.wrote + 1}
    BY <1>1
  <2> QED
    BY <2>1, <2>2
<1>5. Remembers(c, k) /\ k # Idle /\ ~Resuming(k) /\ k.op # "decide"
  <2>1. Turning(k)
    <3>1. control => k.gen # Unbound /\ k.wrote <= 1
      BY <1>3, <1>4 DEF Bound
    <3> QED
      BY <1>3, <1>4, <3>1 DEF Turning, Bound
  <2> QED
    BY <2>1 DEF Remembers, Turning, Idle, Resuming
<1>6. ~Refused(record.gen) => Fits(k, msg) /\ (control /\ ~started => msg.kind \notin Delivery)
  BY <1>3, <1>5 DEF Fits, Refused, Bound
<1>7. Moves(c) /\ call'[c] = k
  BY <1>2, <1>5, <1>6, SendMoves
<1> QED
  BY <1>5, <1>7

\* A message that is no prompt.
LEMMA AsksMove ==
  ASSUME CodexInv, NEW c \in Calls, req[c].at # "sent", NEW record, Bound(record),
         NEW at, NEW msg, Message(msg), msg.call = c, msg.kind \notin Delivery,
         NEW expected, Asks(c, record, at, msg, expected)
  PROVE  Moves(c) /\ call'[c].op # "decide"
<1> DEFINE k == [record EXCEPT !.at = at]
<1>1. Send(c, msg, expected) /\ call' = [call EXCEPT ![c] = k]
  BY DEF Asks
<1>2. /\ k.op = record.op /\ k.gen = record.gen /\ k.wrote = record.wrote
      /\ DOMAIN k = {"op", "at", "thread", "gen", "wrote"}
  BY DEF Bound
<1> HIDE DEF k
<1>3. Remembers(c, k) /\ k # Idle /\ ~Resuming(k) /\ k.op # "decide"
  BY <1>2 DEF Remembers, Turning, Bound, Idle, Resuming
<1>4. Fits(k, msg)
  BY <1>3 DEF Fits
<1>5. Moves(c) /\ call'[c] = k
  BY <1>1, <1>3, <1>4, SendMoves
<1> QED
  BY <1>3, <1>5

\* A prompt starts a turn.
LEMMA StartsTurnMoves ==
  ASSUME CodexInv, NEW c \in Calls, req[c].at # "sent", NEW record, Bound(record),
         StartsTurn(c, record)
  PROVE  Moves(c) /\ call'[c].op # "decide"
<1> DEFINE msg == [kind |-> "start", call |-> c, thread |-> record.thread]
<1>1. Message(msg) /\ msg.call = c
  BY DEF Message
<1>2. Delivers(c, record, "start turn", msg)
  BY DEF StartsTurn
<1> HIDE DEF msg
<1> QED
  BY <1>1, <1>2, DeliversMove

\* Or steers one; an interrupt ends it.
LEMMA ActsOnMoves ==
  ASSUME CodexInv, NEW c \in Calls, req[c].at # "sent", NEW record, Bound(record),
         NEW n, ActsOn(c, record, n)
  PROVE  Moves(c) /\ call'[c].op # "decide"
<1> DEFINE steer == [kind |-> "steer", call |-> c, thread |-> record.thread, turn |-> n]
           interrupt == [kind |-> "interrupt", call |-> c, thread |-> record.thread, turn |-> n]
<1>1. /\ Message(steer) /\ steer.call = c
      /\ Message(interrupt) /\ interrupt.call = c /\ interrupt.kind \notin Delivery
  BY DEF Message, Delivery
<1>2. \/ Delivers(c, record, "steer", steer)
      \/ Asks(c, record, "interrupt", interrupt, record.gen)
  BY DEF ActsOn
<1> HIDE DEF steer, interrupt
<1> QED
  BY <1>1, <1>2, DeliversMove, AsksMove

\* The turn it acts on is known or looked for.
LEMMA FindsMoves ==
  ASSUME CodexInv, NEW c \in Calls, req[c].at # "sent", NEW record, Bound(record),
         Finds(c, record)
  PROVE  Moves(c) /\ call'[c].op # "decide"
<1> DEFINE msg == [kind |-> "read", call |-> c, thread |-> record.thread]
<1>1. Message(msg) /\ msg.call = c /\ msg.kind \notin Delivery
  BY DEF Message, Delivery
<1>2. \/ ActsOn(c, record, turn[record.thread])
      \/ Asks(c, record, "find", msg, record.gen)
  BY DEF Finds
<1> HIDE DEF msg
<1> QED
  BY <1>1, <1>2, ActsOnMoves, AsksMove

\* Calls that do not discover leave the subscriptions alone.
LEMMA OthersMoveKeep ==
  ASSUME CodexInv, NEW c \in Calls, Moves(c), ~Resuming(call[c]), call'[c].op # "decide",
         UNCHANGED <<control, aGen, aStarted, sub, asked, resumed, told, shown>>,
         approvals' \subseteq approvals
  PROVE  CodexInv'
<1>1. ASSUME NEW t \in Threads
      PROVE  Subscribing(t)'
  <2>1. Subscribing(t)
    BY DEF CodexInv, Requesting
  <2>2. Discovery \in Calls /\ Discovery # c => call'[Discovery] = call[Discovery]
    BY DEF CodexInv, Requesting, Moves
  <2> QED
    BY <2>1, <2>2, CodexAssumption DEF Subscribing, Moves
<1>2. sub' = [t \in Threads |-> sub'[t]]
  BY DEF CodexInv, Requesting
<1> QED
  BY <1>1, <1>2, MovesKeep

\* What a prompt or an interrupt remembers.
LEMMA TurnCalls ==
  ASSUME CodexInv, NEW c \in Calls, call[c].op \in {"prompt", "interrupt"}
  PROVE  Turning(call[c]) /\ ~Resuming(call[c])
  BY DEF CodexInv, Requesting, Calling, Remembers, Idle, Discovers, Resuming

\* The call looks at the connection and goes on at once.
LEMMA TurnCallEntersInv ==
  ASSUME CodexInv, UNCHANGED control, NEW c \in Calls, TurnCallEnters(c)
  PROVE  CodexInv'
<1> DEFINE t == call[c].thread
           record == [call[c] EXCEPT !.gen = IF control THEN aGen ELSE Unbound]
           msg == [kind |-> "resume", call |-> c, thread |-> t]
<1>1. /\ call[c].op \in {"prompt", "interrupt"} /\ call[c].at = "start"
      /\ req[c].at = "connected"
      /\ UNCHANGED <<aGen, aStarted, sub, approvals, shown, told, resumed, asked>>
      /\ \/ Returns(c)
         \/ /\ ~control \/ aStarted
            /\ Asks(c, record, "presume", msg, Unbound) \/ Finds(c, record)
  BY DEF TurnCallEnters, Entered, Controllable, adapterVars, histories, serverVars
<1>2. Turning(call[c]) /\ ~Resuming(call[c])
  BY <1>1, TurnCalls
<1>3. ASSUME ~control \/ aStarted
      PROVE  Bound(record)
  <2>1. /\ record.op = call[c].op /\ record.wrote = call[c].wrote
        /\ DOMAIN record = {"op", "at", "thread", "gen", "wrote"}
        /\ record.gen = IF control THEN aGen ELSE Unbound
    BY <1>2 DEF Turning
  <2>2. aGen \in Nat /\ (control => aGen # 0)
    <3>1. aGen \in Nat /\ gen \in Nat /\ (aStarted => started /\ aGen = gen) /\ (started => gen > 0)
      BY DEF CodexInv, Connected
    <3> QED
      BY <1>3, <3>1
  <2> HIDE DEF record
  <2> QED
    BY <1>1, <1>2, <2>1, <2>2 DEF Turning, Bound, Unbound
<1>4. Message(msg) /\ msg.call = c /\ msg.kind \notin Delivery
  BY DEF Message, Delivery
<1> HIDE DEF record, msg
<1>5. Moves(c) /\ call'[c].op # "decide"
  <2>1. CASE Returns(c)
    BY <1>1, <2>1, ReturnMoves DEF Idle
  <2>2. CASE (~control \/ aStarted) /\ Asks(c, record, "presume", msg, Unbound)
    BY <1>1, <1>3, <1>4, <2>2, AsksMove
  <2>3. CASE (~control \/ aStarted) /\ Finds(c, record)
    BY <1>1, <1>3, <2>3, FindsMoves
  <2> QED
    BY <1>1, <2>1, <2>2, <2>3
<1> QED
  BY <1>1, <1>2, <1>5, OthersMoveKeep

\* An owned server resumed the thread.
LEMMA OwnedResumedInv ==
  ASSUME CodexInv, UNCHANGED control, NEW c \in Calls, OwnedResumed(c)
  PROVE  CodexInv'
<1>1. /\ call[c].op = "prompt" /\ call[c].at = "presume" /\ req[c].at = "answered"
      /\ UNCHANGED <<aGen, aStarted, sub, approvals, shown, told, resumed, asked>>
      /\ Finds(c, call[c])
  BY DEF OwnedResumed, Awaited, adapterVars, histories, serverVars
<1>2. Bound(call[c]) /\ ~Resuming(call[c])
  BY <1>1, TurnCalls DEF Turning, Bound
<1>3. Moves(c) /\ call'[c].op # "decide"
  BY <1>1, <1>2, FindsMoves
<1> QED
  BY <1>1, <1>2, <1>3, OthersMoveKeep

\* The active turn was looked for.
LEMMA TurnFoundInv ==
  ASSUME CodexInv, UNCHANGED control, NEW c \in Calls, TurnFound(c)
  PROVE  CodexInv'
<1>1. /\ call[c].op \in {"prompt", "interrupt"} /\ call[c].at = "find" /\ req[c].at = "answered"
      /\ UNCHANGED <<aGen, aStarted, sub, approvals, shown, told, resumed, asked>>
      /\ \/ \E n : ActsOn(c, call[c], n)
         \/ StartsTurn(c, call[c])
         \/ Returns(c)
  BY DEF TurnFound, Awaited, histories, serverVars
<1>2. Bound(call[c]) /\ ~Resuming(call[c])
  BY <1>1, TurnCalls DEF Turning, Bound
<1>3. Moves(c) /\ call'[c].op # "decide"
  <2>1. CASE \E n : ActsOn(c, call[c], n)
    BY <1>1, <1>2, <2>1, ActsOnMoves
  <2>2. CASE StartsTurn(c, call[c])
    BY <1>1, <1>2, <2>2, StartsTurnMoves
  <2>3. CASE Returns(c)
    BY <1>1, <2>3, ReturnMoves DEF Idle
  <2> QED
    BY <1>1, <2>1, <2>2, <2>3
<1> QED
  BY <1>1, <1>2, <1>3, OthersMoveKeep

\* The steer is retried as a start, on an owned server.
LEMMA SteerFailedInv ==
  ASSUME CodexInv, UNCHANGED control, NEW c \in Calls, SteerFailed(c)
  PROVE  CodexInv'
<1>1. /\ call[c].op = "prompt" /\ req[c].at = "failed" /\ ~control
      /\ UNCHANGED <<aGen, aStarted, sub, approvals, shown, told, resumed, asked>>
      /\ StartsTurn(c, call[c])
  BY DEF SteerFailed, Missed, MayRetry, histories, serverVars
<1>2. Bound(call[c]) /\ ~Resuming(call[c])
  BY <1>1, TurnCalls DEF Turning, Bound
<1>3. Moves(c) /\ call'[c].op # "decide"
  BY <1>1, <1>2, StartsTurnMoves
<1> QED
  BY <1>1, <1>2, <1>3, OthersMoveKeep

\* The call is over.
LEMMA ActedInv ==
  ASSUME CodexInv, UNCHANGED control, NEW c \in Calls, Acted(c)
  PROVE  CodexInv'
<1>1. /\ call[c].op \in {"prompt", "interrupt"} /\ req[c].at = "answered" /\ Returns(c)
      /\ UNCHANGED <<aGen, aStarted, sub, approvals, shown, told, resumed, asked>>
  BY DEF Acted, Awaited, histories, serverVars
<1>2. ~Resuming(call[c])
  BY <1>1, TurnCalls
<1>3. Moves(c) /\ call'[c].op # "decide"
  BY <1>1, ReturnMoves DEF Idle
<1> QED
  BY <1>1, <1>2, <1>3, OthersMoveKeep

\* Or fails.
LEMMA ThrowsInv ==
  ASSUME CodexInv, UNCHANGED control, NEW c \in Calls, Throws(c)
  PROVE  CodexInv'
<1>1. /\ req[c].at = "failed" /\ Returns(c) /\ call[c].at # "resume"
      /\ UNCHANGED <<aGen, aStarted, sub, approvals, shown, told, resumed, asked>>
  BY DEF Throws, histories, serverVars
<1>2. Moves(c) /\ call'[c].op # "decide"
  BY <1>1, ReturnMoves DEF Idle
<1> QED
  BY <1>1, <1>2, OthersMoveKeep DEF Resuming

-----------------------------------------------------------------------------
\* A call begins: the adapter may learn of a connection that greets.
LEMMA BeginInv ==
  ASSUME CodexInv, UNCHANGED control, NEW c \in Calls, NEW record, Begin(c, record),
         Remembers(c, record), record # Idle, ~Resuming(record),
         record.op = "decide" => record.as \in shown \cup {AnyApproval}
  PROVE  CodexInv'
<1> PICK r : r = [at |-> IF aStarted \/ started THEN "connected" ELSE "queued"]
  OBVIOUS
<1>1. /\ call[c] = Idle /\ call' = [call EXCEPT ![c] = record] /\ req' = [req EXCEPT ![c] = r]
      /\ UNCHANGED <<gen, started, toServer, toClient, sub, approvals, shown, told, resumed, asked>>
      /\ \/ UNCHANGED <<aGen, aStarted, boot>>
         \/ started /\ aGen' = gen /\ aStarted' = TRUE /\ UNCHANGED boot
         \/ ~started /\ StartsConnection /\ UNCHANGED <<aGen, aStarted>>
  BY DEF Begin, Work, histories, serverVars
<1>2. /\ call' = [d \in Calls |-> call'[d]] /\ req' = [d \in Calls |-> req'[d]]
      /\ call'[c] = record /\ req'[c] = r
      /\ \A d \in Calls \ {c} : call'[d] = call[d] /\ req'[d] = req[d]
  BY <1>1 DEF CodexInv, Requesting
<1>3. aGen' \in {aGen, gen}
  BY <1>1
<1>4. Connected'
  <2>1. CASE started /\ aGen' = gen /\ aStarted' = TRUE /\ UNCHANGED boot
    <3>1. gen \in Nat /\ gen <= gen
      BY DEF CodexInv, Connected
    <3>2. boot \in {"hello", "greeted", "up"}
      BY <2>1 DEF CodexInv, Connected
    <3> QED
      BY <1>1, <2>1, <3>1, <3>2 DEF CodexInv, Connected
  <2>2. CASE UNCHANGED <<aGen, aStarted, boot>>
    BY <1>1, <2>2 DEF CodexInv, Connected
  <2>3. CASE ~started /\ StartsConnection /\ UNCHANGED <<aGen, aStarted>>
    <3>1. boot' = boot \/ (boot = "down" /\ boot' = "spawning")
      BY <2>3 DEF StartsConnection
    <3> QED
      BY <1>1, <2>3, <3>1 DEF CodexInv, Connected, Boots
  <2> QED
    BY <1>1, <2>1, <2>2, <2>3
<1>5. Wires(toServer', toClient', call', req', resumed')
  <2>1. req[c] = NoRequest
    BY <1>1 DEF CodexInv, Requesting, Calling
  <2>2. Wires(toServer, toClient, call, req, resumed)
    BY DEF CodexInv, Requesting
  <2>3. Silent(c, toServer, toClient)
    BY <2>1, <2>2, SilentUnlessSent DEF NoRequest
  <2>0. PICK K, R : K = call' /\ R = req'
    OBVIOUS
  <2>4. \A d \in Calls \ {c} : K[d] = call[d] /\ R[d] = req[d]
    BY <1>2, <2>0
  <2>5. Wires(toServer, toClient, K, R, resumed)
    BY <2>2, <2>3, <2>4, WiresGoOn
  <2> QED
    BY <1>1, <2>0, <2>5
<1>6. Calling(c, record, r)
  <2>1. r.at \in {"connected", "queued"} /\ DOMAIN r = {"at"}
    OBVIOUS
  <2> QED
    BY <2>1 DEF Calling, Awaits, Waits
<1>7. Requesting'
  <2>1. \A t \in Threads : Subscribing(t)'
    <3>1. ASSUME NEW t \in Threads
          PROVE  Subscribing(t)'
      <4>1. Subscribing(t) /\ aGen \in Nat /\ aGen' \in Nat /\ aGen <= aGen'
        BY <1>1 DEF CodexInv, Requesting, Connected
      <4>2. Discovery # c => call'[Discovery] = call[Discovery]
        BY <1>2, CodexAssumption
      <4>3. ~Resuming(call[c])
        BY <1>1 DEF Resuming, Idle
      <4> QED
        BY <1>1, <4>1, <4>2, <4>3 DEF Subscribing
    <3> QED
      BY <3>1
  <2>2. sub' = [t \in Threads |-> sub'[t]]
    BY <1>1 DEF CodexInv, Requesting
  <2>3. \A d \in Calls : \/ call'[d] = call[d] /\ req'[d] = req[d]
                         \/ Calling(d, call'[d], req'[d])
    BY <1>2, <1>6
  <2> QED
    BY <1>1, <1>2, <1>3, <1>5, <2>1, <2>2, <2>3, RequestsKept
<1>8. Approving'
  <2>1. \A d \in Calls : call'[d].op = "decide" =>
           call'[d] = call[d] \/ call'[d].as \in shown \cup {AnyApproval}
    BY <1>2
  <2>2. Fewer(toClient', toClient)
    BY <1>1 DEF Fewer
  <2> QED
    BY <1>1, <1>3, <2>1, <2>2, ApprovalsKept
<1> QED
  BY <1>4, <1>7, <1>8 DEF CodexInv

\* The calls that may begin.
LEMMA BeginsInv ==
  ASSUME CodexInv, UNCHANGED control,
         \/ DiscoverBegins
         \/ \E c \in Calls \ {Discovery}, t \in Threads :
               \/ TurnCallBegins(c, "prompt", t) \/ TurnCallBegins(c, "interrupt", t)
               \/ DecisionBegins(c, t)
  PROVE  CodexInv'
<1>1. CASE DiscoverBegins
  <2> DEFINE k == [op |-> "discover", at |-> "start"]
  <2>1. Begin(Discovery, k)
    BY <1>1 DEF DiscoverBegins
  <2>2. k.op = "discover" /\ k.at = "start"
    OBVIOUS
  <2> HIDE DEF k
  <2>3. Remembers(Discovery, k) /\ k # Idle /\ ~Resuming(k)
    BY <2>2 DEF Remembers, Discovers, Idle, Resuming
  <2> QED
    BY <2>1, <2>2, <2>3, BeginInv, CodexAssumption
<1>2. ASSUME NEW c \in Calls, NEW t \in Threads, NEW op \in {"prompt", "interrupt"},
             TurnCallBegins(c, op, t)
      PROVE  CodexInv'
  <2> DEFINE k == [op |-> op, at |-> "start", thread |-> t, gen |-> Unbound, wrote |-> 0]
  <2>1. Begin(c, k)
    BY <1>2 DEF TurnCallBegins
  <2>2. /\ k.op = op /\ k.at = "start" /\ k.gen = 0 /\ k.wrote = 0
        /\ DOMAIN k = {"op", "at", "thread", "gen", "wrote"}
    BY DEF Unbound
  <2> HIDE DEF k
  <2>3. Remembers(c, k) /\ k # Idle /\ ~Resuming(k) /\ k.op # "decide"
    BY <2>2 DEF Remembers, Turning, Idle, Resuming
  <2> QED
    BY <2>1, <2>3, BeginInv
<1>3. ASSUME NEW c \in Calls, NEW t \in Threads, DecisionBegins(c, t)
      PROVE  CodexInv'
  <2>1. PICK s \in shown \cup {AnyApproval} :
            Begin(c, [op |-> "decide", at |-> "start", thread |-> t, as |-> s])
    BY <1>3 DEF DecisionBegins
  <2> DEFINE k == [op |-> "decide", at |-> "start", thread |-> t, as |-> s]
  <2>2. Begin(c, k)
    BY <2>1
  <2>3. k.op = "decide" /\ k.as = s
    OBVIOUS
  <2> HIDE DEF k
  <2>4. Remembers(c, k) /\ k # Idle /\ ~Resuming(k)
    BY <2>3 DEF Remembers, Idle, Resuming
  <2> QED
    BY <2>2, <2>3, <2>4, BeginInv
<1> QED
  BY <1>1, <1>2, <1>3

-----------------------------------------------------------------------------
\* Decisions.

\* A decision that is written answers what was asked on this connection, once,
\* and as it was shown.
LEMMA TellKeeps ==
  ASSUME CodexInv, UNCHANGED <<control, gen, started, aGen, toClient, asked, shown>>,
         NEW e \in approvals, approvals' = approvals \ {e}, NEW as, Tell(e, as),
         as = View(e) \/ (Seen(as) /\ as.aid = e.aid /\ e.actionable), started,
         \A c \in Calls : call'[c].op = "decide" => call'[c] = call[c]
  PROVE  Approving'
<1> USE DEF CodexInv
<1>0. PICK d : d = [gen |-> gen, raw |-> e.raw, as |-> as, context |-> e.context]
  OBVIOUS
<1>1. told' = Append(told, d)
  BY <1>0 DEF Tell
<1>2. /\ Pending(e) /\ ~OnItsWay(toClient, e.raw)
      /\ \A f \in approvals : f.raw = e.raw => f = e
  BY DEF Approving
<1>3. Raws' = Raws /\ Numbered'
  BY DEF Approving, Raws, Numbered
<1>4. control => as.gen = gen /\ as.raw = e.raw /\ (as.context # NoContext => as.context = e.context)
  <2>1. CASE as = View(e)
    BY <1>2, <2>1 DEF Pending, View
  <2>2. CASE Seen(as) /\ as.aid = e.aid /\ e.actionable
    <3> SUFFICES ASSUME control
                 PROVE  as.gen = gen /\ as.raw = e.raw /\ (as.context # NoContext => as.context = e.context)
      OBVIOUS
    <3>1. e.aid = <<gen, e.raw>> /\ ~e.invalidated
      BY <1>2, <2>2 DEF Pending, ApprovalId
    <3>2. as.aid = <<as.gen, as.raw>>
      BY <2>2 DEF Seen
    <3>3. as.gen = gen /\ as.raw = e.raw
      <4>1. <<as.gen, as.raw>> = <<gen, e.raw>>
        BY <2>2, <3>1, <3>2
      <4> QED
        BY <4>1
    <3> QED
      BY <2>2, <3>1, <3>3 DEF Seen
  <2> QED
    BY <2>1, <2>2
<1>5. /\ d.gen = gen /\ d.raw = e.raw /\ d.as = as /\ d.context = e.context
  BY <1>0
<1>6. IsQueue(told) /\ ToldOnce(told) /\ \A x \in Elems(told) : Told(x)
  BY DEF Approving
<1>7. /\ IsQueue(told') /\ Elems(told') = Elems(told) \cup {d}
      /\ DOMAIN told = 1..Len(told) /\ Len(told) \in Nat /\ DOMAIN told' = 1..(Len(told) + 1)
      /\ told'[Len(told) + 1] = d /\ \A n \in DOMAIN told : told'[n] = told[n]
  BY <1>1, <1>6, Joined
<1>8. ASSUME NEW x, Told(x)
      PROVE  Told(x)' /\ x.raw # d.raw
  BY <1>2, <1>3, <1>5, <1>8 DEF Told
<1>9. Told(d)'
  <2>1. d.gen = gen /\ d.raw \in Raws /\ ~OnItsWay(toClient, d.raw)
    BY <1>2, <1>5 DEF Pending
  <2>2. \A f \in approvals \ {e} : f.raw # d.raw
    BY <1>2, <1>5
  <2>3. control => d.as.gen = d.gen /\ d.as.raw = d.raw /\ (d.as.context # NoContext => d.as.context = d.context)
    BY <1>4, <1>5
  <2> QED
    BY <1>3, <2>1, <2>2, <2>3 DEF Told
<1>10. ToldOnce(told')
  <2>1. \A n \in DOMAIN told : told[n].raw # d.raw
    BY <1>6, <1>8 DEF Elems
  <2>2. \A n \in DOMAIN told' : n = Len(told) + 1 \/ n \in DOMAIN told
    BY <1>7
  <2> QED
    BY <1>6, <1>7, <2>1, <2>2 DEF ToldOnce
<1>11. ASSUME NEW s, Seen(s)
       PROVE  Seen(s)'
  BY <1>3, <1>11 DEF Seen
<1>12. ASSUME NEW f \in approvals
       PROVE  Pending(f)'
  <2>1. Pending(f)
    BY DEF Approving
  <2> QED
    BY <1>3, <2>1 DEF Pending, ApprovalId
<1>13. ASSUME NEW c \in Calls, call'[c].op = "decide"
       PROVE  (call[c].as = AnyApproval \/ Seen(call[c].as))'
  <2>1. call'[c] = call[c]
    BY <1>13
  <2>2. call[c].as = AnyApproval \/ Seen(call[c].as)
    BY <1>13, <2>1 DEF Approving
  <2>3. PICK s : s = call[c].as
    OBVIOUS
  <2>4. s = AnyApproval \/ Seen(s)'
    BY <1>11, <2>2, <2>3
  <2> QED
    BY <2>1, <2>3, <2>4 DEF Seen, AnyApproval
<1>14. (\A x \in Elems(told) : Told(x))' /\ (\A s \in shown : Seen(s))'
  BY <1>6, <1>7, <1>8, <1>9, <1>11 DEF Approving
<1>15. (\A f \in approvals : Pending(f) /\ ~OnItsWay(toClient, f.raw))'
  BY <1>12 DEF Approving
<1> QED
  BY <1>3, <1>7, <1>10, <1>13, <1>14, <1>15 DEF Approving

\* A message that nobody awaits an answer to is written.
LEMMA WiresWrite ==
  ASSUME NEW s, NEW q, NEW K, NEW R, NEW res, Wires(s, q, K, R, res),
         NEW m, Message(m), m.call = NoCall
  PROVE  Wires(Append(s, m), q, K, R, res)
<1>1. IsQueue(s)
  BY DEF Wires
<1> DEFINE a == Append(s, m)
<1>2. IsQueue(a) /\ Elems(a) = Elems(s) \cup {m}
  BY <1>1, Joined
<1>3. ASSUME NEW d \in Calls
      PROVE  OneFor(a, d) /\ m.call # d
  <2>1. OneFor(s, d) /\ m.call # d
    BY NoCallAssumption DEF Wires, InFlight
  <2> QED
    BY <1>1, <2>1, OneForJoined
<1> HIDE DEF a
<1>4. ASSUME NEW d \in Calls
      PROVE  InFlight(d, a, q, K[d], R[d], res)
  <2>1. InFlight(d, s, q, K[d], R[d], res)
    BY DEF Wires
  <2> QED
    BY <1>2, <1>3, <2>1 DEF InFlight
<1> QED
  BY <1>2, <1>4 DEF Wires, a

\* The wires when a decision is written.
LEMMA TellWires ==
  ASSUME NEW s, NEW q, NEW K, NEW R, NEW res, Wires(s, q, K, R, res), NEW e
  PROVE  Wires(Append(s, [kind |-> "decision", call |-> NoCall, raw |-> e.raw]), q, K, R, res)
<1>1. PICK m : m = [kind |-> "decision", call |-> NoCall, raw |-> e.raw]
  OBVIOUS
<1>2. Message(m) /\ m.call = NoCall
  BY <1>1 DEF Message
<1> QED
  BY <1>1, <1>2, WiresWrite

\* The decision of a client, when the approval is still the one it was shown.
LEMMA DecisionEntersInv ==
  ASSUME CodexInv, UNCHANGED control, NEW c \in Calls, DecisionEnters(c)
  PROVE  CodexInv'
<1>1. /\ call[c].op = "decide" /\ req[c].at = "connected"
      /\ call' = [call EXCEPT ![c] = Idle] /\ req' = [req EXCEPT ![c] = NoRequest]
      /\ UNCHANGED <<gen, started, boot, toClient, aGen, aStarted, sub, shown, asked, resumed>>
  BY DEF DecisionEnters, Entered, serverVars
<1>2. \/ UNCHANGED <<toServer, told, approvals>>
      \/ \E e \in Decidable(c) :
            /\ Tell(e, IF call[c].as = AnyApproval THEN View(e) ELSE call[c].as)
            /\ approvals' = approvals \ {e}
  BY DEF DecisionEnters, Spends
<1>3. /\ call' = [d \in Calls |-> call'[d]] /\ req' = [d \in Calls |-> req'[d]]
      /\ call'[c] = Idle /\ req'[c] = NoRequest
      /\ \A d \in Calls \ {c} : call'[d] = call[d] /\ req'[d] = req[d]
  BY <1>1 DEF CodexInv, Requesting
<1>4. Wires(toServer, toClient, call', req', resumed)
  <2>1. Wires(toServer, toClient, call, req, resumed)
    BY DEF CodexInv, Requesting
  <2>2. Silent(c, toServer, toClient)
    BY <1>1, <2>1, SilentUnlessSent
  <2>3. PICK K, R : K = call' /\ R = req'
    OBVIOUS
  <2>4. \A d \in Calls \ {c} : K[d] = call[d] /\ R[d] = req[d]
    BY <1>3, <2>3
  <2>5. Wires(toServer, toClient, K, R, resumed)
    BY <2>1, <2>2, <2>4, WiresGoOn
  <2> QED
    BY <2>3, <2>5
<1>5. \A d \in Calls : call'[d].op = "decide" => call'[d] = call[d]
  BY <1>3 DEF Idle
<1>6. Fewer(toClient', toClient)
  BY <1>1 DEF Fewer
<1>7. /\ Approving' /\ Wires(toServer', toClient', call', req', resumed')
      /\ approvals' \subseteq approvals
      /\ ~started => toServer' = toServer /\ told' = told
  <2>1. CASE UNCHANGED <<toServer, told, approvals>>
    <3>1. Approving'
      BY <1>1, <1>5, <1>6, <2>1, ApprovalsKept
    <3> QED
      BY <1>1, <1>4, <2>1, <3>1
  <2>2. ASSUME NEW e \in Decidable(c), approvals' = approvals \ {e},
               Tell(e, IF call[c].as = AnyApproval THEN View(e) ELSE call[c].as)
        PROVE  Approving' /\ Wires(toServer', toClient', call', req', resumed') /\ started
    <3> DEFINE as == IF call[c].as = AnyApproval THEN View(e) ELSE call[c].as
    <3>0. PICK w : w = as
      OBVIOUS
    <3>1. /\ e \in approvals /\ e.actionable /\ started
          /\ call[c].as # AnyApproval => e.aid = call[c].as.aid
      BY <2>2 DEF Decidable, Of
    <3>2. call[c].as = AnyApproval \/ Seen(call[c].as)
      BY <1>1 DEF CodexInv, Approving
    <3>3. w = View(e) \/ (Seen(w) /\ w.aid = e.aid)
      BY <3>0, <3>1, <3>2
    <3>4. Tell(e, w)
      BY <2>2, <3>0
    <3> HIDE DEF as
    <3>5. Approving'
      BY <1>1, <1>5, <2>2, <3>1, <3>3, <3>4, TellKeeps
    <3>6. PICK K, R : K = call' /\ R = req'
      OBVIOUS
    <3>7. Wires(Append(toServer, [kind |-> "decision", call |-> NoCall, raw |-> e.raw]),
                toClient, K, R, resumed)
      BY <1>4, <3>6, TellWires
    <3> QED
      BY <1>1, <3>1, <3>4, <3>5, <3>6, <3>7 DEF Tell
  <2> QED
    BY <1>2, <2>1, <2>2
<1>8. Connected'
  <2>1. ~started => toServer' = <<>> /\ toClient' = <<>> /\ told' = <<>> /\ approvals' = {}
    BY <1>1, <1>7 DEF CodexInv, Connected
  <2> QED
    BY <1>1, <2>1, ConnectionKept
<1>9. Requesting'
  <2>1. Calling(c, Idle, NoRequest)
    BY DEF Calling, Remembers, NoRequest, Awaits, Idle, Resuming
  <2>2. \A d \in Calls : \/ call'[d] = call[d] /\ req'[d] = req[d]
                         \/ Calling(d, call'[d], req'[d])
    BY <1>3, <2>1
  <2>3. sub' = [t \in Threads |-> sub'[t]]
    BY <1>1 DEF CodexInv, Requesting
  <2>4. ASSUME NEW t \in Threads
        PROVE  Subscribing(t)'
    <3>1. Subscribing(t) /\ (Discovery # c => call'[Discovery] = call[Discovery])
      BY <1>3, CodexAssumption DEF CodexInv, Requesting
    <3> QED
      BY <1>1, <3>1 DEF Subscribing, Resuming
  <2> QED
    BY <1>1, <1>3, <1>7, <2>2, <2>3, <2>4, RequestsKept
<1> QED
  BY <1>7, <1>8, <1>9 DEF CodexInv

\* The timer of an approval.
LEMMA ExpiresInv ==
  ASSUME CodexInv, UNCHANGED control, NEW e \in approvals, Expires(e)
  PROVE  CodexInv'
<1>1. /\ approvals' = approvals \ {e}
      /\ UNCHANGED <<gen, started, boot, req, toClient, aGen, aStarted, sub, call, shown, asked, resumed>>
      /\ \/ UNCHANGED <<toServer, told>>
         \/ started /\ Tell(e, View(e))
  BY DEF Expires, serverVars
<1>2. Wires(toServer, toClient, call, req, resumed)
  BY DEF CodexInv, Requesting
<1>3. /\ Approving' /\ Wires(toServer', toClient', call', req', resumed')
      /\ ~started => toServer' = toServer /\ told' = told
  <2>1. CASE UNCHANGED <<toServer, told>>
    <3>1. Fewer(toClient', toClient)
      BY <1>1 DEF Fewer
    <3>2. Approving'
      BY <1>1, <2>1, <3>1, ApprovalsKept
    <3> QED
      BY <1>1, <1>2, <2>1, <3>2
  <2>2. CASE started /\ Tell(e, View(e))
    <3>1. Approving'
      BY <1>1, <2>2, TellKeeps
    <3>2. Wires(Append(toServer, [kind |-> "decision", call |-> NoCall, raw |-> e.raw]),
                toClient, call, req, resumed)
      BY <1>2, TellWires
    <3> QED
      BY <1>1, <2>2, <3>1, <3>2 DEF Tell
  <2> QED
    BY <1>1, <2>1, <2>2
<1>4. Connected'
  <2>1. ~started => toServer' = <<>> /\ toClient' = <<>> /\ told' = <<>> /\ approvals' = {}
    BY <1>1, <1>3 DEF CodexInv, Connected
  <2> QED
    BY <1>1, <2>1, ConnectionKept
<1>5. Requesting'
  <2>1. (\A t \in Threads : Subscribing(t)') /\ sub' = [t \in Threads |-> sub'[t]]
    BY <1>1, SubscriptionsKept
  <2>2. call' = [c \in Calls |-> call'[c]] /\ req' = [c \in Calls |-> req'[c]]
    BY <1>1 DEF CodexInv, Requesting
  <2> QED
    BY <1>1, <1>3, <2>1, <2>2, RequestsKept
<1> QED
  BY <1>3, <1>4, <1>5 DEF CodexInv

-----------------------------------------------------------------------------
\* The connection.

\* A request that waited for the connection is written, or fails with it.
LEMMA WriteQueuedInv ==
  ASSUME CodexInv, UNCHANGED control, NEW c \in Calls, WriteQueued(c),
         UNCHANGED <<adapterVars, call, histories, serverVars>>
  PROVE  CodexInv'
<1> USE DEF CodexInv
<1>1. /\ req[c].at = "connected" /\ "msg" \in DOMAIN req[c]
      /\ UNCHANGED <<gen, started, boot, toClient, aGen, aStarted, sub, approvals, call,
                     shown, told, resumed, asked>>
      /\ \/ /\ started /\ req' = [req EXCEPT ![c] = Sent]
            /\ toServer' = Append(toServer, req[c].msg)
         \/ ~started /\ req' = [req EXCEPT ![c] = Failed] /\ UNCHANGED toServer
  BY DEF WriteQueued, adapterVars, histories, serverVars
<1>2. /\ call' = [call EXCEPT ![c] = call'[c]] /\ call'[c] = call[c]
      /\ req' = [req EXCEPT ![c] = req'[c]]
      /\ \A d \in Calls \ {c} : call'[d] = call[d] /\ req'[d] = req[d]
  BY <1>1 DEF Requesting
<1>3. /\ Calling(c, call[c], req[c]) /\ call[c] # Idle
      /\ Message(req[c].msg) /\ req[c].msg.call = c /\ Fits(call[c], req[c].msg)
  BY <1>1 DEF Requesting, Calling, Waits, NoRequest
<1>0. PICK K, R : K = call' /\ R = req'
  OBVIOUS
<1>4. Wires(toServer, toClient, K, R, resumed) /\ Silent(c, toServer, toClient)
  <2>1. Wires(toServer, toClient, call, req, resumed)
    BY DEF Requesting
  <2>2. Silent(c, toServer, toClient)
    BY <1>1, <2>1, SilentUnlessSent
  <2>3. \A d \in Calls \ {c} : K[d] = call[d] /\ R[d] = req[d]
    BY <1>0, <1>2
  <2> QED
    BY <2>1, <2>2, <2>3, WiresGoOn
<1>5. Moves(c)
  <2>1. CASE started /\ req' = [req EXCEPT ![c] = Sent] /\ toServer' = Append(toServer, req[c].msg)
    <3>1. req'[c] = Sent /\ Sent.at = "sent"
      BY <2>1 DEF Requesting, Sent
    <3>2. Calling(c, call[c], Sent)
      BY <1>3, <2>1, <3>1 DEF Calling, Awaits
    <3>3. PICK m : m = req[c].msg
      OBVIOUS
    <3>4. Message(m) /\ m.call = c /\ Fits(K[c], m) /\ R[c].at = "sent"
      BY <1>0, <1>2, <1>3, <3>1, <3>3
    <3>5. Wires(Append(toServer, m), toClient, K, R, resumed)
      BY <1>4, <3>4, WiresSend
    <3> QED
      BY <1>0, <1>1, <1>2, <2>1, <3>1, <3>2, <3>3, <3>5 DEF Moves
  <2>2. CASE ~started /\ req' = [req EXCEPT ![c] = Failed] /\ UNCHANGED toServer
    <3>1. req'[c] = Failed
      BY <2>2 DEF Requesting
    <3>2. Calling(c, call[c], Failed)
      BY <1>3 DEF Calling, Failed, Awaits
    <3>3. toServer = <<>>
      BY <2>2 DEF Connected
    <3> QED
      BY <1>0, <1>1, <1>2, <1>4, <2>2, <3>1, <3>2, <3>3 DEF Moves
  <2> QED
    BY <1>1, <2>1, <2>2
<1>6. (\A t \in Threads : Subscribing(t)') /\ sub' = [t \in Threads |-> sub'[t]]
  BY <1>1, SubscriptionsKept
<1> QED
  BY <1>1, <1>2, <1>5, <1>6, MovesKeep

\* The timer of a request.
LEMMA TimesOutInv ==
  ASSUME CodexInv, UNCHANGED control, NEW c \in Calls, TimesOut(c),
         UNCHANGED <<adapterVars, call, histories, serverVars>>
  PROVE  CodexInv'
<1> USE DEF CodexInv
<1>1. /\ req[c].at = "sent" /\ req' = [req EXCEPT ![c] = Failed]
      /\ toServer' = Unawaited(toServer, c) /\ toClient' = Unanswered(toClient, c)
      /\ UNCHANGED <<gen, started, boot, aGen, aStarted, sub, approvals, call,
                     shown, told, resumed, asked>>
  BY DEF TimesOut, adapterVars, histories, serverVars
<1>2. /\ req' = [d \in Calls |-> req'[d]] /\ req'[c] = Failed
      /\ \A d \in Calls \ {c} : req'[d] = req[d]
  BY <1>1 DEF Requesting
<1>3. Wires(toServer, toClient, call, req, resumed) /\ Calling(c, call[c], req[c])
  BY DEF Requesting
<1>4. PICK s, q : s = Unawaited(toServer, c) /\ q = Unanswered(toClient, c)
  OBVIOUS
<1>5. Wires(s, q, call, req, resumed) /\ Silent(c, s, q) /\ Fewer(q, toClient)
  BY <1>3, <1>4, WiresDropped
<1>6. Wires(toServer', toClient', call', req', resumed')
  <2>1. PICK R : R = req'
    OBVIOUS
  <2>2. \A d \in Calls \ {c} : call[d] = call[d] /\ R[d] = req[d]
    BY <1>2, <2>1
  <2>3. Wires(s, q, call, R, resumed)
    BY <1>5, <2>2, WiresGoOn
  <2> QED
    BY <1>1, <1>4, <2>1, <2>3
<1>7. Connected'
  <2>1. started
    BY <1>1, <1>3 DEF Calling
  <2> QED
    BY <1>1, <2>1, ConnectionKept
<1>8. Requesting'
  <2>1. (\A t \in Threads : Subscribing(t)') /\ sub' = [t \in Threads |-> sub'[t]]
    BY <1>1, SubscriptionsKept
  <2>2. Calling(c, call[c], Failed)
    BY <1>1, <1>3 DEF Calling, Failed, Awaits, NoRequest
  <2>3. call' = [d \in Calls |-> call'[d]]
    BY <1>1 DEF Requesting
  <2>4. \A d \in Calls : \/ call'[d] = call[d] /\ req'[d] = req[d]
                         \/ Calling(d, call'[d], req'[d])
    BY <1>1, <1>2, <2>2
  <2> QED
    BY <1>1, <1>2, <1>6, <2>1, <2>3, <2>4, RequestsKept
<1>9. Approving'
  <2>1. Fewer(toClient', toClient)
    BY <1>1, <1>4, <1>5
  <2> QED
    BY <1>1, <2>1, ApprovalsKept
<1> QED
  BY <1>7, <1>8, <1>9

\* An answer is delivered to the call that awaits it.
LEMMA TakeAnswerInv ==
  ASSUME CodexInv, UNCHANGED control, TakeAnswer,
         UNCHANGED <<adapterVars, call, histories, serverVars>>
  PROVE  CodexInv'
<1> USE DEF CodexInv
<1>0. PICK m : m = Head(toClient)
  OBVIOUS
<1>1. /\ toClient # <<>> /\ toClient' = Tail(toClient)
      /\ UNCHANGED <<gen, started, toServer, aGen, aStarted, sub, approvals, call,
                     shown, told, resumed, asked>>
      /\ \/ boot = "hello" /\ boot' = "greeted" /\ UNCHANGED req
         \/ /\ m.kind = "answer" /\ UNCHANGED boot
            /\ req' = [req EXCEPT ![m.call] = IF m.ok THEN Answered(m.body) ELSE Failed]
  BY <1>0 DEF TakeAnswer, Chunk, adapterVars, histories, serverVars
<1>2. Wires(toServer, toClient, call, req, resumed)
  BY DEF Requesting
<1>3. PICK q : q = Tail(toClient)
  OBVIOUS
<1>4. /\ Wires(toServer, q, call, req, resumed)
      /\ m.kind = "answer" <=> m.call \in Calls
      /\ \A c \in Calls : m.call = c =>
           /\ Silent(c, toServer, q) /\ req[c].at = "sent"
           /\ m.ok /\ Resuming(call[c]) => call[c].thread \in resumed
  BY <1>0, <1>1, <1>2, <1>3, WiresDelivered
<1>5. Fewer(toClient', toClient)
  <2>1. IsQueue(toClient) /\ IsQueue(q)
    BY <1>2, <1>4 DEF Wires
  <2>2. InOrder(q, toClient) /\ Elems(q) \subseteq Elems(toClient)
    BY <1>1, <1>3, <2>1, Taken
  <2> QED
    BY <1>1, <1>3, <2>1, <2>2, FewerKept
<1>6. Connected'
  <2>1. started
    BY <1>1 DEF Connected
  <2>2. CASE UNCHANGED boot
    BY <1>1, <2>1, <2>2, ConnectionKept
  <2>3. CASE boot = "hello" /\ boot' = "greeted"
    BY <1>1, <2>1, <2>3 DEF Connected, Boots
  <2> QED
    BY <1>1, <2>2, <2>3
<1>7. /\ req' = [c \in Calls |-> req'[c]]
      /\ Wires(toServer', toClient', call', req', resumed')
      /\ \A c \in Calls : req'[c] = req[c] \/ Calling(c, call[c], req'[c])
  <2>1. CASE UNCHANGED req
    BY <1>1, <1>3, <1>4, <2>1 DEF Requesting
  <2>2. CASE /\ m.kind = "answer"
             /\ req' = [req EXCEPT ![m.call] = IF m.ok THEN Answered(m.body) ELSE Failed]
    <3> PICK c \in Calls : c = m.call
      BY <1>4, <2>2
    <3>1. /\ Silent(c, toServer, q) /\ req[c].at = "sent"
          /\ m.ok /\ Resuming(call[c]) => call[c].thread \in resumed
      BY <1>4
    <3>2. /\ req' = [d \in Calls |-> req'[d]] /\ \A d \in Calls \ {c} : req'[d] = req[d]
          /\ req'[c] = IF m.ok THEN Answered(m.body) ELSE Failed
      BY <2>2 DEF Requesting
    <3>3. PICK R : R = req'
      OBVIOUS
    <3>4. \A d \in Calls \ {c} : call[d] = call[d] /\ R[d] = req[d]
      BY <3>2, <3>3
    <3>5. Wires(toServer, q, call, R, resumed)
      BY <1>4, <3>1, <3>4, WiresGoOn
    <3>6. Calling(c, call[c], req'[c])
      <4>1. Calling(c, call[c], req[c])
        BY DEF Requesting
      <4>2. Remembers(c, call[c]) /\ call[c] # Idle
        BY <3>1, <4>1 DEF Calling, NoRequest
      <4>3. req'[c].at \in {"answered", "failed"} /\ (req'[c].at = "answered" => m.ok)
        BY <3>2 DEF Answered, Failed
      <4> QED
        BY <3>1, <4>2, <4>3 DEF Calling, Awaits
    <3> QED
      BY <1>1, <1>3, <3>2, <3>3, <3>5, <3>6
  <2> QED
    BY <1>1, <2>1, <2>2
<1>8. Requesting'
  <2>1. (\A t \in Threads : Subscribing(t)') /\ sub' = [t \in Threads |-> sub'[t]]
    BY <1>1, SubscriptionsKept
  <2>2. call' = [d \in Calls |-> call'[d]]
    BY <1>1 DEF Requesting
  <2>3. \A c \in Calls : \/ call'[c] = call[c] /\ req'[c] = req[c]
                         \/ Calling(c, call'[c], req'[c])
    BY <1>1, <1>7
  <2> QED
    BY <1>1, <1>7, <2>1, <2>2, <2>3, RequestsKept
<1>9. Approving'
  BY <1>1, <1>5, ApprovalsKept
<1> QED
  BY <1>6, <1>8, <1>9

\* Without a connection nothing is under way, and no call counts on one.
LEMMA NoConnection ==
  ASSUME CodexInv, ~started
  PROVE  /\ toServer = <<>> /\ toClient = <<>> /\ approvals = {} /\ asked = {} /\ told = <<>>
         /\ ~aStarted /\ \A c \in Calls : req[c].at # "sent"
<1>1. aStarted => started
  BY DEF CodexInv, Connected
<1>2. ASSUME NEW c \in Calls
      PROVE  req[c].at # "sent"
  BY DEF CodexInv, Requesting, Calling
<1> QED
  BY <1>1, <1>2 DEF CodexInv, Connected

\* A process is started, or the connection to a shared server: another
\* generation than any that is remembered.
LEMMA OpensInv ==
  ASSUME CodexInv, UNCHANGED control, Spawned \/ WireOpens,
         UNCHANGED <<adapterVars, call, histories, serverVars>>
  PROVE  CodexInv'
<1> USE DEF CodexInv
<1>1. /\ Task /\ boot \in {"spawning", "wiring"}
      /\ UNCHANGED <<req, toClient, aGen, aStarted, sub, approvals, call, shown, told,
                     resumed, asked>>
      /\ \/ gen' = gen + 1 /\ boot' = "wiring" /\ UNCHANGED <<started, toServer>>
         \/ gen' = gen + 1 /\ Opened
         \/ boot = "wiring" /\ UNCHANGED gen /\ Opened
  BY DEF Spawned, WireOpens, adapterVars, histories, serverVars
<1>2. ~started
  <2>1. boot \notin {"hello", "greeted", "up"}
    BY <1>1
  <2> QED
    BY <2>1 DEF Connected
<1>3. /\ toServer = <<>> /\ toClient = <<>> /\ approvals = {} /\ asked = {} /\ told = <<>>
      /\ ~aStarted
  BY <1>2, NoConnection
<1>4. /\ gen \in Nat /\ aGen \in Nat /\ aGen <= gen
      /\ gen' \in Nat /\ aGen < gen' /\ gen' > 0
  BY <1>1 DEF Connected
<1>5. \/ started' = TRUE /\ boot' = "hello" /\ toServer' = <<Greeting>>
      \/ started' = FALSE /\ boot' = "wiring" /\ toServer' = <<>>
  <2>1. started = FALSE
    BY <1>2 DEF Connected
  <2> QED
    BY <1>1, <1>3, <2>1 DEF Opened
<1>6. Connected'
  <2>1. control \in BOOLEAN /\ aStarted' = FALSE
    BY <1>1, <1>3 DEF Connected
  <2>2. aGen' \in Nat /\ gen' \in Nat /\ aGen' < gen' /\ aGen' <= gen' /\ gen' > 0
    BY <1>1, <1>4
  <2>3. (control \in BOOLEAN)' /\ toClient' = <<>> /\ approvals' = {} /\ asked' = {} /\ told' = <<>>
    BY <1>1, <1>3, <2>1
  <2>4. CASE started' = TRUE /\ boot' = "hello"
    BY <2>1, <2>2, <2>3, <2>4 DEF Connected, Boots
  <2>5. CASE started' = FALSE /\ boot' = "wiring" /\ toServer' = <<>>
    <3>1. (started' <=> boot' \in {"hello", "greeted", "up"}) /\ boot' \in Boots
      <4>1. boot' \notin {"hello", "greeted", "up"} /\ boot' \in Boots
        BY <2>5 DEF Boots
      <4> QED
        BY <2>5, <4>1
    <3> QED
      BY <2>1, <2>2, <2>3, <2>5, <3>1 DEF Connected
  <2> QED
    BY <1>5, <2>4, <2>5
<1>7. Wires(toServer', toClient', call', req', resumed')
  <2>1. Wires(<<>>, <<>>, call, req, resumed)
    BY WiresGone
  <2>2. IsQueue(<<>>)
    BY <2>1 DEF Wires
  <2>3. PICK m : m = Greeting
    OBVIOUS
  <2>4. Message(m) /\ m.call = NoCall
    BY <2>3 DEF Greeting, Message
  <2>5. Wires(Append(<<>>, m), <<>>, call, req, resumed)
    BY <2>1, <2>4, WiresWrite
  <2>6. Append(<<>>, m) = <<Greeting>>
    BY <2>3
  <2>7. Wires(<<Greeting>>, <<>>, call, req, resumed)
    BY <2>5, <2>6
  <2>8. CASE toServer' = <<>>
    BY <1>1, <1>3, <2>1, <2>8 DEF Wires, InFlight, Fits
  <2>9. CASE toServer' = <<Greeting>>
    BY <1>1, <1>3, <2>7, <2>9
  <2> QED
    BY <1>5, <2>8, <2>9
<1>8. Requesting'
  <2>1. ASSUME NEW c \in Calls
        PROVE  Calling(c, call[c], req[c])'
    <3>1. Calling(c, call[c], req[c]) /\ req[c].at # "answered" /\ req[c].at # "sent"
      BY <1>1, <1>2, NoConnection DEF Requesting, Task, Pausing, Settled
    <3>2. Remembers(c, call[c])'
      BY <1>1, <3>1 DEF Calling, Remembers, Discovers, Turning
    <3>3. Waits(c, call[c], req[c]) => Waits(c, call[c], req[c])'
      BY <1>1 DEF Waits, Fits, Resuming
    <3> QED
      BY <1>1, <3>1, <3>2, <3>3 DEF Calling
  <2>2. ASSUME NEW t \in Threads
        PROVE  Subscribing(t)'
    <3>1. sub[t] \in Nat /\ sub[t] <= aGen
      BY DEF Requesting, Subscribing
    <3> QED
      BY <1>1, <1>4, <3>1 DEF Subscribing
  <2>3. /\ req' = [c \in Calls |-> req'[c]] /\ call' = [c \in Calls |-> call'[c]]
        /\ sub' = [t \in Threads |-> sub'[t]]
    BY <1>1 DEF Requesting
  <2>4. Wires(toServer, toClient, call, req, resumed)'
    <3>1. \A m \in Elems(toServer') : m.call \notin Calls
      <4>1. Elems(<<>>) = {} /\ Elems(<<Greeting>>) = {Greeting} /\ Greeting.call = NoCall
        BY DEF Elems, Greeting
      <4> QED
        BY <1>5, <4>1, NoCallAssumption
    <3>2. \A x \in Elems(toClient') : FALSE
      BY <1>1, <1>3 DEF Elems
    <3> QED
      BY <1>7, <3>1, <3>2 DEF Wires, InFlight
  <2> QED
    BY <2>1, <2>2, <2>3, <2>4 DEF Requesting
<1>9. Approving'
  <2>1. asked' = {} /\ approvals' = {} /\ told' = <<>> /\ toClient' = <<>>
    BY <1>1, <1>3
  <2>2. Numbered'
    BY <2>1, FS_EmptySet DEF Numbered
  <2>3. Elems(toClient') = {} /\ Elems(told') = {} /\ DOMAIN toClient' = {} /\ DOMAIN told' = {}
    BY <2>1 DEF Elems
  <2>4. IsQueue(told)' /\ ToldOnce(told)' /\ AskOnce(toClient)'
    BY <1>1, <2>3 DEF Approving, ToldOnce, AskOnce
  <2>5. ASSUME NEW s, Seen(s)
        PROVE  Seen(s)'
    BY <1>1, <1>4, <2>5 DEF Seen
  <2>6. \A s \in shown' : Seen(s)'
    BY <1>1, <2>5 DEF Approving
  <2>7. ASSUME NEW c \in Calls, call'[c].op = "decide"
        PROVE  (call[c].as = AnyApproval \/ Seen(call[c].as))'
    <3>1. PICK s : s = call[c].as
      OBVIOUS
    <3>2. s = AnyApproval \/ Seen(s)
      BY <1>1, <2>7, <3>1 DEF Approving
    <3>3. s = AnyApproval \/ Seen(s)'
      BY <2>5, <3>2
    <3> QED
      BY <1>1, <3>1, <3>3 DEF Seen, AnyApproval
  <2> QED
    BY <2>1, <2>2, <2>3, <2>4, <2>6, <2>7 DEF Approving
<1> QED
  BY <1>6, <1>8, <1>9

\* The start fails, and all who wait for it.
LEMMA StartFailsInv ==
  ASSUME CodexInv, UNCHANGED control, StartFails,
         UNCHANGED <<adapterVars, call, histories, serverVars>>
  PROVE  CodexInv'
<1> USE DEF CodexInv
<1>1. /\ boot \in {"spawning", "closing"} /\ boot' = "down"
      /\ req' = [c \in Calls |-> IF req[c].at = "queued" THEN Failed ELSE req[c]]
      /\ UNCHANGED <<gen, started, toServer, toClient, aGen, aStarted, sub, approvals, call,
                     shown, told, resumed, asked>>
  BY DEF StartFails, GivesUp, adapterVars, histories, serverVars
<1>2. ~started
  <2>1. boot \notin {"hello", "greeted", "up"}
    BY <1>1
  <2> QED
    BY <2>1 DEF Connected
<1>3. toServer = <<>> /\ toClient = <<>> /\ approvals = {} /\ told = <<>>
  BY <1>2, NoConnection
<1>4. Connected'
  <2>1. started = FALSE
    BY <1>2 DEF Connected
  <2> QED
    BY <1>1, <1>3, <2>1 DEF Connected, Boots
<1>5. Requesting'
  <2>1. PICK K, R, res : K = call' /\ R = req' /\ res = resumed'
    OBVIOUS
  <2>2. Wires(<<>>, <<>>, K, R, res)
    BY WiresGone
  <2>3. Wires(toServer', toClient', call', req', resumed')
    BY <1>1, <1>3, <2>1, <2>2
  <2>4. (\A t \in Threads : Subscribing(t)') /\ sub' = [t \in Threads |-> sub'[t]]
    BY <1>1, SubscriptionsKept
  <2>5. ASSUME NEW c \in Calls
        PROVE  req'[c] = req[c] \/ Calling(c, call[c], req'[c])
    <3>1. Calling(c, call[c], req[c])
      BY DEF Requesting
    <3>2. CASE req[c].at = "queued"
      <4>1. req'[c] = Failed
        BY <1>1, <3>2
      <4> QED
        BY <3>1, <3>2, <4>1 DEF Calling, Failed, Awaits, NoRequest
    <3> QED
      BY <1>1, <3>2
  <2>6. call' = [d \in Calls |-> call'[d]] /\ req' = [d \in Calls |-> req'[d]]
    <3>1. req' = [d \in Calls |-> req'[d]]
      BY <1>1
    <3> QED
      BY <1>1, <3>1 DEF Requesting
  <2>7. \A c \in Calls : \/ call'[c] = call[c] /\ req'[c] = req[c]
                         \/ Calling(c, call'[c], req'[c])
    BY <1>1, <2>5
  <2> QED
    BY <1>1, <2>3, <2>4, <2>6, <2>7, RequestsKept
<1>6. Approving'
  <2>1. Fewer(toClient', toClient)
    BY <1>1 DEF Fewer
  <2> QED
    BY <1>1, <2>1, ApprovalsKept
<1> QED
  BY <1>4, <1>5, <1>6

\* The connection is there: what was learnt on another is forgotten.
LEMMA OnConnectedInv ==
  ASSUME CodexInv, UNCHANGED control, OnConnected
  PROVE  CodexInv'
<1> USE DEF CodexInv
<1>1. /\ boot = "greeted" /\ boot' = "up" /\ aGen' = gen /\ aStarted' = TRUE
      /\ req' = [c \in Calls |-> IF req[c].at = "queued"
                                 THEN [req[c] EXCEPT !.at = "connected"] ELSE req[c]]
      /\ UNCHANGED <<gen, started, toServer, toClient, call, shown, told, resumed, asked>>
      /\ approvals' \subseteq approvals
      /\ \/ UNCHANGED sub
         \/ sub' = Unsubscribed(Threads)
  BY DEF OnConnected, Connects, ClearConnectionState, ForgetWork, Work, histories, serverVars
<1>2. started
  BY <1>1 DEF Connected
<1>3. Connected'
  <2>1. started = TRUE
    BY <1>2 DEF Connected
  <2> QED
    BY <1>1, <2>1 DEF Connected, Boots
<1>4. ASSUME NEW c \in Calls, req[c].at = "queued"
      PROVE  Calling(c, call[c], req'[c])
  <2>1. Calling(c, call[c], req[c]) /\ Waits(c, call[c], req[c])
    BY <1>4 DEF Requesting, Calling
  <2>2. /\ req'[c].at = "connected" /\ DOMAIN req'[c] = DOMAIN req[c]
        /\ "msg" \in DOMAIN req[c] => req'[c].msg = req[c].msg
    BY <1>1, <1>4, <2>1 DEF Waits
  <2>3. Waits(c, call[c], req'[c])
    BY <2>1, <2>2 DEF Waits
  <2> QED
    BY <1>4, <2>1, <2>2, <2>3 DEF Calling, Awaits, NoRequest
<1>5. \A c \in Calls : req[c].at # "queued" => req'[c] = req[c]
  BY <1>1
<1>6. Wires(toServer', toClient', call', req', resumed')
  <2>1. Wires(toServer, toClient, call, req, resumed)
    BY DEF Requesting
  <2>2. PICK R : R = req'
    OBVIOUS
  <2>3. ASSUME NEW c \in Calls
        PROVE  (call[c] = call[c] /\ R[c] = req[c]) \/ Silent(c, toServer, toClient)
    BY <1>5, <2>1, <2>2, SilentUnlessSent
  <2>4. Wires(toServer, toClient, call, R, resumed)
    BY <2>1, <2>3, WiresOthers
  <2> QED
    BY <1>1, <2>2, <2>4
<1>7. (\A t \in Threads : Subscribing(t)') /\ sub' = [t \in Threads |-> sub'[t]]
  <2>1. CASE UNCHANGED sub
    BY <1>1, <2>1, SubscriptionsKept
  <2>2. CASE sub' = Unsubscribed(Threads)
    <3>1. sub' = [t \in Threads |-> 0]
      BY <2>2 DEF Unsubscribed
    <3>2. gen \in Nat /\ 0 # gen /\ 0 <= gen
      BY <1>2 DEF Connected
    <3> QED
      BY <1>1, <3>1, <3>2 DEF Subscribing
  <2> QED
    BY <1>1, <2>1, <2>2
<1>8. Requesting'
  <2>1. call' = [c \in Calls |-> call'[c]] /\ req' = [c \in Calls |-> req'[c]]
    <3>1. req' = [c \in Calls |-> req'[c]]
      BY <1>1
    <3> QED
      BY <1>1, <3>1 DEF Requesting
  <2>2. \A c \in Calls : \/ call'[c] = call[c] /\ req'[c] = req[c]
                         \/ Calling(c, call'[c], req'[c])
    BY <1>1, <1>4, <1>5
  <2>3. aGen' \in {aGen, gen} /\ resumed \subseteq resumed'
    BY <1>1
  <2> QED
    BY <1>1, <1>6, <1>7, <2>1, <2>2, <2>3, RequestsKept
<1>9. Approving'
  <2>1. Fewer(toClient', toClient)
    BY <1>1 DEF Fewer
  <2> QED
    BY <1>1, <2>1, ApprovalsKept
<1> QED
  BY <1>3, <1>8, <1>9

\* The connection is lost, and everything of it.
LEMMA LostInv ==
  ASSUME CodexInv, UNCHANGED control, Lost
  PROVE  CodexInv'
<1> USE DEF CodexInv
<1>1. /\ boot \in {"wiring", "hello", "greeted", "up"} /\ boot' \in {"closing", "down"}
      /\ started' = FALSE /\ toServer' = <<>> /\ toClient' = <<>>
      /\ req' = [c \in Calls |-> IF req[c].at = "sent" THEN Failed ELSE req[c]]
      /\ resumed' = {} /\ asked' = {} /\ told' = <<>>
      /\ UNCHANGED <<gen, aGen, call, shown>>
      /\ \/ started /\ gen = aGen /\ aStarted' = FALSE /\ sub' = Unsubscribed(Threads)
            /\ approvals' = {e \in approvals : e.thread \notin Threads}
         \/ ~(started /\ gen = aGen) /\ UNCHANGED <<aStarted, sub, approvals>>
  BY DEF Lost, Disconnect, OnDisconnected, ClearConnectionState, ForgetWork, Work
<1>2. Connected'
  <2>1. aStarted' = FALSE
    <3>1. aStarted \in BOOLEAN /\ (aStarted => started /\ aGen = gen)
      BY DEF Connected
    <3> QED
      BY <1>1, <3>1
  <2>2. approvals' = {}
    <3>1. CASE started /\ gen = aGen /\ approvals' = {e \in approvals : e.thread \notin Threads}
      BY <3>1 DEF Approving, Pending
    <3>2. CASE ~started /\ UNCHANGED approvals
      BY <3>2, NoConnection
    <3>3. CASE gen # aGen /\ UNCHANGED approvals
      BY <3>3 DEF Approving, Pending
    <3> QED
      BY <1>1, <3>1, <3>2, <3>3
  <2>3. (started' <=> boot' \in {"hello", "greeted", "up"}) /\ boot' \in Boots /\ boot' # "wiring"
    <3>1. boot' \notin {"hello", "greeted", "up"} /\ boot' \in Boots /\ boot' # "wiring"
      BY <1>1 DEF Boots
    <3> QED
      BY <1>1, <3>1
  <2>4. (control \in BOOLEAN)' /\ gen' \in Nat /\ aGen' \in Nat /\ aGen' <= gen'
    BY <1>1 DEF Connected
  <2> QED
    BY <1>1, <2>1, <2>2, <2>3, <2>4 DEF Connected
<1>3. Requesting'
  <2>1. PICK K, R, res : K = call' /\ R = req' /\ res = resumed'
    OBVIOUS
  <2>2. Wires(<<>>, <<>>, K, R, res)
    BY WiresGone
  <2>3. Wires(toServer, toClient, call, req, resumed)'
    BY <1>1, <2>1, <2>2, WiresAfter
  <2>4. ASSUME NEW t \in Threads
        PROVE  Subscribing(t)'
    <3>1. sub'[t] \in {0, sub[t]} /\ sub[t] \in Nat /\ sub[t] <= aGen /\ aGen \in Nat
      BY <1>1 DEF Requesting, Subscribing, Unsubscribed, Connected
    <3> QED
      BY <1>1, <3>1 DEF Subscribing
  <2>5. ASSUME NEW c \in Calls
        PROVE  Calling(c, call[c], req[c])'
    <3>1. Calling(c, call[c], req[c])
      BY DEF Requesting
    <3>2. Remembers(c, call[c])'
      BY <1>1, <3>1 DEF Calling, Remembers, Discovers, Turning
    <3>3. req'[c] = req[c] /\ Waits(c, call[c], req[c]) => Waits(c, call[c], req[c])'
      BY <1>1 DEF Waits, Fits, Resuming
    <3>4. CASE req[c].at = "sent"
      <4>1. req'[c] = Failed
        BY <1>1, <3>4
      <4> QED
        BY <1>1, <3>1, <3>2, <3>4, <4>1 DEF Calling, Failed, Awaits, NoRequest
    <3>5. CASE req[c].at # "sent"
      <4>1. req'[c] = req[c]
        BY <1>1, <3>5
      <4> QED
        BY <1>1, <3>1, <3>2, <3>3, <3>5, <4>1 DEF Calling
    <3> QED
      BY <3>4, <3>5
  <2>6. /\ req' = [c \in Calls |-> req'[c]] /\ call' = [c \in Calls |-> call'[c]]
        /\ sub' = [t \in Threads |-> sub'[t]]
    <3>1. req' = [c \in Calls |-> req'[c]]
      BY <1>1
    <3>2. sub' = [t \in Threads |-> sub'[t]]
      BY <1>1 DEF Requesting, Unsubscribed
    <3> QED
      BY <1>1, <3>1, <3>2 DEF Requesting
  <2> QED
    BY <2>3, <2>4, <2>5, <2>6 DEF Requesting
<1>4. Approving'
  <2>2. Numbered'
    BY <1>1, FS_EmptySet DEF Numbered
  <2>3. /\ Elems(toClient') = {} /\ Elems(told') = {}
        /\ DOMAIN toClient' = {} /\ DOMAIN told' = {} /\ approvals' = {}
    <3>1. approvals' = {}
      BY <1>1, <1>2 DEF Connected
    <3> QED
      BY <1>1, <3>1 DEF Elems
  <2>4. IsQueue(told)' /\ ToldOnce(told)' /\ AskOnce(toClient)'
    <3>1. IsQueue(<<>>)
      BY WiresGone DEF Wires
    <3> QED
      BY <1>1, <2>3, <3>1 DEF ToldOnce, AskOnce
  <2>5. ASSUME NEW s, Seen(s)
        PROVE  Seen(s)'
    BY <1>1, <2>5 DEF Seen
  <2>6. \A s \in shown' : Seen(s)'
    BY <1>1, <2>5 DEF Approving
  <2>7. ASSUME NEW c \in Calls, call'[c].op = "decide"
        PROVE  (call[c].as = AnyApproval \/ Seen(call[c].as))'
    <3>1. PICK s : s = call[c].as
      OBVIOUS
    <3>2. s = AnyApproval \/ Seen(s)
      BY <1>1, <2>7, <3>1 DEF Approving
    <3>3. s = AnyApproval \/ Seen(s)'
      BY <2>5, <3>2
    <3> QED
      BY <1>1, <3>1, <3>3 DEF Seen, AnyApproval
  <2> QED
    BY <1>1, <2>2, <2>3, <2>4, <2>6, <2>7 DEF Approving
<1> QED
  BY <1>2, <1>3, <1>4

-----------------------------------------------------------------------------
\* The App Server.

\* A message of the server that is no answer and asks for nothing.
Quiet(y) == y.call \notin Calls /\ y.kind \notin {"answer", "ask"}

\* One answer or none, and one such message or none, behind what is on its way.
LEMMA Posted ==
  ASSUME NEW s, NEW q, NEW K, NEW R, NEW res, Wires(s, q, K, R, res),
         NEW A, NEW B,
         \/ A = <<>>
         \/ \E c \in Calls : \E x :
              /\ A = <<x>> /\ x.call = c /\ x.kind = "answer"
              /\ Silent(c, s, q) /\ R[c].at = "sent"
              /\ x.ok /\ Resuming(K[c]) => K[c].thread \in res,
         B = <<>> \/ \E y : B = <<y>> /\ Quiet(y)
  PROVE  Wires(s, q \o (A \o B), K, R, res) /\ Fewer(q \o (A \o B), q)
<1>1. IsQueue(q)
  BY DEF Wires
<1>2. Fewer(q, q)
  BY DEF Fewer
<1>3. <<>> \o <<>> = <<>> /\ \A y : <<>> \o <<y>> = <<y>>
  OBVIOUS
<1>4. ASSUME NEW y, Quiet(y)
      PROVE  /\ Wires(s, Append(q, y), K, R, res) /\ Fewer(Append(q, y), q)
  BY <1>1, <1>4, WiresPost, FewerJoined DEF Quiet
<1>5. CASE A = <<>>
  <2>1. CASE B = <<>>
    <3>1. q \o (A \o B) = q
      BY <1>1, <1>3, <1>5, <2>1, Behind
    <3> QED
      BY <1>2, <3>1
  <2>2. ASSUME NEW y, B = <<y>>, Quiet(y)
        PROVE  Wires(s, q \o (A \o B), K, R, res) /\ Fewer(q \o (A \o B), q)
    <3>1. A \o B = <<y>>
      BY <1>3, <1>5, <2>2
    <3>2. q \o <<y>> = Append(q, y)
      BY <1>1, Behind
    <3> QED
      BY <1>4, <2>2, <3>1, <3>2
  <2> QED
    BY <2>1, <2>2
<1>6. ASSUME NEW c \in Calls, NEW x, A = <<x>>, x.call = c, x.kind = "answer", Silent(c, s, q),
             R[c].at = "sent", x.ok /\ Resuming(K[c]) => K[c].thread \in res
      PROVE  Wires(s, q \o (A \o B), K, R, res) /\ Fewer(q \o (A \o B), q)
  <2> DEFINE p == Append(q, x)
  <2>1. Wires(s, p, K, R, res)
    BY <1>6, WiresAnswer
  <2>2. Fewer(p, q)
    BY <1>1, <1>6, FewerJoined
  <2>3. CASE B = <<>>
    <3>1. A \o B = <<x>>
      BY <1>1, <1>6, <2>3, Behind
    <3>2. q \o <<x>> = p
      BY <1>1, Behind
    <3> QED
      BY <2>1, <2>2, <3>1, <3>2
  <2>4. ASSUME NEW y, B = <<y>>, Quiet(y)
        PROVE  Wires(s, q \o (A \o B), K, R, res) /\ Fewer(q \o (A \o B), q)
    <3>1. q \o (A \o B) = Append(p, y)
      BY <1>1, <1>6, <2>4, Behind
    <3> HIDE DEF p
    <3>2. IsQueue(p)
      BY <2>1 DEF Wires
    <3>3. Wires(s, Append(p, y), K, R, res) /\ Fewer(Append(p, y), p)
      BY <2>1, <2>4, <3>2, WiresPost, FewerJoined DEF Quiet
    <3>4. Fewer(Append(p, y), q)
      BY <2>2, <3>3, FewerAgain
    <3> QED
      BY <3>1, <3>3, <3>4
  <2> QED
    BY <2>3, <2>4
<1> QED
  BY <1>5, <1>6

\* What the server does to the wires of a live connection without asking.
LEMMA ServerKeeps ==
  ASSUME CodexInv, UNCHANGED <<control, gen, started, boot, req, adapterVars, call, histories, asked>>,
         started, resumed \subseteq resumed', Fewer(toClient', toClient),
         Wires(toServer', toClient', call, req, resumed')
  PROVE  CodexInv'
<1>1. UNCHANGED <<aGen, aStarted, sub, approvals, shown, told>>
  BY DEF adapterVars, histories
<1>2. Connected'
  BY <1>1, ConnectionKept
<1>3. Requesting'
  <2>1. (\A t \in Threads : Subscribing(t)') /\ sub' = [t \in Threads |-> sub'[t]]
    BY <1>1, SubscriptionsKept
  <2>2. call' = [d \in Calls |-> call'[d]] /\ req' = [d \in Calls |-> req'[d]]
    BY DEF CodexInv, Requesting
  <2> QED
    BY <1>1, <2>1, <2>2, RequestsKept
<1>4. Approving'
  BY <1>1, ApprovalsKept
<1> QED
  BY <1>2, <1>3, <1>4 DEF CodexInv

\* What it may post when it handles request m.
Replies(m) ==
  \E A, B :
    /\ toClient' = toClient \o (A \o B)
    /\ \/ A = <<>>
       \/ \E ok, body : A = Answer(m, ok, body)
                        /\ (ok /\ m.kind = "resume" => m.thread \in resumed')
    /\ B = <<>> \/ \E y : B = <<y>> /\ Quiet(y)

\* No message is like an empty sequence of them.
LEMMA NothingBehind ==
  ASSUME NEW q, IsQueue(q)
  PROVE  /\ q = q \o (<<>> \o <<>>)
         /\ \A m, ok, body : Answer(m, ok, body) = Answer(m, ok, body) \o <<>>
         /\ \A y : <<y>> = <<>> \o <<y>>
<1>1. q \o <<>> = q /\ <<>> \o <<>> = <<>> /\ \A y : <<>> \o <<y>> = <<y>> /\ <<y>> \o <<>> = <<y>>
  BY Behind
<1>2. ASSUME NEW m, NEW ok, NEW body
      PROVE  Answer(m, ok, body) = Answer(m, ok, body) \o <<>>
  <2>1. Answer(m, ok, body) = <<>> \/ \E y : Answer(m, ok, body) = <<y>>
    BY DEF Answer
  <2> QED
    BY <1>1, <2>1
<1> QED
  BY <1>1, <1>2

\* What it tells of a thread.
LEMMA QuietMessages ==
  /\ \A kind \in {"started", "ended"} : \A t, n : Quiet(ToThread(kind, t, n))
  /\ \A a : Quiet(Resolved(a))
  /\ Quiet([kind |-> "welcome", call |-> NoCall])
  /\ \A t, n, x : Quiet([kind |-> "item", thread |-> t, turn |-> n, context |-> x, call |-> NoCall])
  /\ \A t, y : Quiet(y) =>
       Subscribed(t, <<y>>) = <<>> \/ \E z : Subscribed(t, <<y>>) = <<z>> /\ Quiet(z)
  BY NoCallAssumption DEF Quiet, ToThread, Resolved, Subscribed

\* Each of its handlers replies like that.
LEMMA HandlersReply ==
  ASSUME CodexInv, NEW m, Listed(m) \/ Resumes(m) \/ Turned(m) \/ Decided(m)
  PROVE  Replies(m) /\ resumed \subseteq resumed' /\ asked' = asked
<1>0. IsQueue(toClient)
  BY DEF CodexInv, Requesting, Wires
<1>1. CASE Listed(m)
  <2>1. UNCHANGED <<resumed, asked>>
    BY <1>1 DEF Listed, serverVars
  <2>2. CASE toClient' = toClient \o <<[kind |-> "welcome", call |-> NoCall]>>
    <3>1. toClient' = toClient \o (<<>> \o <<[kind |-> "welcome", call |-> NoCall]>>)
      BY <1>0, <2>2, NothingBehind
    <3> QED
      BY <2>1, <3>1, QuietMessages DEF Replies
  <2>3. ASSUME NEW body, toClient' = toClient \o Answer(m, TRUE, body), m.kind # "resume"
        PROVE  Replies(m)
    <3>1. toClient' = toClient \o (Answer(m, TRUE, body) \o <<>>)
      BY <1>0, <2>3, NothingBehind
    <3> QED
      BY <2>3, <3>1 DEF Replies
  <2> QED
    BY <1>1, <2>1, <2>2, <2>3 DEF Listed, Post
<1>2. CASE Resumes(m)
  <2>1. resumed \subseteq resumed' /\ asked' = asked
    BY <1>2 DEF Resumes
  <2>2. PICK ok : toClient' = toClient \o Answer(m, ok, {}) /\ (ok => m.thread \in resumed')
    BY <1>2 DEF Resumes, Post
  <2>3. toClient' = toClient \o (Answer(m, ok, {}) \o <<>>)
    BY <1>0, <2>2, NothingBehind
  <2>4. \E ok2, body : Answer(m, ok, {}) = Answer(m, ok2, body)
                       /\ (ok2 /\ m.kind = "resume" => m.thread \in resumed')
    BY <2>2
  <2>5. Replies(m)
    BY <2>3, <2>4 DEF Replies
  <2> QED
    BY <2>1, <2>5
<1>3. CASE Turned(m)
  <2>1. UNCHANGED <<resumed, asked>> /\ m.kind # "resume"
    BY <1>3 DEF Turned
  <2>2. ASSUME NEW ok, NEW body, toClient' = toClient \o Answer(m, ok, body)
        PROVE  Replies(m)
    <3>1. toClient' = toClient \o (Answer(m, ok, body) \o <<>>)
      BY <1>0, <2>2, NothingBehind
    <3> QED
      BY <2>1, <3>1 DEF Replies
  <2>3. ASSUME NEW body, NEW kind \in {"started", "ended"}, NEW n,
               toClient' = toClient \o (Answer(m, TRUE, body)
                                        \o Subscribed(m.thread, <<ToThread(kind, m.thread, n)>>))
        PROVE  Replies(m)
    <3>1. PICK B : B = Subscribed(m.thread, <<ToThread(kind, m.thread, n)>>)
      OBVIOUS
    <3>2. B = <<>> \/ \E y : B = <<y>> /\ Quiet(y)
      BY <3>1, QuietMessages
    <3> QED
      BY <2>1, <2>3, <3>1, <3>2 DEF Replies
  <2> QED
    BY <1>3, <2>1, <2>2, <2>3 DEF Turned, Post
<1>4. CASE Decided(m)
  <2>1. UNCHANGED <<resumed, asked>>
    BY <1>4 DEF Decided
  <2>2. UNCHANGED toClient \/ \E a : toClient' = toClient \o <<Resolved(a)>>
    BY <1>4 DEF Decided, Post
  <2>3. CASE UNCHANGED toClient
    <3>1. toClient' = toClient \o (<<>> \o <<>>)
      BY <1>0, <2>3, NothingBehind
    <3> QED
      BY <2>1, <3>1 DEF Replies
  <2>4. ASSUME NEW a, toClient' = toClient \o <<Resolved(a)>>
        PROVE  Replies(m)
    <3>1. toClient' = toClient \o (<<>> \o <<Resolved(a)>>)
      BY <1>0, <2>4, NothingBehind
    <3> QED
      BY <2>1, <3>1, QuietMessages DEF Replies
  <2> QED
    BY <2>1, <2>2, <2>3, <2>4
<1> QED
  BY <1>1, <1>2, <1>3, <1>4

\* The server handles the next request of the live connection.
LEMMA ServerHandlesInv ==
  ASSUME CodexInv, UNCHANGED control, ServerHandles
  PROVE  CodexInv'
<1>0. PICK m : m = Head(toServer)
  OBVIOUS
<1>1. /\ toServer # <<>> /\ toServer' = Tail(toServer)
      /\ UNCHANGED <<control, gen, started, boot, req, adapterVars, call, histories>>
      /\ Listed(m) \/ Resumes(m) \/ Turned(m) \/ Decided(m)
  BY <1>0 DEF ServerHandles
<1>2. started
  BY <1>1, NoConnection
<1>3. Replies(m) /\ resumed \subseteq resumed' /\ asked' = asked
  BY <1>1, HandlersReply
<1>4. Wires(toServer, toClient, call, req, resumed)
  BY DEF CodexInv, Requesting
<1>5. PICK more, s : more = resumed' /\ s = Tail(toServer)
  OBVIOUS
<1>6. /\ Wires(s, toClient, call, req, more)
      /\ Message(m)
      /\ \A c \in Calls : m.call = c =>
           Silent(c, s, toClient) /\ req[c].at = "sent" /\ Fits(call[c], m)
  BY <1>0, <1>1, <1>3, <1>4, <1>5, WiresTaken
<1>7. PICK A, B :
        /\ toClient' = toClient \o (A \o B)
        /\ \/ A = <<>>
           \/ \E ok, body : A = Answer(m, ok, body)
                            /\ (ok /\ m.kind = "resume" => m.thread \in resumed')
        /\ B = <<>> \/ \E y : B = <<y>> /\ Quiet(y)
  BY <1>3 DEF Replies
<1>8. A = <<>> \/ \E c \in Calls : \E x : /\ A = <<x>> /\ x.call = c /\ x.kind = "answer"
                                          /\ Silent(c, s, toClient) /\ req[c].at = "sent"
                                          /\ x.ok /\ Resuming(call[c]) => call[c].thread \in more
  <2>1. ASSUME NEW ok, NEW body, A = Answer(m, ok, body), m.call # NoCall,
               ok /\ m.kind = "resume" => m.thread \in more
        PROVE  \E c \in Calls : \E x : /\ A = <<x>> /\ x.call = c /\ x.kind = "answer"
                                       /\ Silent(c, s, toClient) /\ req[c].at = "sent"
                                       /\ x.ok /\ Resuming(call[c]) => call[c].thread \in more
    <3>1. PICK c \in Calls : c = m.call
      BY <1>6, <2>1 DEF Message
    <3>2. PICK x : x = [kind |-> "answer", call |-> m.call, ok |-> ok, body |-> body]
      OBVIOUS
    <3>3. A = <<x>> /\ x.call = c /\ x.kind = "answer" /\ x.ok = ok
      BY <2>1, <3>1, <3>2 DEF Answer
    <3>4. Silent(c, s, toClient) /\ req[c].at = "sent" /\ Fits(call[c], m)
      BY <1>6, <3>1
    <3>5. x.ok /\ Resuming(call[c]) => call[c].thread \in more
      BY <2>1, <3>3, <3>4 DEF Fits
    <3> QED
      BY <3>3, <3>4, <3>5
  <2>2. \A ok, body : m.call = NoCall => Answer(m, ok, body) = <<>>
    BY DEF Answer
  <2> QED
    BY <1>5, <1>7, <2>1, <2>2
<1>9. PICK q : q = toClient \o (A \o B)
  OBVIOUS
<1>10. Wires(s, q, call, req, more) /\ Fewer(q, toClient)
  BY <1>6, <1>7, <1>8, <1>9, Posted
<1> QED
  BY <1>1, <1>2, <1>3, <1>5, <1>7, <1>9, <1>10, ServerKeeps

\* What it does of its own accord, but for asking.
LEMMA QuietlyKeeps ==
  ASSUME CodexInv, UNCHANGED control, Quietly, UNCHANGED <<resumed, asked>>,
         UNCHANGED toClient \/ \E y : toClient' = toClient \o <<y>> /\ Quiet(y)
  PROVE  CodexInv'
<1>1. /\ UNCHANGED <<control, gen, started, boot, req, toServer, adapterVars, call, histories>>
      /\ started
  BY DEF Quietly
<1>2. Wires(toServer, toClient, call, req, resumed) /\ IsQueue(toClient)
  BY DEF CodexInv, Requesting, Wires
<1>3. Wires(toServer', toClient', call, req, resumed') /\ Fewer(toClient', toClient)
  <2>1. CASE UNCHANGED toClient
    BY <1>1, <1>2, <2>1 DEF Fewer
  <2>2. ASSUME NEW y, toClient' = toClient \o <<y>>, Quiet(y)
        PROVE  Wires(toServer', toClient', call, req, resumed') /\ Fewer(toClient', toClient)
    <3>1. toClient \o <<y>> = Append(toClient, y)
      BY <1>2, Behind
    <3>2. Wires(toServer, Append(toClient, y), call, req, resumed) /\ Fewer(Append(toClient, y), toClient)
      BY <1>2, <2>2, WiresPost, FewerJoined DEF Quiet
    <3> QED
      BY <1>1, <2>2, <3>1, <3>2
  <2> QED
    BY <2>1, <2>2
<1> QED
  BY <1>1, <1>3, ServerKeeps

\* What the server does of itself changes what it will say, and tells clients of it.
LEMMA QuietlyInv ==
  ASSUME CodexInv, UNCHANGED control,
         \/ \E t \in Threads : TurnEnds(t) \/ OtherClientStarts(t) \/ Edits(t) \/ Unloads(t)
         \/ \E a \in open : OtherClientResolves(a)
  PROVE  CodexInv'
<1>0. IsQueue(toClient)
  BY DEF CodexInv, Requesting, Wires
<1>1. toClient \o <<>> = toClient
  BY <1>0, Behind
<1>2. ASSUME NEW t \in Threads, TurnEnds(t) \/ OtherClientStarts(t)
      PROVE  CodexInv'
  <2>1. Quietly /\ UNCHANGED <<resumed, asked>>
    BY <1>2 DEF TurnEnds, OtherClientStarts
  <2>2. PICK kind, n :
           /\ kind \in {"started", "ended"}
           /\ toClient' = toClient \o Subscribed(t, <<ToThread(kind, t, n)>>)
    BY <1>2 DEF TurnEnds, OtherClientStarts, Post
  <2>3. PICK B : B = Subscribed(t, <<ToThread(kind, t, n)>>)
    OBVIOUS
  <2>4. B = <<>> \/ \E y : B = <<y>> /\ Quiet(y)
    BY <2>2, <2>3, QuietMessages
  <2>5. UNCHANGED toClient \/ \E y : toClient' = toClient \o <<y>> /\ Quiet(y)
    BY <1>1, <2>2, <2>3, <2>4
  <2> QED
    BY <2>1, <2>5, QuietlyKeeps
<1>3. ASSUME NEW t \in Threads, Edits(t)
      PROVE  CodexInv'
  <2>1. Quietly /\ UNCHANGED <<resumed, asked>>
    BY <1>3 DEF Edits, serverVars
  <2>2. PICK n, x : toClient' = toClient \o
          <<[kind |-> "item", thread |-> t, turn |-> n, context |-> x, call |-> NoCall]>>
    BY <1>3 DEF Edits, Post
  <2>3. \E y : toClient' = toClient \o <<y>> /\ Quiet(y)
    BY <2>2, QuietMessages
  <2> QED
    BY <2>1, <2>3, QuietlyKeeps
<1>4. ASSUME NEW t \in Threads, Unloads(t)
      PROVE  CodexInv'
  BY <1>4, QuietlyKeeps DEF Unloads
<1>5. ASSUME NEW a \in open, OtherClientResolves(a)
      PROVE  CodexInv'
  <2>1. Quietly /\ UNCHANGED <<resumed, asked>> /\ toClient' = toClient \o <<Resolved(a)>>
    BY <1>5 DEF OtherClientResolves, Post
  <2> QED
    BY <2>1, QuietMessages, QuietlyKeeps
<1> QED
  BY <1>2, <1>3, <1>4, <1>5

\* It asks, with an id that is new on this connection.
LEMMA AskApprovalInv ==
  ASSUME CodexInv, UNCHANGED control, NEW t \in Threads, NEW file \in AskKinds, AskApproval(t, file)
  PROVE  CodexInv'
<1> USE DEF CodexInv
<1>0. PICK raw, a, x :
        /\ raw = Cardinality(asked) + 1
        /\ a = [gen |-> gen, raw |-> raw, thread |-> t, turn |-> running[t], file |-> file]
        /\ x = [kind |-> "ask", thread |-> t, turn |-> running[t], raw |-> raw,
                file |-> file, call |-> NoCall]
  OBVIOUS
<1>1. /\ UNCHANGED <<gen, started, boot, req, toServer, aGen, aStarted, sub, approvals, call,
                     shown, told, resumed>>
      /\ started /\ asked' = asked \cup {a} /\ toClient' = toClient \o <<x>>
  BY <1>0 DEF AskApproval, Quietly, Post, adapterVars, histories
<1>2. /\ IsFiniteSet(asked) /\ Cardinality(asked) \in Nat
      /\ \A b \in asked : b.gen = gen /\ b.raw \in 1..Cardinality(asked)
  BY FS_CardinalityType DEF Approving, Numbered
<1>3. a.gen = gen /\ a.raw = raw /\ raw \in Nat /\ raw = Cardinality(asked) + 1
  BY <1>0, <1>2
<1>4. raw \notin Raws /\ a \notin asked /\ Raws' = Raws \cup {raw}
  <2>1. \A b \in asked : b.raw # raw
    BY <1>2, <1>3
  <2> QED
    BY <1>1, <1>3, <2>1 DEF Raws
<1>5. Numbered'
  <2>1. IsFiniteSet(asked') /\ Cardinality(asked') = Cardinality(asked) + 1
    BY <1>1, <1>2, <1>4, FS_AddElement
  <2>2. \A b \in asked' : b.gen = gen /\ b.raw \in 1..(Cardinality(asked) + 1)
    BY <1>1, <1>2, <1>3
  <2> QED
    BY <1>1, <2>1, <2>2 DEF Numbered
<1>6. /\ x.kind = "ask" /\ x.raw = raw /\ x.thread = t /\ x.call = NoCall /\ x.call \notin Calls
  BY <1>0, NoCallAssumption
<1>7. Wires(toServer, toClient, call, req, resumed) /\ IsQueue(toClient)
  BY DEF Requesting, Wires
<1>8. PICK q : q = Append(toClient, x)
  OBVIOUS
<1>9. toClient' = q /\ Elems(q) = Elems(toClient) \cup {x}
  BY <1>1, <1>7, <1>8, Behind, Joined
<1>10. Wires(toServer, q, call, req, resumed)
  BY <1>6, <1>7, <1>8, WiresPost
<1>11. Connected'
  <2>1. started = TRUE
    BY <1>1 DEF Connected
  <2> QED
    BY <1>1, <2>1 DEF Connected
<1>12. Requesting'
  <2>1. (\A u \in Threads : Subscribing(u)') /\ sub' = [u \in Threads |-> sub'[u]]
    BY <1>1, SubscriptionsKept
  <2>2. call' = [d \in Calls |-> call'[d]] /\ req' = [d \in Calls |-> req'[d]]
    BY <1>1 DEF Requesting
  <2>3. Wires(toServer', toClient', call', req', resumed')
    BY <1>1, <1>9, <1>10
  <2> QED
    BY <1>1, <2>1, <2>2, <2>3, RequestsKept
<1>13. Approving'
  <2>1. /\ \A y \in Elems(toClient) : y.kind = "ask" => y.raw \in Raws /\ y.thread \in Threads
        /\ AskOnce(toClient)
    BY DEF Approving
  <2>2. AskOnce(q)
    BY <1>4, <1>6, <1>7, <1>8, <2>1, FewerJoined
  <2>3. \A y \in Elems(q) : y.kind = "ask" => y.raw \in Raws' /\ y.thread \in Threads
    BY <1>4, <1>6, <1>9, <2>1
  <2>4. \A r \in Raws : OnItsWay(q, r) => OnItsWay(toClient, r)
    BY <1>4, <1>6, <1>9 DEF OnItsWay
  <2>5. ASSUME NEW e \in approvals
        PROVE  Pending(e)' /\ ~OnItsWay(q, e.raw)
    <3>1. Pending(e) /\ ~OnItsWay(toClient, e.raw)
      BY DEF Approving
    <3>2. Pending(e)'
      BY <1>1, <1>4, <3>1 DEF Pending, ApprovalId
    <3> QED
      BY <2>4, <3>1, <3>2 DEF Pending
  <2>6. ASSUME NEW s, Seen(s)
        PROVE  Seen(s)'
    BY <1>1, <1>4, <1>9, <2>4, <2>6 DEF Seen
  <2>7. ASSUME NEW d, Told(d)
        PROVE  Told(d)'
    BY <1>1, <1>4, <1>9, <2>4, <2>7 DEF Told
  <2>9. ASSUME NEW c \in Calls, call'[c].op = "decide"
        PROVE  (call[c].as = AnyApproval \/ Seen(call[c].as))'
    <3>1. PICK s : s = call[c].as
      OBVIOUS
    <3>2. s = AnyApproval \/ Seen(s)
      BY <1>1, <2>9, <3>1 DEF Approving
    <3>3. s = AnyApproval \/ Seen(s)'
      BY <2>6, <3>2
    <3> QED
      BY <1>1, <3>1, <3>3 DEF Seen, AnyApproval
  <2>10. (\A e \in approvals : Pending(e) /\ ~OnItsWay(toClient, e.raw))'
    BY <1>1, <1>9, <2>5
  <2>11. (\A s \in shown : Seen(s))' /\ (\A d \in Elems(told) : Told(d))'
    BY <1>1, <2>6, <2>7 DEF Approving
  <2>12. (\A y \in Elems(toClient) : y.kind = "ask" => y.raw \in Raws /\ y.thread \in Threads)'
         /\ AskOnce(toClient)'
    BY <1>9, <2>2, <2>3 DEF AskOnce
  <2>13. (\A e, f \in approvals : e.raw = f.raw => e = f)' /\ (IsQueue(told) /\ ToldOnce(told))'
    BY <1>1 DEF Approving
  <2> QED
    BY <1>5, <2>9, <2>10, <2>11, <2>12, <2>13 DEF Approving
<1> QED
  BY <1>11, <1>12, <1>13

-----------------------------------------------------------------------------
\* What the server sent is heard.

\* An approval that follows a file change shows it, or what it showed before,
\* or nothing any more.
LEMMA UpdatedApproval ==
  ASSUME NEW e, Pending(e), NEW x
  PROVE  LET u == Updated(e, x)
         IN  /\ Pending(u) /\ u.raw = e.raw
             /\ e.context # NoContext => u.context = e.context \/ u.invalidated
             /\ e.invalidated => u.invalidated
<1> DEFINE u == Updated(e, x)
<1>1. e = [aid |-> ApprovalId(e.raw), raw |-> e.raw, gen |-> gen, thread |-> e.thread,
           turn |-> e.turn, file |-> e.file, context |-> e.context,
           actionable |-> e.actionable, invalidated |-> e.invalidated]
      /\ (e.invalidated => ~e.actionable /\ e.context = NoContext)
      /\ aGen = gen /\ e.raw \in Raws /\ e.thread \in Threads
  BY DEF Pending
<1>0. PICK i, r, t, n, f, c, a, v :
        e = [aid |-> i, raw |-> r, gen |-> gen, thread |-> t, turn |-> n, file |-> f,
             context |-> c, actionable |-> a, invalidated |-> v]
  BY <1>1
<1>2. CASE e.context # NoContext /\ e.context # x
  <2>1. u = [e EXCEPT !.context = NoContext, !.actionable = FALSE, !.invalidated = TRUE]
    BY <1>2 DEF Updated
  <2>2. u = [aid |-> ApprovalId(e.raw), raw |-> e.raw, gen |-> gen, thread |-> e.thread,
             turn |-> e.turn, file |-> e.file, context |-> NoContext,
             actionable |-> FALSE, invalidated |-> TRUE]
    <3>1. u = [aid |-> i, raw |-> r, gen |-> gen, thread |-> t, turn |-> n, file |-> f,
               context |-> NoContext, actionable |-> FALSE, invalidated |-> TRUE]
      BY <1>0, <2>1
    <3>2. i = ApprovalId(e.raw) /\ r = e.raw /\ t = e.thread /\ n = e.turn /\ f = e.file
      BY <1>0, <1>1
    <3> QED
      BY <3>1, <3>2
  <2> HIDE DEF u
  <2>3. u.raw = e.raw /\ u.thread = e.thread /\ u.invalidated /\ ~u.actionable /\ u.context = NoContext
    BY <2>2
  <2>4. u = [aid |-> ApprovalId(u.raw), raw |-> u.raw, gen |-> gen, thread |-> u.thread,
             turn |-> u.turn, file |-> u.file, context |-> u.context,
             actionable |-> u.actionable, invalidated |-> u.invalidated]
    BY <2>2
  <2>5. Pending(u)
    BY <1>1, <2>3, <2>4 DEF Pending
  <2> QED
    BY <2>3, <2>5 DEF u
<1>3. CASE ~(e.context # NoContext /\ e.context # x) /\ e.context = NoContext /\ ~e.invalidated
           /\ x # NoContext
  <2>1. u = [e EXCEPT !.context = x, !.actionable = TRUE]
    BY <1>3 DEF Updated
  <2>2. u = [aid |-> ApprovalId(e.raw), raw |-> e.raw, gen |-> gen, thread |-> e.thread,
             turn |-> e.turn, file |-> e.file, context |-> x,
             actionable |-> TRUE, invalidated |-> e.invalidated]
    <3>1. u = [aid |-> i, raw |-> r, gen |-> gen, thread |-> t, turn |-> n, file |-> f,
               context |-> x, actionable |-> TRUE, invalidated |-> v]
      BY <1>0, <2>1
    <3>2. i = ApprovalId(e.raw) /\ r = e.raw /\ t = e.thread /\ n = e.turn /\ f = e.file
          /\ v = e.invalidated
      BY <1>0, <1>1
    <3> QED
      BY <3>1, <3>2
  <2> HIDE DEF u
  <2>3. u.raw = e.raw /\ u.thread = e.thread /\ ~u.invalidated
    BY <1>3, <2>2
  <2>4. u = [aid |-> ApprovalId(u.raw), raw |-> u.raw, gen |-> gen, thread |-> u.thread,
             turn |-> u.turn, file |-> u.file, context |-> u.context,
             actionable |-> u.actionable, invalidated |-> u.invalidated]
    BY <2>2
  <2>5. Pending(u)
    BY <1>1, <2>3, <2>4 DEF Pending
  <2> QED
    BY <1>3, <2>3, <2>5 DEF u
<1>4. CASE /\ ~(e.context # NoContext /\ e.context # x)
           /\ ~(e.context = NoContext /\ ~e.invalidated /\ x # NoContext)
  <2>1. u = e
    BY <1>4 DEF Updated
  <2> QED
    BY <2>1
<1> QED
  BY <1>2, <1>3, <1>4

\* Approvals are replaced by others of the same request that show no more than
\* they did.
LEMMA ApprovalsFollow ==
  ASSUME CodexInv, UNCHANGED <<control, gen, started, aGen, call, shown, told, asked>>,
         Fewer(toClient', toClient),
         NEW F, approvals' = {F[e] : e \in approvals},
         \A e \in approvals : /\ Pending(F[e]) /\ F[e].raw = e.raw
                              /\ e.context # NoContext => F[e].context = e.context \/ F[e].invalidated
                              /\ e.invalidated => F[e].invalidated
  PROVE  Approving'
<1> USE DEF CodexInv
<1>1. \A r : OnItsWay(toClient', r) => OnItsWay(toClient, r)
  BY DEF Fewer, OnItsWay
<1>2. Raws' = Raws /\ Numbered'
  BY DEF Approving, Raws, Numbered
<1>3. ASSUME NEW u \in approvals'
      PROVE  Pending(u)' /\ ~OnItsWay(toClient', u.raw)
  <2>1. PICK e \in approvals : u = F[e]
    OBVIOUS
  <2>2. Pending(u) /\ u.raw = e.raw /\ ~OnItsWay(toClient, e.raw)
    BY <2>1 DEF Approving
  <2>3. Pending(u)'
    BY <1>2, <2>2 DEF Pending, ApprovalId
  <2> QED
    BY <1>1, <2>2, <2>3
<1>4. \A u, v \in approvals' : u.raw = v.raw => u = v
  <2>1. \A e, f \in approvals : e.raw = f.raw => e = f
    BY DEF Approving
  <2> QED
    BY <2>1
<1>5. /\ \A x \in Elems(toClient') : x.kind = "ask" => x.raw \in Raws' /\ x.thread \in Threads
      /\ AskOnce(toClient')
  BY <1>2 DEF Approving, Fewer
<1>6. ASSUME NEW d, Told(d)
      PROVE  Told(d)'
  <2>1. \A u \in approvals' : u.raw # d.raw
    BY <1>6 DEF Told
  <2> QED
    BY <1>1, <1>2, <1>6, <2>1 DEF Told
<1>7. ASSUME NEW s, Seen(s)
      PROVE  Seen(s)'
  <2>1. ASSUME started, s.gen = gen, NEW u \in approvals', u.raw = s.raw, s.context # NoContext
        PROVE  u.context = s.context \/ u.invalidated
    <3>1. PICK e \in approvals : u = F[e]
      OBVIOUS
    <3>2. e.raw = s.raw /\ (e.context = s.context \/ e.invalidated)
      BY <1>7, <2>1, <3>1 DEF Seen
    <3> QED
      BY <2>1, <3>1, <3>2
  <2> QED
    BY <1>1, <1>2, <1>7, <2>1 DEF Seen
<1>8. (\A d \in Elems(told) : Told(d))' /\ (IsQueue(told) /\ ToldOnce(told))' /\ (\A s \in shown : Seen(s))'
  BY <1>6, <1>7 DEF Approving
<1>9. ASSUME NEW c \in Calls, call'[c].op = "decide"
      PROVE  (call[c].as = AnyApproval \/ Seen(call[c].as))'
  <2>1. PICK s : s = call[c].as
    OBVIOUS
  <2>2. s = AnyApproval \/ Seen(s)
    BY <1>9, <2>1 DEF Approving
  <2>3. s = AnyApproval \/ Seen(s)'
    BY <1>7, <2>2
  <2> QED
    BY <2>1, <2>3 DEF Seen, AnyApproval
<1>10. (\A e \in approvals : Pending(e) /\ ~OnItsWay(toClient, e.raw))'
  BY <1>3
<1> QED
  BY <1>2, <1>4, <1>5, <1>8, <1>9, <1>10 DEF Approving

\* An approval is asked for: it replaces none that is remembered.
LEMMA AskedApproval ==
  ASSUME CodexInv, UNCHANGED <<control, gen, started, aGen, call, shown, told, asked>>,
         Fewer(toClient', toClient), aGen = gen,
         NEW u, Pending(u), ~OnItsWay(toClient', u.raw), OnItsWay(toClient, u.raw),
         NEW A \in SUBSET approvals, approvals' = A \cup {u}
  PROVE  Approving'
<1> USE DEF CodexInv
<1>1. \A r : OnItsWay(toClient', r) => OnItsWay(toClient, r)
  BY DEF Fewer, OnItsWay
<1>2. Raws' = Raws /\ Numbered'
  BY DEF Approving, Raws, Numbered
<1>3. \A e \in A : Pending(e) /\ ~OnItsWay(toClient, e.raw) /\ e.raw # u.raw
  BY DEF Approving
<1>4. ASSUME NEW e, Pending(e)
      PROVE  Pending(e)'
  BY <1>2, <1>4 DEF Pending, ApprovalId
<1>5. (\A e \in approvals : Pending(e) /\ ~OnItsWay(toClient, e.raw))'
  BY <1>1, <1>3, <1>4
<1>6. (\A e, f \in approvals : e.raw = f.raw => e = f)'
  BY <1>3 DEF Approving
<1>7. /\ \A x \in Elems(toClient') : x.kind = "ask" => x.raw \in Raws' /\ x.thread \in Threads
      /\ AskOnce(toClient')
  BY <1>2 DEF Approving, Fewer
<1>8. ASSUME NEW d, Told(d)
      PROVE  Told(d)'
  BY <1>1, <1>2, <1>8 DEF Told
<1>9. ASSUME NEW s, Seen(s)
      PROVE  Seen(s)'
  BY <1>1, <1>2, <1>9 DEF Seen
<1>10. (\A d \in Elems(told) : Told(d))' /\ (IsQueue(told) /\ ToldOnce(told))' /\ (\A s \in shown : Seen(s))'
  BY <1>8, <1>9 DEF Approving
<1>11. ASSUME NEW c \in Calls, call'[c].op = "decide"
       PROVE  (call[c].as = AnyApproval \/ Seen(call[c].as))'
  <2>1. PICK s : s = call[c].as
    OBVIOUS
  <2>2. s = AnyApproval \/ Seen(s)
    BY <1>11, <2>1 DEF Approving
  <2>3. s = AnyApproval \/ Seen(s)'
    BY <1>9, <2>2
  <2> QED
    BY <2>1, <2>3 DEF Seen, AnyApproval
<1> QED
  BY <1>2, <1>5, <1>6, <1>7, <1>10, <1>11 DEF Approving

\* A message about a thread is heard, and changes approvals only.
LEMMA NotifiedInv ==
  ASSUME CodexInv, UNCHANGED control, Notified
  PROVE  CodexInv'
<1> USE DEF CodexInv
<1>0. PICK m, q : m = Head(toClient) /\ q = Tail(toClient)
  OBVIOUS
<1>1. /\ toClient # <<>> /\ toClient' = q
      /\ UNCHANGED <<gen, started, boot, req, toServer, aGen, aStarted, sub, call, shown, told,
                     resumed, asked>>
      /\ OnServerRequest(m) \/ OnItem(m) \/ OnTurn(m) \/ OnResolved(m)
  BY <1>0 DEF Notified, Chunk, serverVars
<1>2. Wires(toServer, toClient, call, req, resumed) /\ IsQueue(toClient)
  BY DEF Requesting, Wires
<1>3. Wires(toServer, q, call, req, resumed) /\ IsQueue(q)
  <2>1. Wires(toServer, q, call, req, resumed)
    BY <1>0, <1>1, <1>2, WiresDelivered
  <2> QED
    BY <2>1 DEF Wires
<1>4. /\ m \in Elems(toClient) /\ InOrder(q, toClient) /\ Elems(q) \subseteq Elems(toClient)
      /\ 1 \in DOMAIN toClient /\ toClient[1] = m
      /\ \A x \in Elems(q) : \E n \in DOMAIN toClient : n # 1 /\ toClient[n] = x
  BY <1>0, <1>1, <1>2, Taken
<1>5. Fewer(q, toClient)
  BY <1>2, <1>3, <1>4, FewerKept
<1>6. m.kind = "ask" => /\ OnItsWay(toClient, m.raw) /\ ~OnItsWay(q, m.raw)
                        /\ m.raw \in Raws /\ m.thread \in Threads
  <2>1. AskOnce(toClient) /\ (m.kind = "ask" => m.raw \in Raws /\ m.thread \in Threads)
    BY <1>4 DEF Approving
  <2> QED
    BY <1>4, <2>1 DEF OnItsWay, AskOnce
<1>7. Approving'
  <2>1. CASE approvals' \subseteq approvals
    BY <1>1, <1>5, <2>1, ApprovalsKept
  <2>2. CASE m.kind = "ask" /\ Mine(m.thread) /\ OnServerRequest(m)
    <3>1. PICK u : u = Entry(m)
      OBVIOUS
    <3>2. PICK A \in SUBSET approvals : approvals' = A \cup {u}
      BY <2>2, <3>1 DEF OnServerRequest
    <3>3. aGen = gen
      BY <2>2 DEF Mine
    <3>4. /\ u = [aid |-> ApprovalId(m.raw), raw |-> m.raw, gen |-> gen, thread |-> m.thread,
                  turn |-> m.turn, file |-> m.file,
                  context |-> IF m.file THEN context[m.turn] ELSE NoContext,
                  actionable |-> m.file => context[m.turn] # NoContext,
                  invalidated |-> FALSE]
      BY <3>1 DEF Entry
    <3>5. u.raw = m.raw /\ u.thread = m.thread /\ ~u.invalidated
      BY <3>4
    <3>6. u = [aid |-> ApprovalId(u.raw), raw |-> u.raw, gen |-> gen, thread |-> u.thread,
               turn |-> u.turn, file |-> u.file, context |-> u.context,
               actionable |-> u.actionable, invalidated |-> u.invalidated]
      BY <3>4
    <3>7. Pending(u)
      BY <1>6, <2>2, <3>3, <3>5, <3>6 DEF Pending
    <3>8. ~OnItsWay(toClient', u.raw) /\ OnItsWay(toClient, u.raw) /\ Fewer(toClient', toClient)
      BY <1>1, <1>5, <1>6, <2>2, <3>5
    <3> QED
      BY <1>1, <3>2, <3>3, <3>7, <3>8, AskedApproval
  <2>3. CASE OnItem(m) /\ Mine(m.thread)
    <3> DEFINE Fn == [e \in approvals |->
                        IF e.file /\ e.gen = gen /\ e.turn = m.turn THEN Updated(e, m.context) ELSE e]
    <3>1. approvals' = {Fn[e] : e \in approvals}
      BY <2>3 DEF OnItem
    <3>2. ASSUME NEW e \in approvals
          PROVE  /\ Pending(Fn[e]) /\ Fn[e].raw = e.raw
                 /\ e.context # NoContext => Fn[e].context = e.context \/ Fn[e].invalidated
                 /\ e.invalidated => Fn[e].invalidated
      <4>1. Fn[e] = Updated(e, m.context) \/ Fn[e] = e
        OBVIOUS
      <4>2. Pending(e)
        BY DEF Approving
      <4> HIDE DEF Fn
      <4>3. CASE Fn[e] = e
        BY <4>2, <4>3
      <4>4. CASE Fn[e] = Updated(e, m.context)
        <5>1. PICK w : w = Updated(e, m.context)
          OBVIOUS
        <5>2. /\ Pending(w) /\ w.raw = e.raw
              /\ e.context # NoContext => w.context = e.context \/ w.invalidated
              /\ e.invalidated => w.invalidated
          BY <4>2, <5>1, UpdatedApproval
        <5> QED
          BY <4>4, <5>1, <5>2
      <4> QED
        BY <4>1, <4>3, <4>4
    <3>3. PICK F : F = Fn
      OBVIOUS
    <3> HIDE DEF Fn
    <3>4. approvals' = {F[e] : e \in approvals}
      BY <3>1, <3>3
    <3>5. Fewer(toClient', toClient)
      BY <1>1, <1>5
    <3> QED
      BY <1>1, <3>2, <3>3, <3>4, <3>5, ApprovalsFollow
  <2> QED
    BY <1>1, <2>1, <2>2, <2>3
       DEF OnServerRequest, OnItem, OnTurn, OnResolved, ForgetWork, Work
<1>8. Connected'
  <2>1. started = TRUE
    BY <1>1, NoConnection DEF Connected
  <2> QED
    BY <1>1, <2>1 DEF Connected
<1>9. Requesting'
  <2>1. (\A t \in Threads : Subscribing(t)') /\ sub' = [t \in Threads |-> sub'[t]]
    BY <1>1, SubscriptionsKept
  <2>2. call' = [d \in Calls |-> call'[d]] /\ req' = [d \in Calls |-> req'[d]]
    BY <1>1 DEF Requesting
  <2>3. Wires(toServer', toClient', call', req', resumed')
    BY <1>1, <1>3
  <2> QED
    BY <1>1, <2>1, <2>2, <2>3, RequestsKept
<1> QED
  BY <1>7, <1>8, <1>9

-----------------------------------------------------------------------------
\* The invariant.

\* No call, no connection and nothing learnt at the start.
LEMMA CodexStarts == CodexInit => CodexInv
<1> SUFFICES ASSUME CodexInit
             PROVE  CodexInv
  OBVIOUS
<1> USE DEF CodexInit, RpcInit
<1>1. Connected
  <2>1. control \in BOOLEAN
    BY GenAssumption
  <2>2. boot \in Boots /\ boot \notin {"hello", "greeted", "up"} /\ boot # "wiring"
    BY DEF Boots
  <2>3. /\ ~started /\ started \in BOOLEAN
        /\ ~aStarted /\ aStarted \in BOOLEAN
    OBVIOUS
  <2>4. gen \in Nat /\ aGen \in Nat /\ aGen <= gen
    OBVIOUS
  <2>5. /\ toServer = <<>> /\ toClient = <<>>
        /\ approvals = {} /\ asked = {} /\ told = <<>>
    OBVIOUS
  <2> HIDE DEF CodexInit, RpcInit
  <2> QED
    BY <2>1, <2>2, <2>3, <2>4, <2>5, Zenon DEF Connected
<1>2. Requesting
  <2>1. Wires(toServer, toClient, call, req, resumed)
    BY WiresGone
  <2>2. \A c \in Calls : Calling(c, call[c], req[c])
    BY DEF Calling, Remembers, NoRequest, Awaits, Idle, Resuming
  <2>3. \A t \in Threads : Subscribing(t)
    BY DEF Subscribing
  <2> QED
    BY <2>1, <2>2, <2>3 DEF Requesting
<1>3. Approving
  <2>1. Numbered
    BY FS_EmptySet DEF Numbered
  <2>2. Elems(toClient) = {} /\ Elems(told) = {} /\ DOMAIN toClient = {} /\ DOMAIN told = {}
    BY DEF Elems
  <2>3. IsQueue(told) /\ ToldOnce(told) /\ AskOnce(toClient)
    <3>1. IsQueue(<<>>)
      BY WiresGone DEF Wires
    <3> QED
      BY <2>2, <3>1 DEF ToldOnce, AskOnce
  <2>4. \A c \in Calls : call[c].op # "decide"
    BY DEF Idle
  <2> QED
    BY <2>1, <2>2, <2>3, <2>4 DEF Approving
<1> QED
  BY <1>1, <1>2, <1>3 DEF CodexInv

\* Every step keeps it.
LEMMA CodexSteps == CodexInv /\ [CodexNext /\ UNCHANGED control]_codexVars => CodexInv'
<1> SUFFICES ASSUME CodexInv, [CodexNext /\ UNCHANGED control]_codexVars
             PROVE  CodexInv'
  OBVIOUS
<1>1. CASE UNCHANGED codexVars
  <2>1. UNCHANGED <<control, gen, started, boot, req, toServer, toClient, aGen, aStarted, sub,
                    approvals, call, shown, told, resumed, asked>>
    BY <1>1 DEF codexVars, rpcVars, adapterVars, histories, serverVars
  <2> QED
    BY <2>1 DEF CodexInv, Connected, Requesting, Approving, Wires, InFlight, Fits, Calling,
                Remembers, Discovers, Turning, Waits, Subscribing, Numbered, Raws, Pending,
                ApprovalId, Seen, Told
<1>2. CASE CodexNext /\ UNCHANGED control
  <2> USE <1>2
  <2>1. CASE Connection
    BY <2>1, OpensInv, StartFailsInv, TakeAnswerInv, TimesOutInv, WriteQueuedInv, OnConnectedInv,
       LostInv, NotifiedInv DEF Connection
  <2>2. ASSUME NEW c \in Calls, Step(c)
        PROVE  CodexInv'
    BY <2>2, DiscoverEntersInv, LoadedAnsweredInv, ResumeAnsweredInv, ResumeFailedInv,
       ListAnsweredInv, TurnCallEntersInv, OwnedResumedInv, TurnFoundInv, SteerFailedInv,
       ActedInv, DecisionEntersInv, ThrowsInv DEF Step
  <2>3. CASE Outside
    BY <2>3, BeginsInv, ExpiresInv DEF Outside
  <2>4. CASE AppServer
    BY <2>4, ServerHandlesInv, QuietlyInv, AskApprovalInv DEF AppServer
  <2> QED
    BY <2>1, <2>2, <2>3, <2>4 DEF CodexNext
<1> QED
  BY <1>1, <1>2

\* CodexInv: one connection at a time, one request of a call under way, and
\* approvals that are what their clients were shown, in every state.
THEOREM CodexInvariant == CodexSpec => []CodexInv
  BY CodexStarts, CodexSteps, PTL DEF CodexSpec

\* #resolveApproval and the timer of an approval answer what was asked on this
\* very connection, once, and under shared control what was shown.
LEMMA InvDecides == CodexInv => DecidesWhatWasShown
<1> SUFFICES ASSUME CodexInv, NEW i \in DOMAIN told
             PROVE  /\ \E a \in asked : Answers(told[i], a)
                    /\ \A j \in DOMAIN told : Answers(told[i], told[j]) => i = j
                    /\ control => Answers(told[i], told[i].as)
                    /\ control /\ told[i].as.context # NoContext
                         => told[i].as.context = told[i].context
  BY DEF DecidesWhatWasShown
<1>1. Told(told[i]) /\ ToldOnce(told)
  BY DEF CodexInv, Approving, Elems
<1>2. PICK a \in asked : a.raw = told[i].raw /\ a.gen = gen
  BY <1>1 DEF Told, Raws, CodexInv, Approving, Numbered
<1> QED
  BY <1>1, <1>2 DEF Told, ToldOnce, Answers

\* No approval is decided on a connection other than the one that asked for it,
\* twice, or as something other than what its client was shown (decide).
THEOREM DecidesThat == CodexSpec => []DecidesWhatWasShown
  BY CodexInvariant, InvDecides, PTL

\* prompt: under shared control a prompt is written once at most, and on the
\* connection the thread was found controllable on.
LEMMA InvPromptOnce == CodexInv => PromptOnce
<1> SUFFICES ASSUME CodexInv, NEW c \in Calls, call[c].op = "prompt", control
             PROVE  /\ call[c].wrote <= 1
                    /\ \A i \in DOMAIN toServer :
                          toServer[i].call = c /\ toServer[i].kind \in {"steer", "start"}
                            => call[c].gen = gen
  BY DEF PromptOnce
<1>1. Turning(call[c])
  BY TurnCalls
<1>2. ASSUME NEW i \in DOMAIN toServer, toServer[i].call = c, toServer[i].kind \in {"steer", "start"}
      PROVE  call[c].gen = gen
  <2>1. toServer[i] \in Elems(toServer)
    BY DEF Elems
  <2>2. Fits(call[c], toServer[i])
    BY <1>2, <2>1 DEF CodexInv, Requesting, Wires, InFlight
  <2> QED
    BY <1>2, <2>2 DEF Fits, Delivery
<1> QED
  BY <1>1, <1>2 DEF Turning

\* However its answers are lost, a prompt under shared control reaches the server
\* once at most, on the connection it was bound to (prompt).
THEOREM PromptsOnce == CodexSpec => []PromptOnce
  BY CodexInvariant, InvPromptOnce, PTL

\* #syncLoadedThreads: under shared control a thread counts as subscribed on
\* the live connection only if it was resumed there, or is being.
LEMMA InvSubscribed == CodexInv => SubscriptionIsLive
<1> SUFFICES ASSUME CodexInv, NEW t \in Threads, control, boot = "up", sub[t] = gen
             PROVE  \/ t \in resumed
                    \/ \E c \in Calls : call[c].op = "discover" /\ call[c].at = "resume"
                                        /\ call[c].thread = t
  BY DEF SubscriptionIsLive
<1>1. started /\ Subscribing(t)
  BY DEF CodexInv, Connected, Requesting
<1> QED
  BY <1>1, CodexAssumption DEF Subscribing, Resuming

\* What #subscribedThreads says of a connection is never carried over to the next.
THEOREM SubscriptionsAreLive == CodexSpec => []SubscriptionIsLive
  BY CodexInvariant, InvSubscribed, PTL
=============================================================================
