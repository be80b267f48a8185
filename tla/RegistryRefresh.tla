---------------------------- MODULE RegistryRefresh ----------------------------
(***************************************************************************)
(* core/registry.js: passes of discovery over all adapters, the circuit of  *)
(* each adapter, and the snapshot with the agents of owned launches.        *)
(*                                                                         *)
(* An action is what runs from one event to the end of its microtasks.  The *)
(* beginning of a pass is one action: it admits every adapter and starts or *)
(* reuses its flight before the first await.  So is its end, with the pass  *)
(* that a queued change or an explicit caller starts right behind it.       *)
(*                                                                         *)
(* Adapters, their transports and the coordinator that activates and hides  *)
(* launches are external.  A call of an adapter may answer, fail or hang.   *)
(***************************************************************************)
EXTENDS Naturals

CONSTANTS
  Adapters,
  LaunchAdapters, \* adapters with launchCapabilities
  Transports,     \* adapters that tell when their transport is lost
  Launches,
  AdapterOf,      \* the adapter of the provider of each launch
  Clients,        \* callers of POST /v1/refresh
  Threshold       \* #circuitThreshold; more failures than this are not told apart

ASSUME RegistryAssumption ==
  /\ LaunchAdapters \subseteq Adapters /\ Transports \subseteq Adapters
  /\ AdapterOf \in [Launches -> LaunchAdapters]
  /\ Clients \cap Launches = {}
  /\ Threshold \in Nat \ {0}

VARIABLES
  stage,    \* "open", "closing" or "closed"
  refresh,  \* #refreshPromise and #currentRefreshForced
  part,     \* per adapter, where the pass is with it
  probe,    \* per adapter, admission.probe of the pass
  queued,   \* #adapterRefreshQueued
  followup, \* #forcedFollowupPromise
  caller,   \* who awaits the pass ("joined") or the follow-up ("behind")
  flight,   \* #adapterFlights; "told" is a launch adapter that was handed its
            \* records, "late" one that timed out
  missed,   \* launches activated or hidden since the flight began
  told,     \* the records the flight was handed
  circuit,  \* #circuits
  health,   \* #adapterHealth
  shown,    \* launches whose agent is in #agents
  view,     \* the other agents of an adapter in #agents
  place,    \* per launch; the "owned" ones are #ownedLaunches
  kept,     \* hidden launches whose agent the coordinator has to put back
  down,     \* adapters whose transport is lost or was never there
  cut       \* adapters whose transport was lost under their flight

passVars == <<refresh, part, probe>>
callVars == <<queued, followup, caller>>
flightVars == <<flight, missed, told, cut>>
launchVars == <<shown, place, kept>>
registryVars == <<stage, passVars, callVars, flightVars, circuit, health, launchVars,
                  view, down>>

Callers == Clients \cup Launches
Live == {"asked", "told"}
Owned == {l \in Launches : place[l] = "owned"}
Mine(a) == {l \in Launches : AdapterOf[l] = a}

ClosedCircuit ==
  [phase |-> "closed", failures |-> 0, backoff |-> FALSE, probing |-> FALSE, spent |-> FALSE]

RegistryInit ==
  /\ stage = "open" /\ refresh = "none"
  /\ part = [a \in Adapters |-> "over"] /\ probe = [a \in Adapters |-> FALSE]
  /\ queued = FALSE /\ followup = FALSE
  /\ caller = [c \in Callers |-> "idle"]
  /\ flight = [a \in Adapters |-> "none"]
  /\ missed = [a \in Adapters |-> {}] /\ told = [a \in Adapters |-> {}]
  /\ circuit = [a \in Adapters |-> ClosedCircuit]
  /\ health = [a \in Adapters |-> "loading"]
  /\ shown = {} /\ view = [a \in Adapters |-> "none"]
  /\ place \in [Launches -> {"unborn", "owned"}] /\ kept = {}
  /\ down = Transports /\ cut = {}

-----------------------------------------------------------------------------
(* The circuit of one adapter. *)

\* #admitAdapter
Admitted(c, force) ==
  /\ ~c.probing
  /\ IF force THEN c.failures = 0 \/ ~c.spent ELSE ~c.backoff

Probes(c, force) ==
  IF force THEN c.phase # "closed" \/ c.failures > 0 ELSE c.phase = "open"

ProbeTaken(c, force) ==
  [c EXCEPT !.phase = "half_open", !.probing = TRUE, !.spent = force \/ @]

PhaseAfter(failures) == IF failures >= Threshold THEN "open" ELSE "closed"

\* #recordCircuitOutcome: success, failure, and a timed-out flight met again.
Recovered(c) ==
  [c EXCEPT !.phase = "closed", !.failures = 0, !.backoff = FALSE, !.probing = FALSE]

Failed(c) ==
  LET failures == IF c.failures = Threshold THEN Threshold ELSE c.failures + 1
  IN  [c EXCEPT !.failures = failures, !.backoff = TRUE, !.probing = FALSE,
                !.phase = PhaseAfter(failures)]

\* Variant: the probe is not given back.
ReleasedKeepingProbe(c) == [c EXCEPT !.phase = PhaseAfter(c.failures), !.spent = FALSE]

Released(c) ==
  [c EXCEPT !.phase = PhaseAfter(c.failures), !.probing = FALSE, !.spent = FALSE]

\* #discardCircuitProbe
Discarded(c, probed) == IF probed THEN Released(c) ELSE c

-----------------------------------------------------------------------------
(* A pass. *)

\* refresh() without one under way, the circuits being cs.
Begins(force, cs) ==
  LET In == {a \in Adapters : Admitted(cs[a], force)}
      New == {a \in In : flight[a] = "none"}
  IN  /\ refresh' = IF force THEN "forced" ELSE "plain"
      /\ part' = [a \in Adapters |-> IF a \notin In THEN "over"
                                     ELSE IF a \in New THEN "waits" ELSE "reuses"]
      /\ probe' = [a \in Adapters |-> a \in In /\ Probes(cs[a], force)]
      /\ circuit' = [a \in Adapters |->
                       IF a \in In /\ Probes(cs[a], force) THEN ProbeTaken(cs[a], force)
                       ELSE cs[a]]
      /\ flight' = [a \in Adapters |-> IF a \in New THEN "asked" ELSE flight[a]]
      /\ UNCHANGED <<missed, told, cut>>

\* The timer.  With a pass under way it only joins it.
Tick ==
  /\ stage = "open" /\ refresh = "none"
  /\ Begins(FALSE, circuit)
  /\ UNCHANGED <<stage, callVars, health, launchVars, view, down>>

Joins(c) == caller' = [caller EXCEPT ![c] = "joined"]
\* #queueForcedFollowup
Queues(c) == followup' = TRUE /\ caller' = [caller EXCEPT ![c] = "behind"]

BeginsFor(c) ==
  /\ refresh = "none"
  /\ Begins(TRUE, circuit) /\ Joins(c)
  /\ UNCHANGED <<queued, followup>>

\* refresh({ force: true }), with what the live flights have missed being m.
Demands(c, m) ==
  \/ BeginsFor(c)
  \/ /\ refresh = "forced"
     /\ Joins(c) /\ missed' = m
     /\ UNCHANGED <<passVars, queued, followup, flight, told, cut, circuit>>
  \/ /\ refresh = "plain"
     /\ Queues(c) /\ missed' = m
     /\ UNCHANGED <<passVars, queued, flight, told, cut, circuit>>

\* Variant: a change of the owned launches only demands a refresh.
FollowsUpShared(c, m) == Demands(c, m)

\* refreshAfterOwnedLaunchChange
FollowsUp(c, m) ==
  \/ BeginsFor(c)
  \/ /\ refresh # "none"
     /\ Queues(c) /\ missed' = m
     /\ UNCHANGED <<passVars, queued, flight, told, cut, circuit>>

Demand(c) ==
  /\ stage = "open" /\ caller[c] = "idle"
  /\ Demands(c, missed)
  /\ UNCHANGED <<stage, health, launchVars, view, down>>

\* Callers after the pass; those of the follow-up are at s.
Answered(s) ==
  caller' = [c \in Callers |-> IF caller[c] = "behind" THEN s ELSE "idle"]

\* Variant: the follow-up finds its own promise still pending and awaits itself.
AwaitsItself == FALSE
\* The follow-up meets a plain pass and queues itself again behind it.
QueuedAgain == followup

\* The finally of a pass queues the pass of a change in a microtask that runs
\* before the follow-up's own.
RefreshEnds ==
  /\ refresh # "none" /\ \A a \in Adapters : part[a] = "over"
  /\ \/ /\ stage = "open" /\ queued
        /\ Begins(FALSE, circuit)
        /\ queued' = FALSE /\ followup' = QueuedAgain /\ Answered("behind")
     \/ /\ stage = "open" /\ ~queued /\ followup
        /\ Begins(TRUE, circuit)
        /\ followup' = FALSE /\ Answered("joined")
        /\ UNCHANGED queued
     \/ /\ stage # "open" \/ (~queued /\ ~followup)
        /\ refresh' = "none" /\ followup' = FALSE
        /\ Answered(IF followup THEN "idle" ELSE "behind")
        /\ UNCHANGED <<part, probe, queued, flightVars, circuit>>
  /\ UNCHANGED <<stage, health, launchVars, view, down>>

-----------------------------------------------------------------------------
(* The part of one adapter in a pass. *)

\* discoverLaunchAdapter: discover() has answered, discoverOwned() is called.
HandsRecords(a) ==
  /\ a \in LaunchAdapters /\ flight[a] = "asked"
  /\ flight' = [flight EXCEPT ![a] = "told"]
  /\ told' = [told EXCEPT ![a] = Owned \cap Mine(a)]
  /\ UNCHANGED <<stage, passVars, callVars, missed, cut, circuit, health, launchVars,
                 view, down>>

\* The pass is over with an adapter whose flight is f from now on.
Over(a, f) ==
  /\ part' = [part EXCEPT ![a] = "over"] /\ probe' = [probe EXCEPT ![a] = FALSE]
  /\ flight' = [flight EXCEPT ![a] = f]
  /\ missed' = [missed EXCEPT ![a] = {}] /\ told' = [told EXCEPT ![a] = {}]
  /\ cut' = cut \ {a}
  /\ UNCHANGED <<refresh, callVars>>

Lands(a) ==
  /\ stage = "open" /\ part[a] = "waits"
  /\ Over(a, "none")
  /\ UNCHANGED <<stage, place, kept, down>>

Answers(a) == Lands(a) /\ (a \in LaunchAdapters => flight[a] = "told")

\* normalizeOutcome.  Variant: the generation is not looked at.
SupersededNever(a) == FALSE
Superseded(a) == a \in LaunchAdapters /\ missed[a] # {}

\* Variant: an answer is taken whatever became of the transport.
CurrentAlways(a) == TRUE
\* isDiscoveryCurrent
Current(a) == a \in Transports => a \notin down \cup cut

\* A superseded answer says nothing, and its probe has to be given back.
AnswersSuperseded(a) ==
  /\ Answers(a) /\ Superseded(a)
  /\ circuit' = [circuit EXCEPT ![a] = Discarded(@, probe[a])]
  /\ UNCHANGED <<health, shown, view>>

AnswersWell(a) ==
  /\ Answers(a) /\ ~Superseded(a) /\ Current(a)
  /\ circuit' = [circuit EXCEPT ![a] = Recovered(@)]
  /\ health' = [health EXCEPT ![a] = "healthy"]
  /\ shown' = (shown \ Mine(a)) \cup (told[a] \cap Owned)
  /\ view' = IF a \in LaunchAdapters THEN view ELSE [view EXCEPT ![a] = "live"]

Failing(a) ==
  /\ circuit' = [circuit EXCEPT ![a] = Failed(@)]
  /\ health' = [health EXCEPT ![a] = "error"]
  /\ UNCHANGED shown

\* markStale: the agents stay, unknown and without actions.
MarksStale(a) == view' = [view EXCEPT ![a] = IF @ = "live" THEN "stale" ELSE @]

\* An answer that came over a transport that has since been lost.
AnswersCut(a) ==
  /\ Answers(a) /\ ~Superseded(a) /\ ~Current(a)
  /\ Failing(a) /\ MarksStale(a)

Fails(a) == Lands(a) /\ Failing(a) /\ UNCHANGED view

\* Variant: the deadline aborts the call, and the pass goes on waiting for it.
TimesOutAborting(a) ==
  stage = "open" /\ part[a] = "waits" /\ UNCHANGED registryVars

TimesOut(a) ==
  /\ stage = "open" /\ part[a] = "waits"
  /\ Over(a, "late")
  /\ circuit' = [circuit EXCEPT ![a] = Failed(@)]
  /\ health' = [health EXCEPT ![a] = "timeout"]
  /\ UNCHANGED <<stage, launchVars, view, down>>

\* A flight that timed out is still there: no new one is started.
Reuses(a) ==
  /\ stage = "open" /\ part[a] = "reuses"
  /\ Over(a, flight[a])
  /\ circuit' = [circuit EXCEPT ![a] = Released(@)]
  /\ health' = [health EXCEPT ![a] = "timeout"]
  /\ UNCHANGED <<stage, launchVars, view, down>>

\* The adapter ends a call that has timed out; what it says is dropped.
LateSettles(a) ==
  /\ flight[a] = "late"
  /\ flight' = [flight EXCEPT ![a] = "none"]
  /\ UNCHANGED <<stage, passVars, callVars, missed, told, cut, circuit, health, launchVars,
                 view, down>>

Settles(a) ==
  \/ AnswersSuperseded(a) \/ AnswersWell(a) \/ AnswersCut(a)
  \/ Fails(a) \/ TimesOut(a) \/ Reuses(a)

-----------------------------------------------------------------------------
(* Events of the adapters, and the clock. *)

\* onChange: a pass under way is followed by another.  The circuits are cs, and
\* the flights whose transport is lost are c.
Notices(cs, c) ==
  \/ /\ refresh = "none" /\ Begins(FALSE, cs)
     /\ UNCHANGED queued
  \/ /\ refresh # "none"
     /\ queued' = TRUE /\ circuit' = cs /\ cut' = c
     /\ UNCHANGED <<passVars, flight, missed, told>>

Changes(a) ==
  /\ stage = "open"
  /\ Notices(circuit, cut)
  /\ UNCHANGED <<stage, followup, caller, health, launchVars, view, down>>

LostUnder(a) == IF flight[a] \in Live THEN cut \cup {a} ELSE cut

\* A lost transport counts as a failure unless a flight is there to tell.
Disconnects(a) ==
  /\ stage = "open" /\ a \in Transports \ down
  /\ down' = down \cup {a}
  /\ Notices(IF flight[a] = "none" THEN [circuit EXCEPT ![a] = Failed(@)] ELSE circuit,
             LostUnder(a))
  /\ health' = [health EXCEPT ![a] = "error"]
  /\ MarksStale(a)
  /\ UNCHANGED <<stage, followup, caller, launchVars>>

\* External: discovery or an action of the adapter connects again.
Reconnects(a) ==
  /\ a \in down
  /\ down' = down \ {a}
  /\ UNCHANGED <<stage, passVars, callVars, flightVars, circuit, health, launchVars, view>>

\* now reaches nextAttemptAt, or is forcedProbeMinMs past lastForcedProbeAt.
BackoffElapses(a) ==
  /\ circuit[a].backoff
  /\ circuit' = [circuit EXCEPT ![a].backoff = FALSE]
  /\ UNCHANGED <<stage, passVars, callVars, flightVars, health, launchVars, view, down>>

ProbeRestores(a) ==
  /\ circuit[a].spent
  /\ circuit' = [circuit EXCEPT ![a].spent = FALSE]
  /\ UNCHANGED <<stage, passVars, callVars, flightVars, health, launchVars, view, down>>

-----------------------------------------------------------------------------
(* Owned launches, as the coordinator calls. *)

\* #ownedLaunchGeneration moves on under the live flights.
LeftBehind(l) ==
  [a \in Adapters |-> IF flight[a] \in Live THEN missed[a] \cup {l} ELSE missed[a]]

Coordinates(l, from) ==
  /\ stage = "open" /\ caller[l] = "idle" /\ place[l] = from
  /\ UNCHANGED <<stage, health, view, down>>

\* #settle: an owned launch, and a refresh that may join one under way.
Activate(l) ==
  /\ Coordinates(l, "unborn")
  /\ place' = [place EXCEPT ![l] = "owned"]
  /\ Demands(l, LeftBehind(l))
  /\ UNCHANGED <<shown, kept>>

\* Variant: a launch that is hidden keeps its agent in the snapshot.
EvictedNot(l) == shown
\* #evictCachedOwnedAgent
Evicted(l) == shown \ {l}

\* deactivateOwnedLaunch.  The agent it returns is what may be put back.
Hidden(l) ==
  /\ Coordinates(l, "owned")
  /\ place' = [place EXCEPT ![l] = "hidden"]
  /\ shown' = Evicted(l)
  /\ kept' = IF l \in shown THEN kept \cup {l} ELSE kept

Deactivate(l) == Hidden(l) /\ FollowsUp(l, LeftBehind(l))

\* A preparation that is uncertain hides the launch and asks for no refresh.
HideUncertain(l) ==
  /\ Hidden(l)
  /\ missed' = LeftBehind(l)
  /\ UNCHANGED <<passVars, callVars, flight, told, cut, circuit>>

\* A retirement asked for again, or completed: the launch is hidden already.
Recheck(l) ==
  /\ Coordinates(l, "hidden")
  /\ place' \in {place, [place EXCEPT ![l] = "gone"]}
  /\ FollowsUp(l, missed)
  /\ UNCHANGED <<shown, kept>>

\* activateOwnedLaunch with the agent that deactivation returned, if the caller
\* that restores the launch is the one that evicted it.
Restore(l) ==
  /\ Coordinates(l, "hidden")
  /\ place' = [place EXCEPT ![l] = "owned"]
  /\ shown' \in {shown, shown \cup ({l} \cap kept)}
  /\ kept' = kept \ {l}
  /\ FollowsUp(l, LeftBehind(l))

\* The coordinator's own deadline or abort: the follow-up itself stays queued.
GivesUp(l) ==
  /\ caller[l] # "idle"
  /\ caller' = [caller EXCEPT ![l] = "idle"]
  /\ UNCHANGED <<stage, passVars, queued, followup, flightVars, circuit, health, launchVars,
                 view, down>>

-----------------------------------------------------------------------------
(* close(): the coordinator has been stopped. *)

Close ==
  /\ stage = "open"
  /\ stage' = "closing"
  /\ UNCHANGED <<passVars, callVars, flightVars, circuit, health, launchVars, view, down>>

\* #closedOutcome wins the race, or what the flight answers is not applied.
CutOff(a) ==
  /\ stage = "closing" /\ part[a] # "over"
  /\ Over(a, IF part[a] = "waits" THEN "none" ELSE flight[a])
  /\ UNCHANGED <<stage, circuit, health, launchVars, view, down>>

CloseEnds ==
  /\ stage = "closing" /\ refresh = "none"
  /\ stage' = "closed"
  /\ flight' = [a \in Adapters |-> "none"]
  /\ place' = [l \in Launches |-> IF l \in Owned THEN "gone" ELSE place[l]]
  /\ UNCHANGED <<passVars, callVars, missed, told, cut, circuit, health, shown, kept, view,
                 down>>

-----------------------------------------------------------------------------
RegistryNext ==
  \/ Tick \/ RefreshEnds \/ Close \/ CloseEnds
  \/ \E c \in Clients : Demand(c)
  \/ \E a \in Adapters :
       \/ HandsRecords(a) \/ Settles(a) \/ LateSettles(a) \/ CutOff(a)
       \/ Changes(a) \/ Disconnects(a) \/ Reconnects(a)
       \/ BackoffElapses(a) \/ ProbeRestores(a)
  \/ \E l \in Launches :
       \/ Activate(l) \/ Deactivate(l) \/ HideUncertain(l) \/ Recheck(l) \/ Restore(l)
       \/ GivesUp(l)

RegistrySpec == RegistryInit /\ [][RegistryNext]_registryVars

-----------------------------------------------------------------------------
(* Safety. *)

Circuit ==
  [phase : {"closed", "open", "half_open"}, failures : 0..Threshold,
   backoff : BOOLEAN, probing : BOOLEAN, spent : BOOLEAN]

\* The state of AgentRegistry has these values.  A flight that has not timed out
\* is awaited by the pass under way, so no adapter is asked twice at a time.
RegistryTypeOK ==
  /\ stage \in {"open", "closing", "closed"}
  /\ refresh \in {"none", "plain", "forced"}
  /\ part \in [Adapters -> {"over", "waits", "reuses"}]
  /\ probe \in [Adapters -> BOOLEAN]
  /\ queued \in BOOLEAN /\ followup \in BOOLEAN
  /\ caller \in [Callers -> {"idle", "joined", "behind"}]
  /\ flight \in [Adapters -> {"none", "asked", "told", "late"}]
  /\ missed \in [Adapters -> SUBSET Launches] /\ told \in [Adapters -> SUBSET Launches]
  /\ cut \subseteq Adapters /\ down \subseteq Transports
  /\ circuit \in [Adapters -> Circuit]
  /\ health \in [Adapters -> {"loading", "healthy", "error", "timeout"}]
  /\ shown \subseteq Launches /\ kept \subseteq Launches
  /\ view \in [Adapters -> {"none", "live", "stale"}]
  /\ place \in [Launches -> {"unborn", "owned", "hidden", "gone"}]
  /\ \A a \in Adapters : flight[a] \in Live <=> part[a] = "waits"
  /\ refresh = "none" => \A a \in Adapters : part[a] = "over"

\* A probe in flight is always the probe of a pass that still awaits its adapter:
\* probeInFlight refuses every pass, so a probe nobody gives back (a superseded,
\* a reused, a cut discovery) would keep the adapter out for good.
ProbeIsAwaited ==
  stage = "open" =>
    \A a \in Adapters :
      /\ circuit[a].probing => part[a] # "over" /\ probe[a]
      /\ circuit[a].phase = "half_open" <=> circuit[a].probing

\* The snapshot has no agent of a launch that is not owned, whatever discovery
\* was under way when the launch was hidden.
ShownIsOwned == stage # "closed" => shown \subseteq Owned

\* An agent of an owned launch leaves the snapshot only with its ownership: no
\* discovery begun before the launch was activated or restored takes it away.
OwnedStaysShown == [][\A l \in shown : l \in shown' \/ l \notin Owned']_registryVars

\* The retirement that awaits the refresh after a hiding awaits a discovery that
\* began with the launch hidden, never one that was handed its record.
HidingIsSeen ==
  \A l \in Launches :
    caller[l] = "joined" /\ place[l] \in {"hidden", "gone"} =>
      \A a \in Adapters : flight[a] \in Live => l \notin missed[a] \cup told[a]

\* While its transport is down an adapter has no agent with a live status.
DownIsNotLive == \A a \in down : view[a] # "live"

\* An adapter reported healthy has a closed circuit with nothing counted, and no
\* discovery that never came back; an open circuit has counted its threshold.
HealthTellsCircuit ==
  stage = "open" =>
    \A a \in Adapters :
      /\ health[a] = "healthy" =>
           circuit[a].failures = 0 /\ ~circuit[a].backoff /\ flight[a] # "late"
      /\ circuit[a].phase = "open" => circuit[a].failures = Threshold

\* An explicit caller that has been let in awaits a forced pass, and one that has
\* not is behind a follow-up that exists: "never lost behind a scheduled pass".
ExplicitIsForced ==
  stage = "open" =>
    \A c \in Callers :
      /\ caller[c] = "joined" => refresh = "forced"
      /\ caller[c] = "behind" => followup /\ refresh # "none"

-----------------------------------------------------------------------------
(* Liveness.  The timer ticks, timeouts fire and the clock moves.  An adapter *)
(* owes nothing but, in AdapterAskedAgain, the end of a call it was told to   *)
(* abort.                                                                    *)

RegistryFairness ==
  /\ WF_registryVars(Tick) /\ WF_registryVars(RefreshEnds)
  /\ \A a \in Adapters :
       /\ WF_registryVars(TimesOut(a)) /\ WF_registryVars(Reuses(a))
       /\ WF_registryVars(CutOff(a))
       /\ WF_registryVars(BackoffElapses(a)) /\ WF_registryVars(ProbeRestores(a))

AbortsHeeded == \A a \in Adapters : WF_registryVars(LateSettles(a))

FairRegistrySpec == RegistrySpec /\ RegistryFairness
HeedingRegistrySpec == FairRegistrySpec /\ AbortsHeeded

\* A pass ends for those who joined it, though every adapter hangs.
PassEnds == \A c \in Callers : caller[c] = "joined" ~> caller[c] # "joined"

\* A caller behind a scheduled pass is served once the adapters' changes stop
\* coming in the middle of every pass.
ExplicitServed == <>[]~queued => \A c \in Callers : caller[c] = "behind" ~> caller[c] = "idle"

\* An adapter with an open circuit is asked again, unless its transport comes and
\* goes for ever: each loss counts as a failure and puts the next attempt off.
AdapterAskedAgain ==
  \A a \in Adapters :
    <>[](a \in down) \/ <>[](a \notin down) =>
      (circuit[a].phase = "open" ~> flight[a] \in Live \/ stage # "open")
=============================================================================
