------------------------ MODULE RegistryRefreshProofs ------------------------
(***************************************************************************)
(* What RegistryRefresh promises in every state, for any adapters, launches *)
(* and threshold.  The proofs follow the state: its values and the flights  *)
(* under way, then the circuits, the owned launches and the callers.        *)
(***************************************************************************)
EXTENDS RegistryRefresh, TLAPS

USE DEF Live, Callers

-----------------------------------------------------------------------------
(* Values. *)

\* Every change of a circuit gives a circuit.
LEMMA CircuitTyped ==
  ASSUME NEW c \in Circuit, NEW force \in BOOLEAN, NEW probed \in BOOLEAN
  PROVE  /\ ProbeTaken(c, force) \in Circuit
         /\ Recovered(c) \in Circuit /\ Failed(c) \in Circuit
         /\ Released(c) \in Circuit /\ Discarded(c, probed) \in Circuit
<1>1. Threshold \in Nat \ {0}
  BY RegistryAssumption DEF RegistryAssumption
<1>2. ProbeTaken(c, force) \in Circuit
  <2>1. (force \/ c.spent) \in BOOLEAN
    OBVIOUS
  <2>2. QED BY <2>1 DEF Circuit, ProbeTaken
<1>3. Recovered(c) \in Circuit
  <2>1. 0 \in 0..Threshold
    BY <1>1
  <2>2. QED BY <2>1 DEF Circuit, Recovered
<1>4. Failed(c) \in Circuit
  <2> DEFINE f == IF c.failures = Threshold THEN Threshold ELSE c.failures + 1
  <2>1. f \in 0..Threshold
    BY <1>1 DEF Circuit
  <2>2. PhaseAfter(f) \in {"closed", "open", "half_open"}
    BY DEF PhaseAfter
  <2>3. Failed(c) = [c EXCEPT !.failures = f, !.backoff = TRUE, !.probing = FALSE,
                              !.phase = PhaseAfter(f)]
    BY DEF Failed
  <2> HIDE DEF f
  <2>4. QED BY <2>1, <2>2, <2>3 DEF Circuit
<1>5. Released(c) \in Circuit
  BY <1>1 DEF Circuit, Released, PhaseAfter
<1>6. QED BY <1>2, <1>3, <1>4, <1>5 DEF Discarded

\* The beginning of a pass, with the circuits of the moment.
LEMMA BeginsTyped ==
  ASSUME RegistryTypeOK, refresh = "none" \/ \A a \in Adapters : part[a] = "over",
         NEW force \in BOOLEAN, NEW cs \in [Adapters -> Circuit], Begins(force, cs)
  PROVE  /\ refresh' \in {"plain", "forced"}
         /\ part' \in [Adapters -> {"over", "waits", "reuses"}]
         /\ probe' \in [Adapters -> BOOLEAN]
         /\ flight' \in [Adapters -> {"none", "asked", "told", "late"}]
         /\ missed' = missed /\ told' = told /\ cut' = cut
         /\ circuit' \in [Adapters -> Circuit]
         /\ \A a \in Adapters : flight'[a] \in Live <=> part'[a] = "waits"
<1>1. \A a \in Adapters : part[a] = "over" /\ flight[a] \in {"none", "late"}
  BY DEF RegistryTypeOK
<1>2. \A a \in Adapters : ProbeTaken(cs[a], force) \in Circuit
  BY CircuitTyped
<1>3. circuit' \in [Adapters -> Circuit]
  BY <1>2 DEF Begins
<1>4. \A a \in Adapters : flight'[a] \in Live <=> part'[a] = "waits"
  BY <1>1 DEF Begins
<1>5. /\ part' \in [Adapters -> {"over", "waits", "reuses"}]
      /\ flight' \in [Adapters -> {"none", "asked", "told", "late"}]
  BY <1>1 DEF Begins
<1>6. probe' \in [Adapters -> BOOLEAN]
  BY DEF Begins, Probes
<1>7. refresh' \in {"plain", "forced"} /\ missed' = missed /\ told' = told /\ cut' = cut
  BY DEF Begins
<1>8. QED BY <1>3, <1>4, <1>5, <1>6, <1>7

\* Giving an adapter's part up leaves the values sound.
LEMMA OverTyped ==
  ASSUME RegistryTypeOK, NEW a \in Adapters, NEW f \in {"none", "late"}, Over(a, f)
  PROVE  /\ part' \in [Adapters -> {"over", "waits", "reuses"}]
         /\ probe' \in [Adapters -> BOOLEAN]
         /\ flight' \in [Adapters -> {"none", "asked", "told", "late"}]
         /\ missed' \in [Adapters -> SUBSET Launches]
         /\ told' \in [Adapters -> SUBSET Launches]
         /\ cut' \subseteq Adapters
         /\ refresh' = refresh /\ queued' = queued /\ followup' = followup
         /\ caller' = caller
         /\ \A b \in Adapters : flight'[b] \in Live <=> part'[b] = "waits"
         /\ refresh' = "none" => \A b \in Adapters : part'[b] = "over"
  BY DEF RegistryTypeOK, Over, callVars

\* Callers of a pass.
LEMMA DemandsTyped ==
  ASSUME RegistryTypeOK, NEW c \in Callers, NEW m \in [Adapters -> SUBSET Launches],
         Demands(c, m) \/ FollowsUp(c, m)
  PROVE  /\ refresh' \in {"none", "plain", "forced"}
         /\ part' \in [Adapters -> {"over", "waits", "reuses"}]
         /\ probe' \in [Adapters -> BOOLEAN]
         /\ queued' \in BOOLEAN /\ followup' \in BOOLEAN
         /\ caller' \in [Callers -> {"idle", "joined", "behind"}]
         /\ flight' \in [Adapters -> {"none", "asked", "told", "late"}]
         /\ missed' \in [Adapters -> SUBSET Launches]
         /\ told' \in [Adapters -> SUBSET Launches]
         /\ cut' \subseteq Adapters
         /\ circuit' \in [Adapters -> Circuit]
         /\ \A a \in Adapters : flight'[a] \in Live <=> part'[a] = "waits"
         /\ refresh' = "none" => \A a \in Adapters : part'[a] = "over"
<1>1. CASE BeginsFor(c)
  <2>1. refresh = "none" /\ Begins(TRUE, circuit)
    BY <1>1 DEF BeginsFor
  <2>2. circuit \in [Adapters -> Circuit]
    BY DEF RegistryTypeOK
  <2>3. QED BY ZenonT(60), <1>1, <2>1, <2>2, BeginsTyped DEF BeginsFor, Joins, RegistryTypeOK
<1>2. CASE Joins(c) /\ missed' = m
           /\ UNCHANGED <<passVars, queued, followup, flight, told, cut, circuit>>
  BY <1>2 DEF Joins, RegistryTypeOK, passVars
<1>3. CASE Queues(c) /\ missed' = m
           /\ UNCHANGED <<passVars, queued, flight, told, cut, circuit>>
  BY <1>3 DEF Queues, RegistryTypeOK, passVars
<1>4. QED BY <1>1, <1>2, <1>3 DEF Demands, FollowsUp

\* The launches that the live flights miss.
LEMMA LeftBehindTyped ==
  ASSUME RegistryTypeOK, NEW l \in Launches
  PROVE  LeftBehind(l) \in [Adapters -> SUBSET Launches]
  BY DEF RegistryTypeOK, LeftBehind

\* An event of an adapter.
LEMMA NoticesTyped ==
  ASSUME RegistryTypeOK, NEW cs \in [Adapters -> Circuit], NEW c \in SUBSET Adapters,
         Notices(cs, c)
  PROVE  /\ refresh' \in {"none", "plain", "forced"}
         /\ part' \in [Adapters -> {"over", "waits", "reuses"}]
         /\ probe' \in [Adapters -> BOOLEAN]
         /\ queued' \in BOOLEAN
         /\ flight' \in [Adapters -> {"none", "asked", "told", "late"}]
         /\ missed' = missed /\ told' = told /\ cut' \subseteq Adapters
         /\ circuit' \in [Adapters -> Circuit]
         /\ \A a \in Adapters : flight'[a] \in Live <=> part'[a] = "waits"
         /\ refresh' = "none" => \A a \in Adapters : part'[a] = "over"
<1>1. CASE refresh = "none" /\ Begins(FALSE, cs) /\ UNCHANGED queued
  BY <1>1, BeginsTyped DEF RegistryTypeOK
<1>2. CASE refresh # "none" /\ queued' = TRUE /\ circuit' = cs /\ cut' = c
           /\ UNCHANGED <<passVars, flight, missed, told>>
  BY <1>2 DEF RegistryTypeOK, passVars
<1>3. QED BY <1>1, <1>2 DEF Notices

\* The registry starts with sound values.
LEMMA InitTyped == RegistryInit => RegistryTypeOK
<1> SUFFICES ASSUME RegistryInit PROVE RegistryTypeOK
  OBVIOUS
<1>1. ClosedCircuit \in Circuit
  BY RegistryAssumption DEF RegistryAssumption, Circuit, ClosedCircuit
<1>2. QED BY <1>1 DEF RegistryInit, RegistryTypeOK

\* Every step keeps the values of the registry sound.
LEMMA StepTyped ==
  ASSUME RegistryTypeOK, [RegistryNext]_registryVars
  PROVE  RegistryTypeOK'
<1> USE DEF callVars, launchVars
<1>1. CASE Tick
  BY ZenonT(60), <1>1, BeginsTyped DEF Tick, RegistryTypeOK
<1>2. CASE RefreshEnds
  <2>1. caller' \in [Callers -> {"idle", "joined", "behind"}] /\ followup' \in BOOLEAN
    BY ZenonT(60), <1>2 DEF RefreshEnds, Answered, QueuedAgain, RegistryTypeOK
  <2>2. CASE Begins(FALSE, circuit) /\ queued' = FALSE
    BY ZenonT(60), <1>2, <2>1, <2>2, BeginsTyped DEF RefreshEnds, RegistryTypeOK
  <2>3. CASE Begins(TRUE, circuit) /\ UNCHANGED queued
    BY ZenonT(60), <1>2, <2>1, <2>3, BeginsTyped DEF RefreshEnds, RegistryTypeOK
  <2>4. CASE refresh' = "none" /\ UNCHANGED <<part, probe, queued, flightVars, circuit>>
    BY <1>2, <2>1, <2>4 DEF RefreshEnds, RegistryTypeOK, flightVars
  <2>5. QED BY <1>2, <2>2, <2>3, <2>4 DEF RefreshEnds
<1>3. CASE Close
  BY <1>3 DEF Close, RegistryTypeOK, passVars, flightVars
<1>4. CASE CloseEnds
  BY <1>4 DEF CloseEnds, RegistryTypeOK, passVars
<1>5. ASSUME NEW c \in Clients, Demand(c) PROVE RegistryTypeOK'
  BY <1>5, DemandsTyped DEF Demand, RegistryTypeOK
<1>6. ASSUME NEW a \in Adapters, HandsRecords(a) PROVE RegistryTypeOK'
  BY <1>6 DEF HandsRecords, RegistryTypeOK, passVars, Owned, Mine
<1>7. ASSUME NEW a \in Adapters, Settles(a) PROVE RegistryTypeOK'
  <2>1. /\ circuit[a] \in Circuit /\ probe[a] \in BOOLEAN
        /\ circuit \in [Adapters -> Circuit]
    BY DEF RegistryTypeOK
  <2>2. circuit' \in [Adapters -> Circuit]
    BY <1>7, <2>1, CircuitTyped
       DEF Settles, AnswersSuperseded, AnswersWell, AnswersCut, Fails, Failing, TimesOut, Reuses
  <2>3. /\ health' \in [Adapters -> {"loading", "healthy", "error", "timeout"}]
        /\ view' \in [Adapters -> {"none", "live", "stale"}]
        /\ shown' \subseteq Launches
    BY <1>7 DEF Settles, AnswersSuperseded, AnswersWell, AnswersCut, Fails, Failing, TimesOut,
                Reuses, MarksStale, RegistryTypeOK, Owned, Mine
  <2>4. /\ UNCHANGED <<stage, place, kept, down>>
        /\ Over(a, "none") \/ Over(a, "late")
    BY <1>7 DEF Settles, AnswersSuperseded, AnswersWell, AnswersCut, Fails, Answers, Lands,
                TimesOut, Reuses, RegistryTypeOK
  <2>5. QED BY <2>2, <2>3, <2>4, OverTyped DEF RegistryTypeOK
<1>8. ASSUME NEW a \in Adapters, LateSettles(a) PROVE RegistryTypeOK'
  BY <1>8 DEF LateSettles, RegistryTypeOK, passVars
<1>9. ASSUME NEW a \in Adapters, CutOff(a) PROVE RegistryTypeOK'
  <2>1. Over(a, "none") \/ Over(a, "late")
    BY <1>9 DEF CutOff, RegistryTypeOK
  <2>2. QED BY <1>9, <2>1, OverTyped DEF CutOff, RegistryTypeOK
<1>10. ASSUME NEW a \in Adapters, Changes(a) PROVE RegistryTypeOK'
  BY <1>10, NoticesTyped DEF Changes, RegistryTypeOK
<1>11. ASSUME NEW a \in Adapters, Disconnects(a) PROVE RegistryTypeOK'
  <2>1. Failed(circuit[a]) \in Circuit /\ LostUnder(a) \in SUBSET Adapters
    BY CircuitTyped DEF RegistryTypeOK, LostUnder
  <2>2. PICK cs \in [Adapters -> Circuit] : Notices(cs, LostUnder(a))
    BY <1>11, <2>1 DEF Disconnects, RegistryTypeOK
  <2>3. /\ health' \in [Adapters -> {"loading", "healthy", "error", "timeout"}]
        /\ view' \in [Adapters -> {"none", "live", "stale"}]
        /\ down' \subseteq Transports
        /\ UNCHANGED <<stage, followup, caller, launchVars>>
    BY <1>11 DEF Disconnects, MarksStale, RegistryTypeOK
  <2>4. QED BY <2>1, <2>2, <2>3, NoticesTyped DEF RegistryTypeOK
<1>12. ASSUME NEW a \in Adapters, Reconnects(a) PROVE RegistryTypeOK'
  BY <1>12 DEF Reconnects, RegistryTypeOK, passVars, flightVars
<1>13. ASSUME NEW a \in Adapters, BackoffElapses(a) \/ ProbeRestores(a)
       PROVE  RegistryTypeOK'
  <2>1. /\ [circuit[a] EXCEPT !.backoff = FALSE] \in Circuit
        /\ [circuit[a] EXCEPT !.spent = FALSE] \in Circuit
    <3>1. circuit[a] \in Circuit
      BY DEF RegistryTypeOK
    <3>2. QED BY <3>1 DEF Circuit
  <2>3. circuit' \in [Adapters -> Circuit]
    <3>1. circuit \in [Adapters -> Circuit]
      BY DEF RegistryTypeOK
    <3>2. \/ circuit' = [circuit EXCEPT ![a] = [circuit[a] EXCEPT !.backoff = FALSE]]
          \/ circuit' = [circuit EXCEPT ![a] = [circuit[a] EXCEPT !.spent = FALSE]]
      BY <1>13 DEF BackoffElapses, ProbeRestores
    <3>3. QED BY <2>1, <3>1, <3>2
  <2>4. QED BY <1>13, <2>3
            DEF BackoffElapses, ProbeRestores, RegistryTypeOK, passVars, flightVars
<1>14. ASSUME NEW l \in Launches, GivesUp(l) PROVE RegistryTypeOK'
  BY <1>14 DEF GivesUp, RegistryTypeOK, passVars, flightVars
<1>15. ASSUME NEW l \in Launches,
              Activate(l) \/ Deactivate(l) \/ Recheck(l) \/ Restore(l)
       PROVE  RegistryTypeOK'
  <2>1. PICK m \in [Adapters -> SUBSET Launches] : Demands(l, m) \/ FollowsUp(l, m)
    BY <1>15, LeftBehindTyped DEF Activate, Deactivate, Recheck, Restore, RegistryTypeOK
  <2>2. /\ UNCHANGED <<stage, health, view, down>>
        /\ shown' \subseteq Launches /\ kept' \subseteq Launches
        /\ place' \in [Launches -> {"unborn", "owned", "hidden", "gone"}]
    BY <1>15 DEF Activate, Deactivate, Hidden, Evicted, Recheck, Restore, Coordinates,
                 RegistryTypeOK
  <2>3. QED BY <2>1, <2>2, DemandsTyped DEF RegistryTypeOK
<1>16. ASSUME NEW l \in Launches, HideUncertain(l) PROVE RegistryTypeOK'
  BY <1>16, LeftBehindTyped
     DEF HideUncertain, Hidden, Evicted, Coordinates, RegistryTypeOK, passVars
<1>17. CASE UNCHANGED registryVars
  BY <1>17 DEF registryVars, RegistryTypeOK, passVars, flightVars
<1>18. QED
  BY <1>1, <1>2, <1>3, <1>4, <1>5, <1>6, <1>7, <1>8, <1>9, <1>10, <1>11, <1>12, <1>13,
     <1>14, <1>15, <1>16, <1>17 DEF RegistryNext

\* The values of the registry are sound, and a flight that has not timed out has
\* the pass under way waiting for it.
THEOREM RegistryTypeCorrect == RegistrySpec => []RegistryTypeOK
  BY InitTyped, StepTyped, PTL DEF RegistrySpec

-----------------------------------------------------------------------------
(* Owned launches.  A flight that was handed its records and has missed no   *)
(* change since was handed the launches owned now: that is what the          *)
(* generation tells, and why an answer of the same generation may replace    *)
(* what is shown.                                                           *)

Handed ==
  \A a \in Adapters :
    /\ flight[a] # "told" => told[a] = {}
    /\ flight[a] \notin Live => missed[a] = {}
    /\ flight[a] = "told" /\ missed[a] = {} => told[a] = Owned \cap Mine(a)

OwnedInv == Handed /\ ShownIsOwned /\ HidingIsSeen

\* What a step does to a flight that it does not hand to anyone.
Kept(a) == flight'[a] = flight[a] /\ missed'[a] = missed[a] /\ told'[a] = told[a]
Emptied(a) == flight'[a] # "told" /\ missed'[a] = {} /\ told'[a] = {}

\* The flights of a pass that begins are new, or late and empty.
LEMMA BeginsEmptied ==
  ASSUME RegistryTypeOK, Handed, refresh = "none" \/ \A a \in Adapters : part[a] = "over",
         NEW force, NEW cs, Begins(force, cs)
  PROVE  \A a \in Adapters : Emptied(a)
<1>1. \A a \in Adapters : flight[a] \notin Live
  BY DEF RegistryTypeOK
<1>2. QED BY <1>1 DEF Begins, Handed, Emptied, RegistryTypeOK

\* Steps that leave the launches alone.
LEMMA QuietStep ==
  ASSUME RegistryTypeOK, OwnedInv, UNCHANGED <<stage, place>>,
         \A a \in Adapters : Kept(a) \/ Emptied(a),
         shown' \subseteq Owned \/ shown' = shown,
         (\A a \in Adapters : Emptied(a))
           \/ \A l \in Launches : caller'[l] = "joined" => caller[l] = "joined"
  PROVE  OwnedInv'
<1>1. Handed'
  BY DEF OwnedInv, Handed, Kept, Emptied, Owned, Mine
<1>2. ShownIsOwned'
  BY DEF OwnedInv, ShownIsOwned, Owned
<1>3. HidingIsSeen'
  BY DEF OwnedInv, HidingIsSeen, Kept, Emptied
<1>4. QED BY <1>1, <1>2, <1>3 DEF OwnedInv

\* The adapter's part is over.
LEMMA OverQuiet ==
  ASSUME RegistryTypeOK, OwnedInv, NEW a \in Adapters, NEW f \in {"none", "late"},
         Over(a, f), UNCHANGED <<stage, place>>, shown' \subseteq Owned \/ shown' = shown
  PROVE  OwnedInv'
<1>1. \A b \in Adapters : Kept(b) \/ Emptied(b)
  BY DEF Over, Kept, Emptied, RegistryTypeOK
<1>2. caller' = caller
  BY DEF Over, callVars
<1>3. QED BY <1>1, <1>2, QuietStep

\* Someone who is no launch, or whose launch is not hidden, asks for a refresh;
\* or a launch, for one that begins or will begin after this step.
LEMMA AskedOwned ==
  ASSUME RegistryTypeOK, OwnedInv, NEW c \in Callers, NEW m \in [Adapters -> SUBSET Launches],
         \/ Demands(c, m) /\ (c \in Launches => place'[c] = "owned")
         \/ FollowsUp(c, m)
  PROVE  \/ \A a \in Adapters : Emptied(a)
         \/ /\ flight' = flight /\ told' = told /\ missed' = m
            /\ \A l \in Launches :
                 caller'[l] = "joined" => caller[l] = "joined" \/ place'[l] = "owned"
<1>1. CASE BeginsFor(c)
  BY <1>1, BeginsEmptied DEF BeginsFor, OwnedInv
<1>2. CASE Joins(c) /\ missed' = m
           /\ UNCHANGED <<passVars, queued, followup, flight, told, cut, circuit>>
           /\ (c \in Launches => place'[c] = "owned")
  BY <1>2 DEF Joins, RegistryTypeOK
<1>3. CASE Queues(c) /\ missed' = m
           /\ UNCHANGED <<passVars, queued, flight, told, cut, circuit>>
  BY <1>3 DEF Queues, RegistryTypeOK
<1>4. QED BY <1>1, <1>2, <1>3 DEF Demands, FollowsUp

\* The ownership of a launch changes: the live flights miss it.
LEMMA LaunchStep ==
  ASSUME RegistryTypeOK, OwnedInv, NEW l \in Launches, NEW p,
         place' = [place EXCEPT ![l] = p], caller[l] = "idle", stage' = stage,
         shown' \subseteq (shown \cup {l}) \cap Owned' \/ stage = "closed",
         \/ \A a \in Adapters : Emptied(a)
         \/ /\ flight' = flight /\ told' = told /\ missed' = LeftBehind(l)
            /\ \A k \in Launches :
                 caller'[k] = "joined" => caller[k] = "joined" \/ place'[k] = "owned"
  PROVE  OwnedInv'
<1>1. ShownIsOwned'
  BY DEF ShownIsOwned
<1>2. CASE \A a \in Adapters : Emptied(a)
  BY <1>1, <1>2 DEF OwnedInv, Handed, HidingIsSeen, Emptied
<1>3. CASE /\ flight' = flight /\ told' = told /\ missed' = LeftBehind(l)
           /\ \A k \in Launches :
                caller'[k] = "joined" => caller[k] = "joined" \/ place'[k] = "owned"
  <2>1. Handed'
    BY <1>3 DEF OwnedInv, Handed, LeftBehind, RegistryTypeOK
  <2>2. HidingIsSeen'
    BY <1>3 DEF OwnedInv, HidingIsSeen, LeftBehind, RegistryTypeOK
  <2>3. QED BY <1>1, <2>1, <2>2 DEF OwnedInv
<1>4. QED BY <1>2, <1>3

\* Nothing is owned wrongly, and nothing flies, at the start.
LEMMA InitOwned == RegistryInit => OwnedInv
  BY DEF RegistryInit, OwnedInv, Handed, ShownIsOwned, HidingIsSeen

\* Every step keeps the owned launches and what flies for them in agreement.
LEMMA StepOwned ==
  ASSUME RegistryTypeOK, OwnedInv, [RegistryNext]_registryVars
  PROVE  OwnedInv'
<1> USE DEF callVars, launchVars
<1>1. CASE Tick
  <2>1. \A a \in Adapters : Emptied(a)
    BY <1>1, BeginsEmptied DEF Tick, OwnedInv
  <2>2. QED BY <1>1, <2>1, QuietStep DEF Tick
<1>2. CASE RefreshEnds
  <2>1. /\ \A a \in Adapters : part[a] = "over"
        /\ UNCHANGED <<stage, place, shown>>
    BY <1>2 DEF RefreshEnds
  <2>2. CASE Begins(FALSE, circuit) \/ Begins(TRUE, circuit)
    <3>1. \A a \in Adapters : Emptied(a)
      BY <2>1, <2>2, BeginsEmptied DEF OwnedInv
    <3>2. QED BY <2>1, <3>1, QuietStep
  <2>3. CASE UNCHANGED flightVars /\ Answered(IF followup THEN "idle" ELSE "behind")
    <3>1. \A a \in Adapters : Kept(a)
      BY <2>3 DEF flightVars, Kept
    <3>2. \A l \in Launches : caller'[l] # "joined"
      BY <2>3 DEF Answered
    <3>3. QED BY <2>1, <3>1, <3>2, QuietStep
  <2>4. QED BY <1>2, <2>2, <2>3 DEF RefreshEnds
<1>3. CASE Close
  BY <1>3 DEF Close, OwnedInv, Handed, ShownIsOwned, HidingIsSeen, flightVars, Owned, Mine
<1>4. CASE CloseEnds
  <2>1. \A a \in Adapters : flight[a] \notin Live
    BY <1>4 DEF CloseEnds, RegistryTypeOK
  <2>2. \A a \in Adapters : Emptied(a)
    BY <1>4, <2>1 DEF CloseEnds, Emptied, OwnedInv, Handed
  <2>3. QED BY <1>4, <2>2 DEF CloseEnds, Emptied, OwnedInv, Handed, ShownIsOwned, HidingIsSeen
<1>5. ASSUME NEW c \in Clients, Demand(c) PROVE OwnedInv'
  <2>1. c \notin Launches /\ missed \in [Adapters -> SUBSET Launches]
    BY RegistryAssumption DEF RegistryAssumption, RegistryTypeOK
  <2>2. /\ UNCHANGED <<stage, place, shown>>
        /\ Demands(c, missed)
    BY <1>5 DEF Demand
  <2>3. \/ \A a \in Adapters : Emptied(a)
        \/ /\ flight' = flight /\ told' = told /\ missed' = missed
           /\ \A l \in Launches :
                caller'[l] = "joined" => caller[l] = "joined" \/ place'[l] = "owned"
    BY <2>1, <2>2, AskedOwned
  <2>4. CASE \A a \in Adapters : Emptied(a)
    BY <2>2, <2>4, QuietStep
  <2>5. CASE /\ flight' = flight /\ told' = told /\ missed' = missed
             /\ \A l \in Launches :
                  caller'[l] = "joined" => caller[l] = "joined" \/ place'[l] = "owned"
    BY <2>2, <2>5 DEF OwnedInv, Handed, ShownIsOwned, HidingIsSeen, Owned, Mine
  <2>6. QED BY <2>3, <2>4, <2>5
<1>6. ASSUME NEW a \in Adapters, HandsRecords(a) PROVE OwnedInv'
  BY <1>6 DEF HandsRecords, OwnedInv, Handed, ShownIsOwned, HidingIsSeen, Owned, Mine,
              RegistryTypeOK
<1>7. ASSUME NEW a \in Adapters, Settles(a) PROVE OwnedInv'
  <2>1. /\ UNCHANGED <<stage, place>>
        /\ Over(a, "none") \/ Over(a, "late")
    BY <1>7 DEF Settles, AnswersSuperseded, AnswersWell, AnswersCut, Fails, Answers, Lands,
                TimesOut, Reuses, RegistryTypeOK
  <2>2. stage = "open"
    BY <1>7 DEF Settles, AnswersSuperseded, AnswersWell, AnswersCut, Fails, Answers, Lands,
                TimesOut, Reuses
  <2>3. shown' \subseteq Owned \/ shown' = shown
    BY <1>7, <2>2 DEF Settles, AnswersSuperseded, AnswersWell, AnswersCut, Fails, Failing,
                TimesOut, Reuses, OwnedInv, ShownIsOwned
  <2>4. QED BY <2>1, <2>3, OverQuiet
<1>8. ASSUME NEW a \in Adapters, LateSettles(a) PROVE OwnedInv'
  <2>1. \A b \in Adapters : Kept(b) \/ Emptied(b)
    BY <1>8 DEF LateSettles, Kept, Emptied, OwnedInv, Handed, RegistryTypeOK
  <2>2. QED BY <1>8, <2>1, QuietStep DEF LateSettles
<1>9. ASSUME NEW a \in Adapters, CutOff(a) PROVE OwnedInv'
  <2>1. Over(a, "none") \/ Over(a, "late")
    BY <1>9 DEF CutOff, RegistryTypeOK
  <2>2. QED BY <1>9, <2>1, OverQuiet DEF CutOff
<1>10. ASSUME NEW cs, NEW c, Notices(cs, c), UNCHANGED <<stage, caller, launchVars>>
       PROVE  OwnedInv'
  <2>1. CASE refresh = "none" /\ Begins(FALSE, cs)
    <3>1. \A a \in Adapters : Emptied(a)
      BY <2>1, BeginsEmptied DEF OwnedInv
    <3>2. QED BY <1>10, <3>1, QuietStep
  <2>2. CASE UNCHANGED <<flight, missed, told>>
    BY <1>10, <2>2, QuietStep DEF Kept
  <2>3. QED BY <1>10, <2>1, <2>2 DEF Notices
<1>11. ASSUME NEW a \in Adapters, Changes(a) \/ Disconnects(a) PROVE OwnedInv'
  BY <1>11, <1>10 DEF Changes, Disconnects
<1>12. ASSUME NEW a \in Adapters, Reconnects(a) \/ BackoffElapses(a) \/ ProbeRestores(a)
       PROVE  OwnedInv'
  BY <1>12, QuietStep DEF Reconnects, BackoffElapses, ProbeRestores, flightVars, Kept
<1>13. ASSUME NEW l \in Launches, GivesUp(l) PROVE OwnedInv'
  <2>1. \A k \in Launches : caller'[k] = "joined" => caller[k] = "joined"
    BY <1>13 DEF GivesUp, RegistryTypeOK
  <2>2. QED BY <1>13, <2>1, QuietStep DEF GivesUp, flightVars, Kept
<1>14. ASSUME NEW l \in Launches, Activate(l) \/ Deactivate(l) \/ Restore(l) PROVE OwnedInv'
  <2>1. PICK p : place' = [place EXCEPT ![l] = p]
    BY <1>14 DEF Activate, Deactivate, Hidden, Restore
  <2>2. /\ caller[l] = "idle" /\ stage = "open" /\ stage' = stage
        /\ LeftBehind(l) \in [Adapters -> SUBSET Launches]
    BY <1>14, LeftBehindTyped DEF Activate, Deactivate, Hidden, Restore, Coordinates
  <2>3. \/ Demands(l, LeftBehind(l)) /\ place'[l] = "owned"
        \/ FollowsUp(l, LeftBehind(l))
    BY <1>14 DEF Activate, Deactivate, Restore, RegistryTypeOK
  <2>4. \/ \A a \in Adapters : Emptied(a)
        \/ /\ flight' = flight /\ told' = told /\ missed' = LeftBehind(l)
           /\ \A k \in Launches :
                caller'[k] = "joined" => caller[k] = "joined" \/ place'[k] = "owned"
    BY <2>2, <2>3, AskedOwned
  <2>5. shown' \subseteq (shown \cup {l}) \cap Owned'
    <3>1. shown \subseteq Owned
      BY <2>2 DEF OwnedInv, ShownIsOwned
    <3>2. QED BY <1>14, <3>1 DEF Activate, Deactivate, Hidden, Evicted, Restore, Owned,
                                 RegistryTypeOK
  <2>6. QED BY <2>1, <2>2, <2>4, <2>5, LaunchStep
<1>15. ASSUME NEW l \in Launches, HideUncertain(l) PROVE OwnedInv'
  <2>1. PICK p : place' = [place EXCEPT ![l] = p]
    BY <1>15 DEF HideUncertain, Hidden
  <2>2. /\ caller[l] = "idle" /\ caller' = caller /\ stage = "open" /\ stage' = stage
        /\ flight' = flight /\ told' = told /\ missed' = LeftBehind(l)
    BY <1>15 DEF HideUncertain, Hidden, Coordinates
  <2>3. shown' \subseteq (shown \cup {l}) \cap Owned'
    BY <1>15, <2>2 DEF HideUncertain, Hidden, Evicted, Owned, RegistryTypeOK, OwnedInv,
                       ShownIsOwned
  <2>4. QED BY <2>1, <2>2, <2>3, LaunchStep
<1>16. ASSUME NEW l \in Launches, Recheck(l) PROVE OwnedInv'
  <2>1. /\ caller[l] = "idle" /\ UNCHANGED <<stage, shown>>
        /\ missed \in [Adapters -> SUBSET Launches]
        /\ FollowsUp(l, missed)
        /\ Owned' = Owned
        /\ \A k \in Launches : k = l \/ place'[k] = place[k]
    BY <1>16 DEF Recheck, Coordinates, Owned, RegistryTypeOK
  <2>2. \/ \A a \in Adapters : Emptied(a)
        \/ /\ flight' = flight /\ told' = told /\ missed' = missed
           /\ \A k \in Launches :
                caller'[k] = "joined" => caller[k] = "joined" \/ place'[k] = "owned"
    BY <2>1, AskedOwned
  <2>3. CASE \A a \in Adapters : Emptied(a)
    BY <2>1, <2>3 DEF OwnedInv, Handed, ShownIsOwned, HidingIsSeen, Emptied
  <2>4. CASE /\ flight' = flight /\ told' = told /\ missed' = missed
             /\ \A k \in Launches :
                  caller'[k] = "joined" => caller[k] = "joined" \/ place'[k] = "owned"
    BY <2>1, <2>4 DEF OwnedInv, Handed, ShownIsOwned, HidingIsSeen, Mine
  <2>5. QED BY <2>2, <2>3, <2>4
<1>17. CASE UNCHANGED registryVars
  BY <1>17, QuietStep DEF registryVars, flightVars, Kept
<1>18. QED
  BY <1>1, <1>2, <1>3, <1>4, <1>5, <1>6, <1>7, <1>8, <1>9, <1>11, <1>12, <1>13, <1>14,
     <1>15, <1>16, <1>17 DEF RegistryNext

\* ShownIsOwned: an agent in the snapshot belongs to a launch that is owned.  A
\* discovery begun before the launch was hidden has missed it or not been handed
\* its record.
THEOREM SnapshotOwned == RegistrySpec => []ShownIsOwned
<1>1. RegistryInit => RegistryTypeOK /\ OwnedInv
  BY InitTyped, InitOwned
<1>2. RegistryTypeOK /\ OwnedInv /\ [RegistryNext]_registryVars => RegistryTypeOK' /\ OwnedInv'
  BY StepTyped, StepOwned
<1>3. OwnedInv => ShownIsOwned
  BY DEF OwnedInv
<1>4. QED BY <1>1, <1>2, <1>3, PTL DEF RegistrySpec

\* HidingIsSeen: refreshAfterOwnedLaunchChange lets the retirement await only
\* discoveries that began with the launch hidden.
THEOREM HidingSeen == RegistrySpec => []HidingIsSeen
<1>1. RegistryInit => RegistryTypeOK /\ OwnedInv
  BY InitTyped, InitOwned
<1>2. RegistryTypeOK /\ OwnedInv /\ [RegistryNext]_registryVars => RegistryTypeOK' /\ OwnedInv'
  BY StepTyped, StepOwned
<1>3. OwnedInv => HidingIsSeen
  BY DEF OwnedInv
<1>4. QED BY <1>1, <1>2, <1>3, PTL DEF RegistrySpec

\* What one step keeps of the snapshot: an answer that is applied was handed every
\* owned launch of its adapter, and nothing else removes an agent but hiding.
LEMMA StepKeepsShown ==
  ASSUME RegistryTypeOK, OwnedInv, [RegistryNext]_registryVars
  PROVE  \A l \in shown : l \in shown' \/ l \notin Owned'
<1> USE DEF launchVars
<1>1. ASSUME NEW a \in Adapters, AnswersWell(a)
      PROVE  \A l \in shown : l \in shown' \/ l \notin Owned'
  <2>1. /\ shown' = (shown \ Mine(a)) \cup (told[a] \cap Owned)
        /\ place' = place /\ missed[a] \in SUBSET Launches
        /\ a \in LaunchAdapters => flight[a] = "told" /\ missed[a] = {}
    BY <1>1 DEF AnswersWell, Answers, Lands, Superseded, RegistryTypeOK
  <2>2. CASE a \in LaunchAdapters
    <3>1. Owned \cap Mine(a) \subseteq told[a]
      BY <2>1, <2>2 DEF OwnedInv, Handed
    <3>2. QED BY <2>1, <3>1 DEF Owned
  <2>3. CASE a \notin LaunchAdapters
    <3>1. Mine(a) = {}
      BY <2>3, RegistryAssumption DEF Mine, RegistryAssumption
    <3>2. QED BY <2>1, <3>1
  <2>4. QED BY <2>2, <2>3
<1>2. ASSUME NEW l \in Launches, Deactivate(l) \/ HideUncertain(l)
      PROVE  \A k \in shown : k \in shown' \/ k \notin Owned'
  BY <1>2 DEF Deactivate, HideUncertain, Hidden, Evicted, Owned, RegistryTypeOK
<1>3. CASE shown \subseteq shown'
  BY <1>3
<1>4. ASSUME NEW a \in Adapters, Settles(a), ~AnswersWell(a) PROVE shown \subseteq shown'
  BY <1>4 DEF Settles, AnswersSuperseded, AnswersCut, Fails, Failing, TimesOut, Reuses
<1>5. ASSUME NEW a \in Adapters,
             \/ HandsRecords(a) \/ LateSettles(a) \/ CutOff(a) \/ Changes(a) \/ Disconnects(a)
             \/ Reconnects(a) \/ BackoffElapses(a) \/ ProbeRestores(a)
      PROVE  shown \subseteq shown'
  BY <1>5 DEF HandsRecords, LateSettles, CutOff, Changes, Disconnects, Reconnects,
              BackoffElapses, ProbeRestores
<1>6. ASSUME NEW l \in Launches, Activate(l) \/ Recheck(l) \/ Restore(l) \/ GivesUp(l)
      PROVE  shown \subseteq shown'
  BY <1>6 DEF Activate, Recheck, Restore, GivesUp
<1>7. ASSUME Tick \/ RefreshEnds \/ Close \/ CloseEnds \/ \E c \in Clients : Demand(c)
      PROVE  shown \subseteq shown'
  BY <1>7 DEF Tick, RefreshEnds, Close, CloseEnds, Demand
<1>8. CASE UNCHANGED registryVars
  BY <1>8 DEF registryVars
<1>9. QED
  BY <1>1, <1>2, <1>3, <1>4, <1>5, <1>6, <1>7, <1>8 DEF RegistryNext

\* OwnedStaysShown: no discovery that began before a launch was activated or
\* restored takes its agent out of the snapshot.
THEOREM OwnedKept == RegistrySpec => OwnedStaysShown
<1>1. RegistryInit => RegistryTypeOK /\ OwnedInv
  BY InitTyped, InitOwned
<1>2. RegistryTypeOK /\ OwnedInv /\ [RegistryNext]_registryVars => RegistryTypeOK' /\ OwnedInv'
  BY StepTyped, StepOwned
<1>3. RegistryTypeOK /\ OwnedInv /\ [RegistryNext]_registryVars =>
        [\A l \in shown : l \in shown' \/ l \notin Owned']_registryVars
  BY StepKeepsShown
<1>4. QED BY <1>1, <1>2, <1>3, PTL DEF RegistrySpec, OwnedStaysShown

-----------------------------------------------------------------------------
(* Circuits.  While the registry is open each adapter's circuit agrees with  *)
(* where the pass is with it and with the health it is reported with.        *)

\* A circuit as an outcome leaves it, and as a pass finds it.
Resting(c) ==
  /\ ~c.probing /\ c.phase # "half_open"
  /\ c.phase = "open" => c.failures = Threshold

ProbeHeld(a) ==
  /\ circuit[a].probing => part[a] # "over" /\ probe[a]
  /\ circuit[a].phase = "half_open" <=> circuit[a].probing

HealthSays(a) ==
  /\ health[a] = "healthy" =>
       circuit[a].failures = 0 /\ ~circuit[a].backoff /\ flight[a] # "late"
  /\ circuit[a].phase = "open" => circuit[a].failures = Threshold

CircuitInv == stage = "open" => \A a \in Adapters : ProbeHeld(a) /\ HealthSays(a)

\* Every outcome gives the probe back.
LEMMA OutcomesRest ==
  ASSUME NEW c \in Circuit
  PROVE  /\ Resting(Recovered(c)) /\ Resting(Failed(c)) /\ Resting(Released(c))
         /\ Recovered(c).failures = 0 /\ ~Recovered(c).backoff
         /\ Released(c).failures = c.failures /\ Released(c).backoff = c.backoff
<1>1. Threshold \in Nat \ {0} /\ 0 < Threshold
  BY RegistryAssumption DEF RegistryAssumption
<1>2. /\ Resting(Recovered(c)) /\ Recovered(c).failures = 0 /\ ~Recovered(c).backoff
  BY DEF Recovered, Resting, Circuit
<1>3. Resting(Released(c)) /\ Released(c).failures = c.failures /\ Released(c).backoff = c.backoff
  BY <1>1 DEF Released, Resting, PhaseAfter, Circuit
<1>4. Resting(Failed(c))
  <2> DEFINE f == IF c.failures = Threshold THEN Threshold ELSE c.failures + 1
  <2>1. f \in 0..Threshold
    BY <1>1 DEF Circuit
  <2>2. Failed(c) = [c EXCEPT !.failures = f, !.backoff = TRUE, !.probing = FALSE,
                              !.phase = PhaseAfter(f)]
    BY DEF Failed
  <2> HIDE DEF f
  <2>3. /\ ~Failed(c).probing /\ Failed(c).phase = PhaseAfter(f) /\ Failed(c).failures = f
    BY <2>2 DEF Circuit
  <2>4. QED BY <1>1, <2>1, <2>3 DEF Resting, PhaseAfter
<1>5. QED BY <1>2, <1>3, <1>4

\* What a probe changes of a circuit.
LEMMA ProbeFields ==
  ASSUME NEW c \in Circuit, NEW force
  PROVE  /\ ProbeTaken(c, force).probing /\ ProbeTaken(c, force).phase = "half_open"
         /\ ProbeTaken(c, force).failures = c.failures
         /\ ProbeTaken(c, force).backoff = c.backoff
  BY DEF ProbeTaken, Circuit

\* A pass admits only circuits at rest, and keeps what it takes of them.
LEMMA BeginsHolds ==
  ASSUME RegistryTypeOK, refresh = "none" \/ \A a \in Adapters : part[a] = "over",
         NEW force \in BOOLEAN, NEW cs \in [Adapters -> Circuit], Begins(force, cs),
         \A a \in Adapters :
           /\ Resting(cs[a])
           /\ health'[a] = "healthy" => cs[a].failures = 0 /\ ~cs[a].backoff /\ flight[a] # "late"
  PROVE  CircuitInv'
<1>1. SUFFICES ASSUME NEW a \in Adapters PROVE ProbeHeld(a)' /\ HealthSays(a)'
  BY DEF CircuitInv
<1>2. cs[a] \in Circuit
  OBVIOUS
<1>3. flight[a] # "late" => flight'[a] # "late"
  BY DEF Begins, RegistryTypeOK
<1>4. CASE Admitted(cs[a], force) /\ Probes(cs[a], force)
  <2>1. part'[a] # "over" /\ probe'[a] /\ circuit'[a] = ProbeTaken(cs[a], force)
    BY <1>4 DEF Begins
  <2>2. QED BY <1>2, <1>3, <2>1, ProbeFields DEF ProbeHeld, HealthSays
<1>5. CASE ~(Admitted(cs[a], force) /\ Probes(cs[a], force))
  <2>1. circuit'[a] = cs[a]
    BY <1>5 DEF Begins
  <2>2. QED BY <1>3, <2>1 DEF ProbeHeld, HealthSays, Resting
<1>6. QED BY <1>4, <1>5

\* Between passes every circuit is at rest.
LEMMA RestsBetween ==
  ASSUME RegistryTypeOK, CircuitInv, stage = "open",
         refresh = "none" \/ \A a \in Adapters : part[a] = "over"
  PROVE  \A a \in Adapters : Resting(circuit[a])
  BY DEF RegistryTypeOK, CircuitInv, ProbeHeld, HealthSays, Resting

\* What a step does to an adapter: nothing, or an outcome leaves its circuit at rest.
LEMMA CircuitStep ==
  ASSUME CircuitInv,
         stage' = "open" => stage = "open",
         \A a \in Adapters :
           \/ /\ circuit'[a] = circuit[a] /\ health'[a] = health[a]
              /\ part'[a] = part[a] /\ probe'[a] = probe[a]
              /\ flight'[a] = flight[a] \/ flight'[a] # "late"
           \/ /\ Resting(circuit'[a])
              /\ health'[a] = "healthy" =>
                   circuit'[a].failures = 0 /\ ~circuit'[a].backoff /\ flight'[a] # "late"
  PROVE  CircuitInv'
  BY DEF CircuitInv, ProbeHeld, HealthSays, Resting

\* The circuits begin at rest, and no adapter as healthy.
LEMMA InitCircuit == RegistryInit => CircuitInv
<1>1. Resting(ClosedCircuit)
  BY DEF Resting, ClosedCircuit
<1>2. SUFFICES ASSUME RegistryInit, NEW a \in Adapters PROVE ProbeHeld(a) /\ HealthSays(a)
  BY DEF CircuitInv
<1>3. circuit[a] = ClosedCircuit /\ health[a] = "loading"
  BY <1>2 DEF RegistryInit
<1>4. QED BY <1>1, <1>3 DEF ProbeHeld, HealthSays, Resting

\* An adapter that the pass is over with, whatever the outcome was.
LEMMA SettlesCircuit ==
  ASSUME RegistryTypeOK, CircuitInv, NEW a \in Adapters, Settles(a)
  PROVE  CircuitInv'
<1>1. /\ stage = "open" /\ stage' = "open" /\ circuit[a] \in Circuit
      /\ ProbeHeld(a) /\ HealthSays(a)
  <2>1. stage = "open" /\ stage' = "open"
    BY DEF Settles, AnswersSuperseded, AnswersWell, AnswersCut, Fails, Answers, Lands,
           TimesOut, Reuses
  <2>2. QED BY <2>1 DEF CircuitInv, RegistryTypeOK
<1>2. \A b \in Adapters \ {a} :
        /\ circuit'[b] = circuit[b] /\ health'[b] = health[b]
        /\ part'[b] = part[b] /\ probe'[b] = probe[b] /\ flight'[b] = flight[b]
  BY DEF Settles, AnswersSuperseded, AnswersWell, AnswersCut, Fails, Failing, Answers, Lands,
         TimesOut, Reuses, Over, RegistryTypeOK
<1>3. CASE AnswersSuperseded(a)
  <2>1. /\ circuit'[a] = Discarded(circuit[a], probe[a]) /\ health'[a] = health[a]
        /\ flight'[a] = "none"
    BY <1>3 DEF AnswersSuperseded, Answers, Lands, Over, RegistryTypeOK
  <2>2. CASE probe[a]
    BY <1>1, <1>2, <2>1, <2>2, OutcomesRest, CircuitStep DEF Discarded, HealthSays
  <2>3. CASE ~probe[a]
    <3>1. circuit'[a] = circuit[a] /\ Resting(circuit[a])
      BY <1>1, <2>1, <2>3 DEF Discarded, ProbeHeld, HealthSays, Resting
    <3>2. QED BY <1>1, <1>2, <2>1, <3>1, CircuitStep DEF HealthSays
  <2>4. QED BY <2>2, <2>3
<1>4. CASE AnswersWell(a)
  <2>1. circuit'[a] = Recovered(circuit[a]) /\ flight'[a] = "none"
    BY <1>4 DEF AnswersWell, Answers, Lands, Over, RegistryTypeOK
  <2>2. QED BY <1>1, <1>2, <2>1, OutcomesRest, CircuitStep
<1>5. CASE AnswersCut(a) \/ Fails(a) \/ TimesOut(a)
  <2>1. circuit'[a] = Failed(circuit[a]) /\ health'[a] # "healthy"
    BY <1>5 DEF AnswersCut, Fails, Failing, TimesOut, RegistryTypeOK
  <2>2. QED BY <1>1, <1>2, <2>1, OutcomesRest, CircuitStep
<1>6. CASE Reuses(a)
  <2>1. circuit'[a] = Released(circuit[a]) /\ health'[a] # "healthy"
    BY <1>6 DEF Reuses, RegistryTypeOK
  <2>2. QED BY <1>1, <1>2, <2>1, OutcomesRest, CircuitStep
<1>7. QED BY <1>3, <1>4, <1>5, <1>6 DEF Settles

\* A change or a loss of transport, with or without a pass under way.
LEMMA NoticesCircuit ==
  ASSUME RegistryTypeOK, CircuitInv, NEW a \in Adapters, Changes(a) \/ Disconnects(a)
  PROVE  CircuitInv'
<1>1. stage = "open" /\ stage' = "open" /\ circuit[a] \in Circuit
  BY DEF Changes, Disconnects, RegistryTypeOK
<1>2. PICK cs \in [Adapters -> Circuit] :
        /\ \E c : Notices(cs, c)
        /\ \A b \in Adapters :
             \/ cs[b] = circuit[b] /\ (health'[b] = health[b] \/ health'[b] # "healthy")
             \/ Resting(cs[b]) /\ health'[b] # "healthy"
  <2>1. CASE Changes(a)
    <3>1. circuit \in [Adapters -> Circuit] /\ Notices(circuit, cut) /\ health' = health
      BY <2>1 DEF Changes, RegistryTypeOK
    <3>2. QED BY <3>1
  <2>2. CASE Disconnects(a)
    <3> DEFINE cs == IF flight[a] = "none" THEN [circuit EXCEPT ![a] = Failed(@)] ELSE circuit
    <3>1. /\ Failed(circuit[a]) \in Circuit /\ Resting(Failed(circuit[a]))
      BY <1>1, CircuitTyped, OutcomesRest
    <3>2. cs \in [Adapters -> Circuit]
      BY <3>1 DEF RegistryTypeOK
    <3>3. Notices(cs, LostUnder(a)) /\ health' = [health EXCEPT ![a] = "error"]
      BY <2>2 DEF Disconnects
    <3>4. \A b \in Adapters :
            \/ cs[b] = circuit[b] /\ (health'[b] = health[b] \/ health'[b] # "healthy")
            \/ Resting(cs[b]) /\ health'[b] # "healthy"
      BY <3>1, <3>3 DEF RegistryTypeOK
    <3> HIDE DEF cs
    <3>5. QED BY <3>2, <3>3, <3>4
  <2>3. QED BY <2>1, <2>2
<1>3. CASE refresh = "none" /\ Begins(FALSE, cs)
  <2>1. \A b \in Adapters : Resting(circuit[b]) /\ HealthSays(b)
    BY <1>1, <1>3, RestsBetween DEF CircuitInv
  <2>2. \A b \in Adapters :
          /\ Resting(cs[b])
          /\ health'[b] = "healthy" => cs[b].failures = 0 /\ ~cs[b].backoff /\ flight[b] # "late"
    BY <1>2, <2>1 DEF HealthSays
  <2>3. QED BY <1>3, <2>2, BeginsHolds
<1>4. CASE circuit' = cs /\ UNCHANGED <<passVars, flight>>
  <2>1. \A b \in Adapters : ProbeHeld(b) /\ HealthSays(b)
    BY <1>1 DEF CircuitInv
  <2>2. SUFFICES ASSUME NEW b \in Adapters PROVE ProbeHeld(b)' /\ HealthSays(b)'
    BY DEF CircuitInv
  <2>3. CASE cs[b] = circuit[b] /\ (health'[b] = health[b] \/ health'[b] # "healthy")
    BY <1>4, <2>1, <2>3 DEF passVars, ProbeHeld, HealthSays
  <2>4. CASE Resting(cs[b]) /\ health'[b] # "healthy"
    BY <1>4, <2>4 DEF passVars, ProbeHeld, HealthSays, Resting
  <2>5. QED BY <1>2, <2>3, <2>4
<1>5. QED BY <1>2, <1>3, <1>4 DEF Notices

\* A caller that is served at once begins a pass; the others change no circuit.
LEMMA AsksCircuit ==
  ASSUME RegistryTypeOK, CircuitInv, stage = "open", stage' = stage, health' = health,
         NEW c, NEW m, Demands(c, m) \/ FollowsUp(c, m)
  PROVE  CircuitInv'
<1>1. CASE refresh = "none" /\ Begins(TRUE, circuit)
  <2>1. \A a \in Adapters : Resting(circuit[a]) /\ HealthSays(a)
    BY <1>1, RestsBetween DEF CircuitInv
  <2>2. circuit \in [Adapters -> Circuit]
    BY DEF RegistryTypeOK
  <2>3. QED BY <1>1, <2>1, <2>2, BeginsHolds DEF HealthSays
<1>2. CASE UNCHANGED <<passVars, flight, circuit>>
  BY <1>2, CircuitStep DEF passVars
<1>3. QED BY <1>1, <1>2 DEF Demands, FollowsUp, BeginsFor

\* Every step keeps the circuits, the passes and the reported health in agreement.
LEMMA StepCircuit ==
  ASSUME RegistryTypeOK, CircuitInv, [RegistryNext]_registryVars
  PROVE  CircuitInv'
<1>1. CASE Tick
  <2>1. \A a \in Adapters : Resting(circuit[a]) /\ HealthSays(a)
    BY <1>1, RestsBetween DEF Tick, CircuitInv
  <2>2. circuit \in [Adapters -> Circuit] /\ health' = health
    BY <1>1 DEF Tick, RegistryTypeOK
  <2>3. QED BY <1>1, <2>1, <2>2, BeginsHolds DEF Tick, HealthSays
<1>2. CASE RefreshEnds
  <2>1. /\ \A a \in Adapters : part[a] = "over"
        /\ stage' = stage /\ health' = health /\ circuit \in [Adapters -> Circuit]
    BY <1>2 DEF RefreshEnds, RegistryTypeOK
  <2>2. CASE stage = "open" /\ (Begins(FALSE, circuit) \/ Begins(TRUE, circuit))
    <3>1. \A a \in Adapters : Resting(circuit[a]) /\ HealthSays(a)
      BY <2>1, <2>2, RestsBetween DEF CircuitInv
    <3>2. QED BY <2>1, <2>2, <3>1, BeginsHolds DEF HealthSays
  <2>3. CASE UNCHANGED <<part, probe, flightVars, circuit>>
    BY <2>1, <2>3, CircuitStep DEF flightVars
  <2>4. QED BY <1>2, <2>2, <2>3 DEF RefreshEnds
<1>3. CASE Close \/ CloseEnds \/ \E a \in Adapters : CutOff(a)
  BY <1>3 DEF Close, CloseEnds, CutOff, CircuitInv
<1>4. ASSUME NEW c \in Clients, Demand(c) PROVE CircuitInv'
  BY <1>4, AsksCircuit DEF Demand
<1>5. ASSUME NEW a \in Adapters, Settles(a) PROVE CircuitInv'
  BY <1>5, SettlesCircuit
<1>6. ASSUME NEW a \in Adapters, Changes(a) \/ Disconnects(a) PROVE CircuitInv'
  BY <1>6, NoticesCircuit
<1>7. ASSUME NEW a \in Adapters, HandsRecords(a) \/ LateSettles(a) \/ Reconnects(a)
      PROVE  CircuitInv'
  BY <1>7, CircuitStep DEF HandsRecords, LateSettles, Reconnects, passVars, flightVars,
                           RegistryTypeOK
<1>8. ASSUME NEW a \in Adapters, BackoffElapses(a) \/ ProbeRestores(a) PROVE CircuitInv'
  <2>1. /\ UNCHANGED <<stage, part, probe, flight, health>>
        /\ circuit[a] \in Circuit
        /\ \/ circuit' = [circuit EXCEPT ![a] = [circuit[a] EXCEPT !.backoff = FALSE]]
           \/ circuit' = [circuit EXCEPT ![a] = [circuit[a] EXCEPT !.spent = FALSE]]
    BY <1>8 DEF BackoffElapses, ProbeRestores, passVars, flightVars, RegistryTypeOK
  <2>2. /\ \A b \in Adapters \ {a} : circuit'[b] = circuit[b]
        /\ circuit'[a].phase = circuit[a].phase /\ circuit'[a].probing = circuit[a].probing
        /\ circuit'[a].failures = circuit[a].failures
        /\ circuit'[a].backoff => circuit[a].backoff
    BY <2>1 DEF Circuit, RegistryTypeOK
  <2>3. QED BY <2>1, <2>2 DEF CircuitInv, ProbeHeld, HealthSays
<1>9. ASSUME NEW l \in Launches, Activate(l) \/ Deactivate(l) \/ Recheck(l) \/ Restore(l)
      PROVE  CircuitInv'
  <2>1. PICK m : Demands(l, m) \/ FollowsUp(l, m)
    BY <1>9 DEF Activate, Deactivate, Recheck, Restore
  <2>2. stage = "open" /\ stage' = stage /\ health' = health
    BY <1>9 DEF Activate, Deactivate, Hidden, Recheck, Restore, Coordinates
  <2>3. QED BY <2>1, <2>2, AsksCircuit
<1>10. ASSUME NEW l \in Launches, HideUncertain(l) \/ GivesUp(l) PROVE CircuitInv'
  <2>1. UNCHANGED <<stage, passVars, flight, circuit, health>>
    BY <1>10 DEF HideUncertain, Hidden, Coordinates, GivesUp, flightVars
  <2>2. QED BY <2>1, CircuitStep DEF passVars
<1>11. CASE UNCHANGED registryVars
  BY <1>11, CircuitStep DEF registryVars, passVars, flightVars
<1>12. QED
  BY <1>1, <1>2, <1>3, <1>4, <1>5, <1>6, <1>7, <1>8, <1>9, <1>10, <1>11 DEF RegistryNext

\* ProbeIsAwaited: the probe that #admitAdapter takes is given back by whatever
\* ends the pass with its adapter, so no adapter is refused for good.
THEOREM ProbesAwaited == RegistrySpec => []ProbeIsAwaited
<1>1. RegistryInit => RegistryTypeOK /\ CircuitInv
  BY InitTyped, InitCircuit
<1>2. RegistryTypeOK /\ CircuitInv /\ [RegistryNext]_registryVars => RegistryTypeOK' /\ CircuitInv'
  BY StepTyped, StepCircuit
<1>3. CircuitInv => ProbeIsAwaited
  BY DEF CircuitInv, ProbeHeld, ProbeIsAwaited
<1>4. QED BY <1>1, <1>2, <1>3, PTL DEF RegistrySpec

\* HealthTellsCircuit: what GET /v1/adapters says of an adapter agrees with its
\* circuit.
THEOREM HealthAgrees == RegistrySpec => []HealthTellsCircuit
<1>1. RegistryInit => RegistryTypeOK /\ CircuitInv
  BY InitTyped, InitCircuit
<1>2. RegistryTypeOK /\ CircuitInv /\ [RegistryNext]_registryVars => RegistryTypeOK' /\ CircuitInv'
  BY StepTyped, StepCircuit
<1>3. CircuitInv => HealthTellsCircuit
  BY DEF CircuitInv, HealthSays, HealthTellsCircuit
<1>4. QED BY <1>1, <1>2, <1>3, PTL DEF RegistrySpec

-----------------------------------------------------------------------------
(* Callers.  Who has joined awaits a forced pass, and who was told to wait    *)
(* is behind a follow-up: an invariant that needs nothing but its values.    *)

\* A step that leaves the pass and its callers as they are, or drops a caller.
LEMMA CallersLeave ==
  ASSUME ExplicitIsForced, stage' = "open" => stage = "open", refresh' = refresh,
         followup' = followup,
         \A c \in Callers : caller'[c] = caller[c] \/ caller'[c] = "idle"
  PROVE  ExplicitIsForced'
  BY DEF ExplicitIsForced

\* With no pass under way nobody waits, and a pass may begin.
LEMMA CallersBegin ==
  ASSUME RegistryTypeOK, ExplicitIsForced, stage = "open", refresh = "none",
         \A c \in Callers :
           caller'[c] = caller[c] \/ (refresh' = "forced" /\ caller'[c] = "joined")
  PROVE  ExplicitIsForced'
<1>1. \A c \in Callers : caller[c] = "idle"
  BY DEF ExplicitIsForced, RegistryTypeOK
<1>2. QED BY <1>1 DEF ExplicitIsForced

\* A caller that asks is served now, joins a forced pass, or queues.
LEMMA CallersAsk ==
  ASSUME RegistryTypeOK, ExplicitIsForced, stage = "open",
         NEW c \in Callers, NEW m, Demands(c, m) \/ FollowsUp(c, m)
  PROVE  ExplicitIsForced'
<1>1. CASE BeginsFor(c)
  BY <1>1, CallersBegin DEF BeginsFor, Begins, Joins, RegistryTypeOK
<1>2. CASE refresh = "forced" /\ Joins(c) /\ refresh' = refresh /\ followup' = followup
  BY <1>2 DEF Joins, ExplicitIsForced, RegistryTypeOK
<1>3. CASE refresh # "none" /\ Queues(c) /\ refresh' = refresh
  BY <1>3 DEF Queues, ExplicitIsForced, RegistryTypeOK
<1>4. QED BY <1>1, <1>2, <1>3 DEF Demands, FollowsUp, passVars

\* Every step keeps those who have joined with a forced pass, the others with a
\* follow-up.
LEMMA StepCallers ==
  ASSUME RegistryTypeOK, ExplicitIsForced, [RegistryNext]_registryVars
  PROVE  ExplicitIsForced'
<1> USE DEF passVars, callVars
<1>1. CASE Tick
  BY <1>1, CallersBegin DEF Tick
<1>2. CASE RefreshEnds
  <2>1. CASE stage = "open" /\ Begins(FALSE, circuit) /\ followup' = followup /\ Answered("behind")
    BY <1>2, <2>1 DEF RefreshEnds, Begins, Answered, ExplicitIsForced, RegistryTypeOK
  <2>2. CASE stage = "open" /\ Begins(TRUE, circuit) /\ Answered("joined")
    BY <1>2, <2>2 DEF RefreshEnds, Begins, Answered, ExplicitIsForced, RegistryTypeOK
  <2>3. CASE stage # "open"
    BY <1>2, <2>3 DEF RefreshEnds, ExplicitIsForced
  <2>4. CASE stage = "open" /\ ~followup /\ Answered(IF followup THEN "idle" ELSE "behind")
    BY <1>2, <2>4 DEF RefreshEnds, Answered, ExplicitIsForced, RegistryTypeOK
  <2>5. QED BY <1>2, <2>1, <2>2, <2>3, <2>4 DEF RefreshEnds, QueuedAgain
<1>3. CASE Close \/ CloseEnds
  BY <1>3 DEF Close, CloseEnds, ExplicitIsForced
<1>4. ASSUME NEW c \in Clients, Demand(c) PROVE ExplicitIsForced'
  BY <1>4, CallersAsk DEF Demand
<1>5. ASSUME NEW a \in Adapters, Settles(a) \/ CutOff(a) PROVE ExplicitIsForced'
  BY <1>5, CallersLeave DEF Settles, AnswersSuperseded, AnswersWell, AnswersCut, Fails, Answers,
                            Lands, TimesOut, Reuses, CutOff, Over
<1>6. ASSUME NEW a \in Adapters, Changes(a) \/ Disconnects(a) PROVE ExplicitIsForced'
  <2>1. PICK cs, c : Notices(cs, c)
    BY <1>6 DEF Changes, Disconnects
  <2>2. stage = "open" /\ stage' = stage /\ followup' = followup /\ caller' = caller
    BY <1>6 DEF Changes, Disconnects
  <2>3. CASE refresh = "none"
    BY <2>2, <2>3, CallersBegin
  <2>4. CASE refresh # "none"
    BY <2>1, <2>2, <2>4, CallersLeave DEF Notices
  <2>5. QED BY <2>3, <2>4
<1>7. ASSUME NEW a \in Adapters,
             \/ HandsRecords(a) \/ LateSettles(a) \/ Reconnects(a)
             \/ BackoffElapses(a) \/ ProbeRestores(a)
      PROVE  ExplicitIsForced'
  BY <1>7, CallersLeave DEF HandsRecords, LateSettles, Reconnects, BackoffElapses, ProbeRestores
<1>8. ASSUME NEW l \in Launches, Activate(l) \/ Deactivate(l) \/ Recheck(l) \/ Restore(l)
      PROVE  ExplicitIsForced'
  <2>1. PICK m : Demands(l, m) \/ FollowsUp(l, m)
    BY <1>8 DEF Activate, Deactivate, Recheck, Restore
  <2>2. stage = "open"
    BY <1>8 DEF Activate, Deactivate, Hidden, Recheck, Restore, Coordinates
  <2>3. QED BY <2>1, <2>2, CallersAsk
<1>9. ASSUME NEW l \in Launches, HideUncertain(l) \/ GivesUp(l) PROVE ExplicitIsForced'
  BY <1>9, CallersLeave DEF HideUncertain, Hidden, Coordinates, GivesUp, RegistryTypeOK
<1>10. CASE UNCHANGED registryVars
  BY <1>10, CallersLeave DEF registryVars
<1>11. QED
  BY <1>1, <1>2, <1>3, <1>4, <1>5, <1>6, <1>7, <1>8, <1>9, <1>10 DEF RegistryNext

\* ExplicitIsForced: nobody who asked for a refresh joins a scheduled pass, and
\* nobody is told to wait for a follow-up that does not exist.
THEOREM ExplicitForced == RegistrySpec => []ExplicitIsForced
<1>1. RegistryInit => RegistryTypeOK /\ ExplicitIsForced
  BY InitTyped DEF RegistryInit, ExplicitIsForced
<1>2. RegistryTypeOK /\ ExplicitIsForced /\ [RegistryNext]_registryVars =>
        RegistryTypeOK' /\ ExplicitIsForced'
  BY StepTyped, StepCallers
<1>3. QED BY <1>1, <1>2, PTL DEF RegistrySpec

-----------------------------------------------------------------------------
(* Transports. *)

\* Whatever a step does to an adapter that is down, it does not show it live.
LEMMA StepDown ==
  ASSUME RegistryTypeOK, DownIsNotLive, [RegistryNext]_registryVars
  PROVE  DownIsNotLive'
<1>1. CASE view' = view /\ down' \subseteq down
  BY <1>1 DEF DownIsNotLive
<1>2. ASSUME NEW a \in Adapters, AnswersWell(a) PROVE DownIsNotLive'
  <2>1. down' = down /\ (a \in Transports => a \notin down) /\ down \subseteq Transports
    BY <1>2 DEF AnswersWell, Answers, Lands, Current, RegistryTypeOK
  <2>2. QED BY <1>2, <2>1 DEF AnswersWell, DownIsNotLive, RegistryTypeOK
<1>3. ASSUME NEW a \in Adapters, AnswersCut(a) \/ Disconnects(a) PROVE DownIsNotLive'
  <2>1. MarksStale(a) /\ down' \subseteq down \cup {a}
    BY <1>3 DEF AnswersCut, Answers, Lands, Disconnects
  <2>2. QED BY <2>1 DEF MarksStale, DownIsNotLive, RegistryTypeOK
<1>4. ASSUME NEW a \in Adapters, Settles(a), ~AnswersWell(a), ~AnswersCut(a)
      PROVE  view' = view /\ down' \subseteq down
  BY <1>4 DEF Settles, AnswersSuperseded, Fails, Answers, Lands, TimesOut, Reuses
<1>5. ASSUME NEW a \in Adapters,
             \/ HandsRecords(a) \/ LateSettles(a) \/ CutOff(a) \/ Changes(a) \/ Reconnects(a)
             \/ BackoffElapses(a) \/ ProbeRestores(a)
      PROVE  view' = view /\ down' \subseteq down
  BY <1>5 DEF HandsRecords, LateSettles, CutOff, Changes, Reconnects, BackoffElapses,
              ProbeRestores
<1>6. ASSUME NEW l \in Launches,
             \/ Activate(l) \/ Deactivate(l) \/ HideUncertain(l) \/ Recheck(l) \/ Restore(l)
             \/ GivesUp(l)
      PROVE  view' = view /\ down' \subseteq down
  BY <1>6 DEF Activate, Deactivate, HideUncertain, Hidden, Recheck, Restore, GivesUp, Coordinates
<1>7. ASSUME \/ Tick \/ RefreshEnds \/ Close \/ CloseEnds \/ (\E c \in Clients : Demand(c))
             \/ UNCHANGED registryVars
      PROVE  view' = view /\ down' \subseteq down
  BY <1>7 DEF Tick, RefreshEnds, Close, CloseEnds, Demand, registryVars
<1>8. QED BY <1>1, <1>2, <1>3, <1>4, <1>5, <1>6, <1>7 DEF RegistryNext

\* DownIsNotLive: an adapter whose transport is lost has no agent with a live
\* status, though a discovery that began before the loss answers after it.
THEOREM DownNotLive == RegistrySpec => []DownIsNotLive
<1>1. RegistryInit => RegistryTypeOK /\ DownIsNotLive
  <2>1. RegistryInit => DownIsNotLive
    BY RegistryAssumption DEF RegistryInit, DownIsNotLive, RegistryAssumption
  <2>2. QED BY <2>1, InitTyped
<1>2. RegistryTypeOK /\ DownIsNotLive /\ [RegistryNext]_registryVars =>
        RegistryTypeOK' /\ DownIsNotLive'
  BY StepTyped, StepDown
<1>3. QED BY <1>1, <1>2, PTL DEF RegistrySpec
=============================================================================
