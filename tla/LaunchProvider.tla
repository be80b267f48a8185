---------------------------- MODULE LaunchProvider ----------------------------
(***************************************************************************)
(* What core/launch-coordinator.js relies on when it drives a launch        *)
(* adapter, and what README.md asks of one ("Launch adapters are trusted    *)
(* host code"): an agent is created once, retired only under a reservation, *)
(* and forgotten only after it is gone; and whatever the adapter tells the  *)
(* coordinator is true when it is told.  CursorAdapter implements it.       *)
(***************************************************************************)
CONSTANTS Attempts, Keys, NoKey

VARIABLES
  agent,     \* per attempt: "none", "live", "gone" (deleted, still recorded
             \* by the adapter) or "forgotten"
  reserved,  \* per attempt: the key its retirement is reserved under, or NoKey
  told       \* per attempt: the answer that waits for the coordinator

providerVars == <<agent, reserved, told>>

Answers == {"silent", "owned", "prepared", "released", "blocked", "retired", "vague"}

ProviderInit ==
  /\ agent = [a \in Attempts |-> "none"]
  /\ reserved = [a \in Attempts |-> NoKey]
  /\ told = [a \in Attempts |-> "silent"]

\* launch(): the agent comes into being, now or after launch() was given up.
Created(a) ==
  /\ agent[a] = "none" /\ agent'[a] = "live"
  /\ reserved'[a] = reserved[a]

\* prepareLaunchRetirement() and what takes a preparation back.
Reserved(a) ==
  /\ agent[a] = "live" /\ agent'[a] = "live"
  /\ reserved[a] = NoKey /\ reserved'[a] \in Keys
Released(a) ==
  /\ agent[a] = "live" /\ agent'[a] = "live"
  /\ reserved[a] # NoKey /\ reserved'[a] = NoKey

\* retireLaunch(): nothing is deleted that was not reserved first.
Deleted(a) ==
  /\ agent[a] = "live" /\ agent'[a] = "gone"
  /\ reserved[a] # NoKey /\ reserved'[a] = NoKey

\* finalizeLaunchRetirement().
Forgotten(a) ==
  /\ agent[a] = "gone" /\ agent'[a] = "forgotten"
  /\ UNCHANGED reserved[a]

\* An answer is true of the agent at the moment it is given.
Truthful(a, answer) ==
  CASE answer = "owned"    -> agent'[a] = "live"
    [] answer = "prepared" -> agent'[a] = "live" /\ reserved'[a] # NoKey
    [] answer = "released" -> agent'[a] = "live" /\ reserved'[a] = NoKey
    [] answer = "blocked"  -> agent'[a] = "live" /\ reserved'[a] = NoKey
    [] answer = "retired"  -> agent'[a] = "gone" /\ reserved'[a] = NoKey
    [] OTHER               -> TRUE

Speaks(a) ==
  \/ told'[a] = told[a]
  \/ told[a] # "silent" /\ told'[a] = "silent"
  \/ told[a] = "silent" /\ told'[a] \in Answers /\ Truthful(a, told'[a])

ProviderStep(a) ==
  /\ \/ Created(a) \/ Reserved(a) \/ Released(a) \/ Deleted(a) \/ Forgotten(a)
     \/ agent'[a] = agent[a] /\ reserved'[a] = reserved[a]
  /\ Speaks(a)

ProviderNext ==
  /\ agent' \in [Attempts -> {"none", "live", "gone", "forgotten"}]
  /\ reserved' \in [Attempts -> Keys \cup {NoKey}]
  /\ told' \in [Attempts -> Answers]
  /\ \A a \in Attempts : ProviderStep(a)

ProviderSpec == ProviderInit /\ [][ProviderNext]_providerVars
=============================================================================
