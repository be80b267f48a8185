SPECIFICATION CodexSpec
CONSTANTS
  c1 = c1
  c2 = c2
  t1 = t1
  t2 = t2
  x1 = x1
  x2 = x2
  Calls <- TwoCalls
  NoCall = NoCall
  Discovery = c1
  Modes = {TRUE, FALSE}
  MaxGen = 2
  Threads <- OneThread
  NoThread = NoThread
  Contexts <- TwoContexts
  NoContext = NoContext
  AskKinds = {TRUE}
  MaxTurns = 1
  MaxAsks = 1
  MaxWire = 1
SYMMETRY Symmetry
\* Bounded connections, turns and approvals run out.
CHECK_DEADLOCK FALSE
INVARIANTS
  DecidesWhatWasShown
  PromptOnce
  SubscriptionIsLive
