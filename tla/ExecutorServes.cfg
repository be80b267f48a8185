SPECIFICATION ExecutorSpec
CONSTANTS
  x = x
  y = y
  r1 = r1
  r3 = r3
  Agents = {x, y}
  Keys = {k1, k2, k3}
  Requests = {r1, r3}
  AgentOf <- AgentsOf
  Items = {i1, i2, i3}
  NoItem = NoItem
  PerAgentLimit = 2
  GlobalLimit = 3
  MaxEntries = 3
INVARIANTS
  QueuedIsCounted
  OneTurnPerAgent
  RetriesJoin
PROPERTIES
  RequestsAnswered
CHECK_DEADLOCK FALSE
