SPECIFICATION Spec
CONSTANTS
  Replicas = {r1}
  Requests = {q1}
  MaxAgents = 8
  MaxFlows = 10
  TouchedAgents = {3}
  TouchedFlows = {4, 7}
  MaxEdits = 2
  MaxCrashes = 1
INVARIANTS NamesUnique LinksFollowGraph
PROPERTY StartupCompletes
CHECK_DEADLOCK FALSE
CONSTRAINT UntilOverlap
