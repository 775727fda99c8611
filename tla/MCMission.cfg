SPECIFICATION FairSpec
CONSTANTS
  k1 = k1
  k2 = k2
  k3 = k3
  p1 = p1
  p2 = p2
  None = None
  Keys = {k1, k2, k3}
  Proposed <- MCProposed
  MaxTasks = 3
  MaxEdges = 3
  MaxDepth = 2
  MaxFan = 2
  Procs = {p1, p2}
  Environments <- MCEnvironments
  MaxProposals = 2
INVARIANTS
  ExecutableIsApproved
  GraphComplete
  WorkRemains
  CompletedMeansDone
PROPERTIES
  MissionAdvances
  MissionSettles
CHECK_DEADLOCK FALSE
