SPECIFICATION FairSpec
CONSTANTS
  w1 = w1
  w2 = w2
  m1 = m1
  None = None
  Workers = {w1, w2}
  Owners = {1, 2, 3}
  Tasks = {1, 2, 3, 4, 5}
  OwnerOf <- MCOwnerOf
  Missions = {m1}
  MissionOf <- MCMissionOf
  BudgetLimit <- MCBudgetLimit
  OwnerLimit = 2
  Slots <- MCSlots
  MaxOwners = 2
  Turns = 2
  MaxTasks = 2
  MaxParallel = 1
  Environments <- MCEnvironments
INVARIANTS
  StopBoundsWork
  OverrunBounded
CHECK_DEADLOCK FALSE
PROPERTIES
  OwnerServed
