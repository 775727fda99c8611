SPECIFICATION FairSpec
CONSTANTS
    Commands = {c1, c2}
    c1 = c1
    c2 = c2
    NoCommand = nothing
    Tabs = {t1, t2}
    t1 = t1
    t2 = t2
    Requests <- SomeRequests
    MultiStep = {c1}
    MaxAttempts = 2
    MaxFaults = 1
    MaxToggles = 1
INVARIANTS
  WorkIsCleared
  AttemptsBounded
  ApprovedLeavesGate
PROPERTIES
  QueueIsServed
CHECK_DEADLOCK FALSE
