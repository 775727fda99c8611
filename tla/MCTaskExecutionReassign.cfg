SPECIFICATION FairSpec
CONSTANTS
  t1 = t1
  t2 = t2
  t3 = t3
  a1 = a1
  a2 = a2
  e1 = e1
  e2 = e2
  None = None
  Tasks = {t1, t2}
  Agents = {a1, a2}
  Executors = {e1, e2}
  Slow = {e1}
  Cap <- MCCap
  Reassignable = {t1}
  Verified = {t1}
  MaxAttempts = 2
INVARIANTS
  Safe
  RunsAfterPrerequisites
PROPERTIES
  CompletedIsFinal
  ImplementsLease
  RunningResolves
CHECK_DEADLOCK FALSE
