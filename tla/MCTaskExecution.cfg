SPECIFICATION Spec
CONSTANTS
  t1 = t1
  t2 = t2
  t3 = t3
  a1 = a1
  a2 = a2
  e1 = e1
  e2 = e2
  None = None
  Tasks = {t1, t2, t3}
  Agents = {a1, a2}
  Executors = {e1, e2}
  Slow = {}
  Cap <- MCCap
  Reassignable = {}
  Verified = {t1}
  MaxAttempts = 2
SYMMETRY Symmetry
INVARIANTS
  CapacityRespected
PROPERTIES
  FailedIsFinal
CHECK_DEADLOCK FALSE
