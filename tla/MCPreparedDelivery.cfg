SPECIFICATION Spec
CONSTANTS
  d1 = d1
  d2 = d2
  t1 = t1
  t2 = t2
  c1 = c1
  c2 = c2
  o1 = o1
  o2 = o2
  old = old
  new = new
  None = None
  Deliveries = {d1, d2}
  Tasks = {t1, t2}
  Callers = {c1, c2}
  Deciders = {o1, o2}
  Paths = {1, 2}
  Contents = {old, new}
  Writable <- MCWritable
  Root <- MCRoot
  Message <- MCMessage
  EarlyDecisions = {d1}
SYMMETRY Symmetry
INVARIANTS
  CommitIsVerified
  CommitRecorded
  PairedDecision
CHECK_DEADLOCK FALSE
