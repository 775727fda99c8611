SPECIFICATION FairSpec
CONSTANTS
  t1 = t1
  t2 = t2
  t3 = t3
  a1 = a1
  Graph = Graph
  None = None
  Tasks = {t1, t2, t3}
  Agents = {a1}
  Callers = {1, 2}
  Requests <- MCRequests
  PoolMax = 2
  MaxCalls = 2
INVARIANTS
  GraphAcyclic
  DeadlockNeedsInsertion
PROPERTIES
  ClaimedWhenReady
  CallsReturn
CHECK_DEADLOCK FALSE
