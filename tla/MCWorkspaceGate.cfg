SPECIFICATION Spec
CONSTANTS
  t1 = t1
  w1 = w1
  w2 = w2
  None = None
  Tasks = {t1}
  Writers = {w1, w2}
  Paths = {1, 2}
  Existing = {1}
  MaxContent = 3
  Operations = 1
  PoolSize = 2
  MaxCalls = 4
SYMMETRY Symmetry
INVARIANTS
  EvidenceIsTested
  HolderProceeds
PROPERTIES
  CompletedAsTested
  NoLostUpdate
CHECK_DEADLOCK FALSE
