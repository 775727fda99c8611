SPECIFICATION FairSpec
CONSTANTS
    Clients = {o1, o2, s1}
    Owners = {o1, o2}
    o1 = o1
    o2 = o2
    s1 = s1
    Hashes = {h1, h2, h3}
    h1 = h1
    h2 = h2
    h3 = h3
    NoHash = none
    NoClient = nobody
    Ratified = {h1, h2}
    Digests = {d1}
    d1 = d1
    PoolSize = 2
    Uses <- MCUses
    MaxCalls = 4
    MaxFaults = 1
INVARIANTS
  ProjectionOfHistory
  SchemaAccepts
PROPERTIES
  ReplacesWhatWasSeen
  CallsReturn
  ImplementsLedger
CHECK_DEADLOCK FALSE
