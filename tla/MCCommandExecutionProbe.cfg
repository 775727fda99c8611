CONSTANTS
  m1 = m1
  m2 = m2
  m3 = m3
  a = a
  b = b
  c = c
  e1 = e1
  e2 = e2
  NoModel = NoModel
  Models = {m1, m2, m3}
  Providers = {a, b, c}
  Configured = {a, b}
  Executions = {e1}
  MultiStep = {}
  Registry <- TheRegistry
  Needs <- HighNeed
  Histories <- TheHistories
  Plans <- ThePlans
  MinObservations = 2
  FailureThreshold = 2
  MaxAttempts = 1
  MaxRounds = 1
  FailureStreak = 2
  MaxCalls = 1
  MaxSteps = 2
SPECIFICATION BusySpec
PROPERTIES
  CircuitIsProbed
