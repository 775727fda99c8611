CONSTANTS
  m1 = m1
  m2 = m2
  m3 = m3
  a = a
  b = b
  c = c
  e1 = e1
  e2 = e2
  NoModel = NoModel
  Models = {m1, m2, m3}
  Providers = {a, b, c}
  Configured = {a, b}
  Executions = {e1, e2}
  MultiStep = {e2}
  Registry <- TheRegistry
  Needs <- TheNeeds
  Histories <- TheHistories
  Plans <- ThePlans
  MinObservations = 2
  FailureThreshold = 2
  MaxAttempts = 2
  MaxRounds = 2
  FailureStreak = 1
  MaxCalls = 2
  MaxSteps = 2
SPECIFICATION Spec
INVARIANTS
  EffectsBounded
  AbortStopsTools
  StepsFollowPlan
PROPERTIES
  OpenAdmitsNobody
