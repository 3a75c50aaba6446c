SPECIFICATION BusySpec
CONSTANTS
  t1 = t1
  t2 = t2
  Tiers = {t1, t2}
  Requests = {q1, q2}
  Chains <- MCChains
  Threshold <- MCThreshold
  MaxRetries <- MCMaxRetries
  HalfOpenMax = 2
  Gated = FALSE
PROPERTIES
  OpenShields
  ProbationEnds
