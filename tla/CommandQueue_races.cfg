SPECIFICATION FairSpec
CONSTANTS
  Keys = {k1, k2}
  Hashes = {h1, h2}
  Clients = {c1, c2}
  Runners = {r1, r2}
  MaxSubmits = 2
  MaxStale = 1
  MaxCrashes = 1
  MaxFaults = 1
  NoHash = NoHash
  NoKey = NoKey
INVARIANTS
  StaleBudget
  AnswersAgree
PROPERTIES
  KeepsPromise
  AcceptedSettles
CHECK_DEADLOCK FALSE
