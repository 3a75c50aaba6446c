SPECIFICATION Spec
CONSTANTS
  Orders = {o1, o2}
  LastVersion = 2
  Watchers = {w1, w2}
  Users = {}
  Analyst = Analyst
  MaxFaults = 0
SYMMETRY Symmetric
INVARIANTS
  OneOpenTrade
  TradedOnce
PROPERTY CooldownRespected
CHECK_DEADLOCK FALSE
