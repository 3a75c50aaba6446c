SPECIFICATION FairSpec
CONSTANTS
  Orders = {o1, o2}
  LastVersion = 1
  Watchers = {w1}
  Users = {u1}
  Analyst = Analyst
  MaxFaults = 1
INVARIANT StoppedIsFlat
PROPERTIES
  PauseHolds
  WindowIsClosed
  TradeIsExited
CHECK_DEADLOCK FALSE
