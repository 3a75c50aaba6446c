SPECIFICATION DaysSpec
CONSTANTS
  LastDay = 2
  Keys <- MCOrders
  Entries = {e1, e2}
  StartupJobs = {"startup"}
  Rollover = TRUE
  MaxCrashes = 1
  MaxFaults = 1
  NoKey = NoKey
  NoEntry = NoEntry
SYMMETRY Symmetric
INVARIANTS
  OneFillPerCommand
  OpenIsWatched
PROPERTIES
  ClosesFlat
  AutoEntersRunningDay
  DeferralIsHonest
  KeepsDays
CHECK_DEADLOCK FALSE
