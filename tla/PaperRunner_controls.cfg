SPECIFICATION ControlsSpec
CONSTANTS
  LastDay = 1
  Keys <- MCControls
  Entries = {e1}
  StartupJobs = {"startup"}
  Rollover = FALSE
  MaxCrashes = 1
  MaxFaults = 0
  NoKey = NoKey
  NoEntry = NoEntry
INVARIANT
  CompletedCloseIsClosed
PROPERTIES
  PauseHolds
  EveryDayEnds
  IdleDayStarts
CHECK_DEADLOCK FALSE
