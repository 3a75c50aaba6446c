SPECIFICATION FairSpec
CONSTANTS
  LastDay = 1
  Keys <- MCDays
  Entries = {e1}
  StartupJobs = {"startup"}
  Rollover = FALSE
  MaxCrashes = 1
  MaxFaults = 0
  NoKey = NoKey
  NoEntry = NoEntry
PROPERTY
  ClosureIsCrashRecoverable
CHECK_DEADLOCK FALSE
