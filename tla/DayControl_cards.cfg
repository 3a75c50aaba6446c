SPECIFICATION Spec
CONSTANTS
  Keys = {c1, c2}
  Taps = {t1, t2}
  Fields = {"risk", "loss"}
  Changes <- MCChanges
  LastDay = 2
  MaxValue = 2
  MaxTroubles = 1
  NoKey = NoKey
SYMMETRY Symmetric
INVARIANTS
  VerdictIsTrue
  OrderKeepsItsDay
PROPERTY WritesWhatWasShown
CHECK_DEADLOCK FALSE
