SPECIFICATION BoundedSpec
CONSTANTS
  Plans = {p1, p2}
  Bodies = {b1, b2}
  Sound = {b1, b2}
  Unparsed = Unparsed
  Keys = {k1}
  Proposals = {q1}
  NoPlan = NoPlan
  MaxInFlight = 3
SYMMETRY Symmetric
INVARIANTS
  SessionRunsItsPlan
  LogIsAPath
  AnswersHold
PROPERTIES
  PinsWhatWasShown
CHECK_DEADLOCK FALSE
