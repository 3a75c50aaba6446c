SPECIFICATION Spec
CONSTANTS
  w1 = w1
  w2 = w2
  a1 = a1
  a2 = a2
  o1 = o1
  o2 = o2
  o3 = o3
  NoAccount = NoAccount
  NoOrder = NoOrder
  Workers = {w1, w2}
  Accounts = {a1}
  Orders = {o1, o2, o3}
  Deposits <- MCDeposits
  Margins <- MCMargins
  RawFees <- MCRawFees
  RawGross <- MCRawGross
SYMMETRY Symmetric
INVARIANTS
  FillsMatch
  MarginHeld
  Reconciles
PROPERTY OpensCovered
CHECK_DEADLOCK FALSE
