SPECIFICATION Spec
CONSTANTS
  User = {u1, u2}
  Chan = {c1, c2}
  None = None
  Name <- MCName
  Fold <- MCFold
INVARIANT PrefixAssertHolds
CHECK_DEADLOCK FALSE
