SPECIFICATION Spec
CONSTANTS
  User = {u1, u2}
  Chan = {c1, c2}
  None = None
  Name <- MCName
  Fold <- MCFold
SYMMETRY Symmetry
INVARIANTS
  TypeOK
  AsymmetryOnlyFromDelUser
  UserSideSound
  StatusNeedsMembership
  CountsExact
  IndexExact
CHECK_DEADLOCK FALSE
PROPERTY
  ImplementsMembership
