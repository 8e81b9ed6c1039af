SPECIFICATION Spec
CONSTANTS
  User = {u1, u2, u3, u4}
  Lowest = 0
  Highest = 1
  Remote = {8, 9}
  Nick = {a, b}
  None = None
SYMMETRY Symmetry
INVARIANTS
  TypeOK
  OwnNumericsDiffer
  PresentAreFound
  TablesSound
  OpersLive
  NicksLostByCollisionOnly
CHECK_DEADLOCK FALSE
