SPECIFICATION Spec
CONSTANTS
  Player = {p1, p2, p3}
  MinPlayers = 3
  MaxPlayers = 3
  NumScientists <- One
  NumInvestigators <- Zero
  NumIdiots <- Zero
  ForceFrom = 3
  InfestedFrom = 4
  MaxWaits = 0
  RoundCap = 1
  MaxKills = 1
  None = None
SYMMETRY Symmetry
INVARIANTS
  NothingOutlivesAPlayer
