SPECIFICATION Spec
CONSTANTS
  Player = {p1, p2, p3, p4}
  MinPlayers = 4
  MaxPlayers = 4
  NumScientists <- One
  NumInvestigators <- Two
  NumIdiots <- Zero
  ForceFrom = 5
  InfestedFrom = 5
  MaxWaits = 0
  RoundCap = 3
  MaxKills = 0
  None = None
SYMMETRY Symmetry
INVARIANTS
  OneActor
PROPERTY DecidedGameIsNoticed
