SPECIFICATION FairSpec
CONSTANTS
  Player = {p1, p2, p3}
  MinPlayers = 3
  MaxPlayers = 3
  NumScientists <- One
  NumInvestigators <- Zero
  NumIdiots <- One
  ForceFrom = 4
  InfestedFrom = 4
  MaxWaits = 0
  RoundCap = 1
  MaxKills = 0
  None = None
PROPERTY GameEnds
