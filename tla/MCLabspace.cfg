SPECIFICATION Spec
CONSTANTS
  Player = {p1, p2, p3}
  MinPlayers = 3
  MaxPlayers = 3
  NumScientists <- One
  NumInvestigators <- One
  NumIdiots <- Zero
  ForceFrom = 3
  InfestedFrom = 3
  MaxWaits = 1
  RoundCap = 3
  MaxKills = 0
  None = None
SYMMETRY Symmetry
INVARIANTS
  TypeOK
  VotesAmongPlayers
  OneForceField
  PhaseHasDeadline
  RolesMatchPhase
PROPERTIES
  ImplementsGame
