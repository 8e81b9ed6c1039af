SPECIFICATION FairSpec
CONSTANTS
  User = {1, 2}
  Client = {1}
  Prefix = {"o"}
  Chan = {c1, c2}
  Base = 2
  MaxDelay = 2
  MaxTargets = 2
  MaxLetters = 4
  None = None
INVARIANTS
  TypeOK
  ChangesKeepTheirChannel
  BuffersHaveClients
  BuffersHaveRoom
  StatusOnChannel
PROPERTY NothingWaitsForever
CHECK_DEADLOCK FALSE
