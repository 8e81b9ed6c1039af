SPECIFICATION Spec
CONSTANTS
  None = None
  Wild = Wild
  User <- MCUser
  Chan = {"#c"}
  Server <- MCServer
  NickOf <- MCNickOf
  ValueOf <- MCValueOf
  Spell <- MCSpell
  MaskList <- MCMaskList
  UserList <- MCUserList
  Line <- MCLine
  Stray <- MCStray
  Me = "AB"
  Uplink = "S"
  Snum <- MCSnum
  OwnNumeric <- MCOwn
  ConfigFile <- MCConfigFile
  DebugChan = "#c"
  BotAccount = "U"
  Interp = {1, 2}
  Script = {"a", "b"}
  CommandOf <- MCCommandOf
  Traffic <- MCTraffic
  Handshake <- MCHandshake
  Char = {" ", ":", "|", "a"}
  MaxWord = 3
  Room = 3
  Base = 2
INVARIANTS
  TypeOK
  EveryWordOnce
  BehindTheLine
  ParametersHaveNoBit
  ChunksDoNotMatter
  LoopBackKeepsWords
  OwnNumericsComeBack
  InterpretersOpen
  ClientsAnswerTheirScript
  ModulesAfterAck
PROPERTY TsNeverRises
CHECK_DEADLOCK FALSE
