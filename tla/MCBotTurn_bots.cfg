SPECIFICATION BotSpec
CONSTANTS
  None = None
  NFaces = 3
  TotalDice = 3
  Cards = {"x2", "Plus_Minus", "Kniffel", "Feuerwerk", "Kleeblatt", "Stop"}
  MaxChain = 2
  MaxRolls = 3
  MaxTurns = 1
  MaxReloads = 1
  PlayerHosts = TRUE
  CautiousMinDice = 2
  Bots <- MCBots
INVARIANTS
  OttoSettlesRight
  NoBotStranded
CHECK_DEADLOCK FALSE
