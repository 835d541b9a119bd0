SPECIFICATION Spec
CONSTANTS
  NFaces = 3
  TotalDice = 3
  Cards = {"x2", "Plus_Minus", "Kniffel", "Feuerwerk", "Kleeblatt", "Stop"}
  MaxChain = 2
  MaxRolls = 3
  MaxTurns = 2
  MaxReloads = 1
  PlayerHosts = TRUE
INVARIANTS
  CommitsAreAccepted
  AuthoritiesAgree
  ToldDecisionStands
  DiceBelongToTurn
CHECK_DEADLOCK FALSE
