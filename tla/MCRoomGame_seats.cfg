SPECIFICATION Spec
CONSTANTS
  p1 = p1
  p2 = p2
  p3 = p3
  d1 = d1
  d2 = d2
  None = None
  Card <- MCCard
  Player <- ThreePlayers
  Decks <- SeatDecks
  Token <- FewTokens
  DrawId <- OneDraw
  MaxChain = 2
  MaxDeckSize = 8
  MaxRound = 2
SYMMETRY SeatSymmetry
INVARIANTS
  TableInv
  UndoRecordIsDealLog
  EqualTurns
  FairFinish
  LiveBelongsToTurn
