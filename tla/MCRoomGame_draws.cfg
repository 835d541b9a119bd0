SPECIFICATION Spec
CONSTANTS
  p1 = p1
  p2 = p2
  p3 = p3
  d1 = d1
  d2 = d2
  None = None
  Card <- MCCard
  Player <- TwoPlayers
  Decks <- DrawDeck
  Token <- MCTokens
  DrawId <- TwoDraws
  MaxChain = 3
  MaxDeckSize = 9
  MaxRound = 2
SYMMETRY SeatSymmetry
INVARIANTS
  ReceiptNamesCardInPlay
  OneCardPerDraw
PROPERTY
  PlaysFromTape
