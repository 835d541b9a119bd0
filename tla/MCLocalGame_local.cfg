SPECIFICATION Spec
CONSTANTS
  p1 = p1
  p2 = p2
  None = None
  Roster = {p1, p2}
  Decks <- MCDecks
  Rules = {"classic", "modernized"}
  WinningScore = 1000
  Totals = {0, 500}
  MaxChain = 3
  MaxLog = 2
  MaxTurns = 3
SYMMETRY RosterSymmetry
INVARIANTS
  ReloadResumes
  ChainIsWhole
  LogExplainsScores
PROPERTIES
  UndoRestores
  SaveSurvives
CHECK_DEADLOCK FALSE
