SPECIFICATION Spec
CONSTANTS
  Durations = {0, 1, 2}
  MaxSeats = 3
  DeckSize = 2
  MaxChain = 3
  MaxRestarts = 1
  MaxLate = 1
  MaxAge = 15
INVARIANT DeadlineHolds
PROPERTY TurnEnds
