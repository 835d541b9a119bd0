SPECIFICATION SubSpec
CONSTANTS
  d1 = d1
  d2 = d2
  None = None
  Device = {d1, d2}
  MaxGames = 2
  Leader <- Turns
  MaxFailures = 1
  MaxAttempts = 2
  Host = {d1, d2}
  Followed <- OneAtATime
  Newcomer = {d2}
  Wanderer = {d2}
  Submitter = {d2}
INVARIANTS
  OneRowPerGame
  RowsTellOutcome
  AwayAreRecorded
  FailureCanBeRetried
PROPERTY
  StopsOnlyWhenDone
CHECK_DEADLOCK FALSE
