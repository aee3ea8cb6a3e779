CONSTANTS
  TopLevel = 5
  WindowMax = 10
  MinActivities = 5
  AdvancePercent = 80
  CorrectPercent = 60
  Scores = {59, 60}
  MaxAttempts = 12
SPECIFICATION RowSpec
INVARIANTS RowTypeOK Settled RebuildsFromHistory
PROPERTY LevelIsEarned
CHECK_DEADLOCK FALSE
