CONSTANTS
  Writers = {w1, w2, w3}
  Limits = {0, 1, 2, 9}
  MaxLimit = 3
  MaxTime = 2
SPECIFICATION FairSpec
INVARIANTS NoRepeats OnlyTwinsAreMissed
PROPERTY WalkEnds
CHECK_DEADLOCK FALSE
