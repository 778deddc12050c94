SPECIFICATION FairSpec
CONSTANTS
  Scores = 1
  MaxReplays = 1
  MaxControls = 1
  MaxPhones = 2
  MaxSplits = 2
CHECK_DEADLOCK FALSE
INVARIANTS OneGame ScoresHeard NotSetBack ButtonWorks
PROPERTIES WholeIsHanded GamePlayed GameEnds
