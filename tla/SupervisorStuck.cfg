SPECIFICATION FairSpec
CONSTANTS
  MaxAttempts = 2
  MaxCalls = 3
  MaxSleeps = 1
  QuickStreak = 2

PROPERTY BackoffEnds
CHECK_DEADLOCK FALSE
