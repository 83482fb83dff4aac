SPECIFICATION FairSpec
CONSTANTS
  MaxAttempts = 2
  MaxCalls = 3
  MaxSleeps = 1
  QuickStreak = 2
INVARIANTS TypeOK OneLiveLaunch HandedIsServing CardTellsTheTruth FoldedOnce
PROPERTIES SleptAnswersChangeNothing OrphansExit StopHolds
CHECK_DEADLOCK FALSE
