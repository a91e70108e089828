SPECIFICATION FairSpec
CONSTANTS
  MaxTests = 2
  MaxFaults = 1
INVARIANT AttemptsAreTrue
PROPERTIES
  CronMovesOnAfterOutcome
  DisabledSettles
CHECK_DEADLOCK FALSE
