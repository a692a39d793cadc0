SPECIFICATION FairSpec
CONSTANTS
  Loops = {l1, l2, l3}
  InitialDelay = 1
  MaxDelay = 6
  BackoffMultiple = 2
  MaxAttempts = 4
  StartAfterStop = FALSE
INVARIANTS
  TypeOK
  ActiveHasLoop
  SingleFlight
  GivesUpAfterMaxAttempts
PROPERTY
  EpisodeEnds
CHECK_DEADLOCK FALSE
