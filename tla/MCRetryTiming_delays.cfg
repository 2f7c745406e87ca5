SPECIFICATION Spec
CONSTANTS
  BaseDelay = 2
  MaxDelay = 5
  Multiplier = 2
  JitterNum = 1
  JitterDen = 2
  Threshold = 3
  Strategies <- EachKind
  MaxNow = 12
  MaxTries = 5
CHECK_DEADLOCK FALSE
INVARIANTS
  TypeOK
  BackoffIsExponential
PROPERTIES
  FailedConnectsAreSpaced
  LongConnectionResetsDelay
  NoEarlyReset
  GivesUpAtLimit
