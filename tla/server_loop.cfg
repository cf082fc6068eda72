\* A start that may fail, two lines, four completions, and channels of one place.
SPECIFICATION FairSpec
CONSTANTS
  Capacity = 1
  MaxLines = 2
  MaxRequests = 4
INVARIANTS
  TypeOK
  StuckAfterTimeouts
  RunsLoaded
PROPERTIES
  AnswersLag
  StopEnds
CHECK_DEADLOCK FALSE
