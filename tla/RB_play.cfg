SPECIFICATION FairSpec
CONSTANTS
  Size = 4
  MaxBlock = 1
  Counts <- SomeCounts
  MaxLen = 5
  Targets <- SomeTargets
  Programs = 2
  FailLimit = 1
  RestartAfter = 0
  AbortAfter = 1
  Uses <- PlayUses
CHECK_DEADLOCK FALSE
INVARIANTS TypeOK NoOverlap ReadsAreTheFile
PROPERTIES ReadReturns PauseReached DeleteReturns
