SPECIFICATION FairSpec
CONSTANTS
  h1 = h1
  h2 = h2
  r1 = r1
  r2 = r2
  NULL = NULL
  Hosts <- TwoHosts
  Allowed <- NoTranscodeOnH2
  MaxJobs = 1
  RetryLimit = 1
  Threads = {1, 2}
  Uses <- FairUses
CHECK_DEADLOCK FALSE
PROPERTY EveryJobEnds
