SPECIFICATION FairSpec
CONSTANTS
  h1 = h1
  h2 = h2
  r1 = r1
  r2 = r2
  NULL = NULL
  Hosts <- TwoHosts
  Allowed <- AllAllowed
  MaxJobs = 1
  RetryLimit = 1
  Threads = {1, 2}
  Uses <- StopOnHost
CHECK_DEADLOCK FALSE
PROPERTY StoppedIsCancelled
