SPECIFICATION Spec
CONSTANTS
  h1 = h1
  h2 = h2
  r1 = r1
  r2 = r2
  NULL = NULL
  Hosts <- TwoHosts
  Allowed <- AllAllowed
  MaxJobs = 2
  RetryLimit = 1
  Threads = {1, 2}
  Uses <- SafeUses
SYMMETRY HostSymmetry
CHECK_DEADLOCK FALSE
INVARIANTS TypeOK RunOnce OneJobPerRecording EntryIsOwn RowsHaveThreads
PROPERTY DoneStaysDone
