SPECIFICATION Spec
CONSTANTS
  p1 = p1
  p2 = p2
  NULL = NULL
  Programs <- OneProgram
  Uses <- AllOfOne
  NeedSignal = TRUE
  Failures = {"tune", "file", "setup", "recorder"}
  MaxRequests = 2
INVARIANTS TypeOK IdleIsIdle FlagTells RecorderHasFile CardIsServed
