SPECIFICATION Spec
CONSTANTS
  p1 = p1
  p2 = p2
  NULL = NULL
  Programs <- OneProgram
  Uses <- OneScheduled
  NeedSignal = FALSE
  Failures = {"tune"}
  MaxRequests = 2
PROPERTIES ExtendsWhatRecords
