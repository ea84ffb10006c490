SPECIFICATION Spec
CONSTANTS
  p1 = p1
  p2 = p2
  NULL = NULL
  Programs <- TwoPrograms
  Uses <- TwoScheduled
  NeedSignal = FALSE
  Failures <- NoFailures
  MaxRequests = 2
PROPERTIES TeardownUndisturbed
