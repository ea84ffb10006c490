SPECIFICATION FairSpec
CONSTANTS
  p1 = p1
  p2 = p2
  NULL = NULL
  Programs <- OneProgram
  Uses <- LiveOrScheduled
  NeedSignal = TRUE
  Failures = {"tune", "monitor", "file", "setup", "recorder"}
  MaxRequests = 2
INVARIANTS RecorderHasRecording NoNullDereference
PROPERTIES CallsReturn TeardownEnds RecordingIsEnded
