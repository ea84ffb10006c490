SPECIFICATION FairSpec
CONSTANTS
  Size = 3
  DevReadSize = 2
  MinRead = 2
  PacketSize = 2
  SizeMod = 8
  ErrLimit = 1
  Counts <- OneCount
  Users = {TRUE, FALSE}
  MaxStream = 4
INVARIANTS TypeOK UsedIsDistance NoOverlap ReadsAreComplete PausedIsQuiet
PROPERTIES StopReturns EndReleasesReader PauseReached
