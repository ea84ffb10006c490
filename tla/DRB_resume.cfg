SPECIFICATION Spec
CONSTANTS
  Size = 4
  DevReadSize = 2
  MinRead = 2
  PacketSize = 1
  SizeMod = 8
  ErrLimit = 1
  Counts <- SomeCounts
  Users = {TRUE}
  MaxStream = 4
INVARIANT ReadsWereRead
