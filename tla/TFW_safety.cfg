SPECIFICATION Spec
CONSTANTS
  recorder = recorder
  tvrec = tvrec
  Clients <- TwoClients
  Writer <- recorder
  BufSizes <- OneSize
  MaxWrite = 2
  MinWrite = 2
  Faults <- AllFaults
  MaxStream = 4
INVARIANTS TypeOK NoOverlap FileIsStream CloseCommits
PROPERTIES FlushCommits FlushSyncs ImplementsOrderedWriter
