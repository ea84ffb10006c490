SPECIFICATION FairSpec
CONSTANTS
  recorder = recorder
  tvrec = tvrec
  Clients <- TwoClients
  Writer <- recorder
  BufSizes <- OneSize
  MaxWrite = 2
  MinWrite = 2
  Faults <- FileTooBig
  MaxStream = 3
PROPERTIES CallsReturn DtorReturns
