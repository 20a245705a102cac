SPECIFICATION FairSpec
CONSTANTS
  a1 = a1
  a2 = a2
  i1 = i1
  i2 = i2
  Threads <- A1I1
  IoThreads <- I1
  Writers <- A1
  Closers <- A1
  MaxWrites = 2
  MaxCloses = 0
  MaxConns = 0
  Parts = 1
  NoCmd = NoCmd
  NoAnswer = NoAnswer
PROPERTIES
  EveryWriteAnswered
CHECK_DEADLOCK FALSE
