SPECIFICATION FairSpec
CONSTANTS
  a1 = a1
  i1 = i1
  Threads <- A1I1
  IoThreads <- I1
  Writers <- A1
  Callers <- I1
  Closers <- I1
  MaxWrites = 1
  MaxReads = 1
  MaxCloses = 1
  MaxConns = 1
  Overlap = FALSE
  Parts = 2
  Stream <- OnePdu
  LengthSize = 2
  MinLen = 2
  NoCmd = NoCmd
  NoCall = NoCall
  NoAnswer = NoAnswer
INVARIANTS
  TypeOK
  TruthfulHandlers
PROPERTIES
  ImplementsHalves
  WritesServed
  CloseSettles
CHECK_DEADLOCK FALSE
