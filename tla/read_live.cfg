SPECIFICATION FairSpec
CONSTANTS
  a1 = a1
  a2 = a2
  i1 = i1
  i2 = i2
  Threads <- A1I2
  IoThreads <- I2
  Callers <- A1I1
  Closers <- A1
  Overlap = TRUE
  MaxReads = 1
  MaxCloses = 1
  MaxConns = 1
  Stream <- ZeroPdu
  LengthSize = 2
  MinLen = 3
  NoCall = NoCall
  NoAnswer = NoAnswer
INVARIANTS
  ExclusiveReader
  OneHandler
PROPERTIES
  ReadAnswered
CHECK_DEADLOCK FALSE
