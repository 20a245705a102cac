SPECIFICATION Spec
CONSTANTS
  a1 = a1
  a2 = a2
  i1 = i1
  i2 = i2
  Threads <- A1I2
  IoThreads <- I2
  Writers <- A1
  Closers <- A1
  MaxWrites = 1
  MaxCloses = 1
  MaxConns = 1
  Parts = 2
  NoCmd = NoCmd
  NoAnswer = NoAnswer
INVARIANTS
  OneConnectionPerPdu
CHECK_DEADLOCK FALSE
