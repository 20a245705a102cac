SPECIFICATION Spec
CONSTANTS
  a1 = a1
  a2 = a2
  i1 = i1
  i2 = i2
  Threads <- I2
  IoThreads <- I2
  Callers <- I2
  Closers <- I2
  Overlap = FALSE
  MaxReads = 2
  MaxCloses = 0
  MaxConns = 0
  Stream <- ShortPdu
  LengthSize = 2
  MinLen = 3
  NoCall = NoCall
  NoAnswer = NoAnswer
INVARIANTS
  TypeOK
  DeliveredWhole
PROPERTIES
  ImplementsInbox
CHECK_DEADLOCK FALSE
