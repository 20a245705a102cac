SPECIFICATION RestfulSpec
CONSTANTS
  a1 = a1
  a2 = a2
  i1 = i1
  i2 = i2
  Threads <- A1I1
  IoThreads <- I1
  Callers <- A1I1
  Closers <- I1
  Overlap = TRUE
  MaxReads = 1
  MaxCloses = 2
  MaxConns = 2
  Stream <- TwoPdus
  LengthSize = 2
  MinLen = 3
  NoCall = NoCall
  NoAnswer = NoAnswer
INVARIANTS
  DeliveredWhole
PROPERTIES
  ImplementsInbox
CHECK_DEADLOCK FALSE
