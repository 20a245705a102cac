SPECIFICATION RestfulSpec
CONSTANTS
  a1 = a1
  a2 = a2
  i1 = i1
  i2 = i2
  Threads <- A1I1
  IoThreads <- I1
  Writers <- A1I1
  Closers <- I1
  MaxWrites = 2
  MaxCloses = 1
  MaxConns = 1
  Parts = 2
  NoCmd = NoCmd
  NoAnswer = NoAnswer
INVARIANTS
  HandlersInWireOrder
  TruthfulUnlessRaced
  WholePdus
PROPERTIES
  ImplementsOutbox
CHECK_DEADLOCK FALSE
