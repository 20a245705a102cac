SPECIFICATION Spec
CONSTANTS
  Octet = 24
  Inputs <- MCInputs
  Absent = Absent
  MaxElements = 3
  MaxText = 3
INVARIANTS
  TypeOK
  InHeader
  SegmentAsSent
CHECK_DEADLOCK FALSE
