SPECIFICATION Spec
CONSTANTS
  Layout <- MCLayout
  TagType <- MCTagType
  MaxOctet = 30
  CmdId = 4
  Statuses = {0, 2}
  Numbers = {3}
  Values <- MCValues
  OptValues <- MCOptValues
  Received <- MCReceived
  Later <- MCLater
  NoData = NoData
  MaxBody = 6
  MaxTlvs = 2
  BodyOctets = {0, 1}
INVARIANTS
  TypeOK
  CacheFaithful
  LengthTrue
