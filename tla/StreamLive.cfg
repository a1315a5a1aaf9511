SPECIFICATION LiveSpec
CHECK_DEADLOCK FALSE
CONSTANTS
  Streams = {home}
  Posts = {p}
  MaxVersion = 1
  RawCap = 1
  BatchCap = 1
  PersistCap = 1
  BridgeCap = 1
  WireCap = 1
  MaxOutages = 0
  MaxFaults = 0
  MaxRestarts = 0
  MaxCopies = 2
  SideCap = 1
INVARIANTS
  TypeOK
PROPERTIES
  LiveDelivery
  LossIsResynced
