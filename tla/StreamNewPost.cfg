SPECIFICATION Spec
CHECK_DEADLOCK FALSE
CONSTANTS
  Streams = {home}
  Posts = {p}
  MaxVersion = 2
  RawCap = 2
  BatchCap = 2
  PersistCap = 1
  BridgeCap = 1
  WireCap = 1
  MaxOutages = 0
  MaxFaults = 0
  MaxRestarts = 0
  MaxCopies = 0
  SideCap = 1
INVARIANTS
  NewPostsListed
