SPECIFICATION Spec
SYMMETRY StreamSymmetry
VIEW CacheView
CONSTRAINT NothingMissed
CHECK_DEADLOCK FALSE
CONSTANTS
  Streams = {home, public}
  Posts = {p}
  MaxVersion = 2
  RawCap = 2
  BatchCap = 2
  PersistCap = 1
  BridgeCap = 1
  WireCap = 1
  MaxOutages = 0
  MaxFaults = 1
  MaxRestarts = 0
  MaxCopies = 1
  SideCap = 1
INVARIANTS
  CacheConverges
