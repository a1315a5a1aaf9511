SPECIFICATION Spec
VIEW PositionsView
CHECK_DEADLOCK FALSE
CONSTANTS
  Streams = {home}
  Posts = {p}
  MaxVersion = 1
  RawCap = 1
  BatchCap = 1
  PersistCap = 1
  BridgeCap = 1
  WireCap = 2
  MaxOutages = 1
  MaxFaults = 0
  MaxRestarts = 1
  MaxCopies = 1
  SideCap = 1
INVARIANTS
  LagCovered
  GapsShowRestarts
