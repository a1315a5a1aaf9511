SPECIFICATION Spec
CONSTANTS
  Items = {"e1"}
  Accts = {"m"}
  AcctOf <- AllOnM
  KindOf <- Edits
  KeyedAccts = {}
  MaxAutomaticAttempts = 2
  MaxConcurrentDeliveries = 1
  ListLimit = 1
  Stamps = {1}
  MaxRetries = 0
  MaxStops = 0
PROPERTIES
  NoBlindResend
