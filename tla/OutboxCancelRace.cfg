SPECIFICATION Spec
CONSTANTS
  Items = {"p1"}
  Accts = {"k"}
  AcctOf <- AllOnK
  KindOf <- Posts
  KeyedAccts = {"k"}
  MaxAutomaticAttempts = 2
  MaxConcurrentDeliveries = 1
  ListLimit = 1
  Stamps = {1}
  MaxRetries = 0
  MaxStops = 1
PROPERTIES
  CancelledStaysCancelled
