SPECIFICATION FairSpec
CONSTANTS
  Items = {"p1", "p2"}
  Accts = {"k"}
  AcctOf <- AllOnK
  KindOf <- Posts
  KeyedAccts = {"k"}
  MaxAutomaticAttempts = 2
  MaxConcurrentDeliveries = 1
  ListLimit = 2
  Stamps = {1}
  MaxRetries = 0
  MaxStops = 1
INVARIANTS
  KeyedPostPublishedOnce
  SucceededMeansExecuted
  BoundedConcurrency
PROPERTIES
  EveryRowSettles
