SPECIFICATION Spec
CONSTANTS
  Items = {"p1", "e1"}
  Accts = {"m"}
  AcctOf <- AllOnM
  KindOf <- PostAndEdit
  KeyedAccts = {}
  MaxAutomaticAttempts = 2
  MaxConcurrentDeliveries = 2
  ListLimit = 1
  Stamps = {1}
  MaxRetries = 1
  MaxStops = 1
INVARIANTS
  TypeOK
  AtMostOncePerDecision
  FailedMeansUnpublished
  DeliveryOwnsRow
  NoteRecreatedOnce
  FifoPerAccount
PROPERTIES
  KeepsPromise
