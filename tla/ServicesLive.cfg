SPECIFICATION Spec
CHECK_DEADLOCK FALSE
CONSTANTS
  SyncPosts = {s1, s2}
  PageLimit = 1
  MaxMarks = 2
  MaxStarts = 2
  IxDocs <- MCIxDocs
  IxTexts = {1, 2}
  IxWorkers = {w1, w2}
  QueueChunk = 1
  BackfillChunk = 1
  PendingLimit = 1
  MaxIxWrites = 2
  MaxIxStops = 1
  HighWater = 4
  IntervalTurns = 2
  MaxMergeErrors = 1
  JobIds = {1, 2}
  JobsPerTurn = 1
  JobsPerCallback = 2
  FetchTime = 2
  JobDeadline = 2
  MaxJobNow = 2
  Grace = 1
  Recovery = 3
  Cooldown = 2
  Recreation = 1
  SlowProbes = 3
  MostMissed = 1
  MaxEvals = 1
  Sleeps = FALSE
  MkStreams = {"UserNotification"}
  MkCap = 1
  MkMaxItems = 1
  MkMaxPings = 2
  MkMaxTries = 2
  MkMaxAsks = 1
  MkMaxDelay = 2
PROPERTIES
  SearchCatchesUp
  PluginsProceed
  PagesComeBack
  ConnectionsProceed
