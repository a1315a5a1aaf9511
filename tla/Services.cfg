SPECIFICATION Spec
CHECK_DEADLOCK FALSE
CONSTANTS
  SyncPosts = {s1, s2}
  PageLimit = 1
  MaxMarks = 3
  MaxStarts = 2
  IxDocs <- MCIxDocs
  IxTexts = {1, 2}
  IxWorkers = {w1, w2}
  QueueChunk = 1
  BackfillChunk = 1
  PendingLimit = 1
  MaxIxWrites = 2
  MaxIxStops = 1
  HighWater = 4
  IntervalTurns = 2
  MaxMergeErrors = 1
  QuoteKeys = {"q1", "q2"}
  SourceOf <- MCSourceOf
  Consumers = {"c1", "c2"}
  QuoteCapacity = 2
  MaxQuoteTasks = 2
  KqMaxDepth = 4
  KqMaxItems = 3
  KqMaxSources = 5
  KqQueries <- MCQueries
  KqMaxNumber = 2
  KqAsks <- MCAsks
  KqContents <- MCContents
  PluginCount = 2
  CallbackBudget = 1
  QueueCapacity = 1
  MaxNow = 3
  MaxAsks = 3
  MaxLoads = 3
  JobIds = {1, 2}
  JobsPerTurn = 1
  JobsPerCallback = 2
  FetchTime = 2
  JobDeadline = 2
  MaxJobNow = 3
  ToggleMax = 2
  ToggleCalls = 3
  Deliveries = {1, 2, 3}
  Keyed = {1, 2}
  MaxRepoPosts = 3
  Uris = {u1, u2}
  Listings = {l1}
  CacheCapacity = 1
  FoundTtl = 1
  MissTtl = 0
  FetchDelay = 1
  MaxCacheNow = 4
  Drafts = {0, 1, 2, 3}
  TooLarge = {2}
  Cyclic = {3}
  MaxPages = 2
  Grace = 1
  Recovery = 2
  Cooldown = 2
  Recreation = 1
  SlowProbes = 2
  MostMissed = 1
  MaxEvals = 1
  Sleeps = TRUE
  FeedIds = {1, 2, 3}
  AtUris = {2}
  Changing = {2}
  FeedPage = 1
  MaxTracked = 2
  Budget = 1
  ChanBound = 1
  StoreCap = 1
  MaxPollStops = 1
  NoticeIds = {1, 2, 3, 4}
  NoticePage = 2
  NoticeWindow = 2
  Unsteady = {2}
  MaxTurns = 2
  MaxNoticeStops = 1
  ScanRows = {1, 2, 3, 4}
  ScanPage = 2
  ScanFloor = 2
  ScanCeiling = 3
  ScanLimits = {0, 2}
  MaxCacheWrites = 1
  SortedCandidates = 1
  ThreadCap = 2
  SpAsks <- MCSpAsks
  SpPosts <- MCSpPosts
  SpBesides <- MCSpBesides
  SpMembers <- MCSpMembers
  SpViewers <- MCSpViewers
  SpThreads <- MCSpThreads
  GapPosts = {1, 2, 3, 4, 5, 6}
  GapAway = 4
  GapLimit = 2
  GapBatch = 1
  MaxApiPages = 2
  MaxGapSyncs = 3
  RbTasks = {1, 2, 3}
  RbServers = {a, b}
  RbGap = 2
  RbMaxTime = 4
  MkStreams = {"UserNotification"}
  MkCap = 1
  MkMaxItems = 1
  MkMaxPings = 2
  MkMaxTries = 3
  MkMaxAsks = 1
  MkMaxDelay = 2
  LgFlows = {1, 2}
  LgPorts = {1}
  LgMaxVisits = 2
  RqCalls = {1, 2}
  RqBackend <- MCRqBackend
  RqAnswers <- MCRqAnswers
  RqLimit = 2
  RqAttempts = 2
  RqMaxDelay = 2
  RqTracked = 1
  RqMaxTime = 3
  MgApps = {6, 8}
  MgMaxStarts = 3
  AcAccounts = {1, 2}
  AcOps = {1, 2}
  AcCommands = 3
  AcMaxLayouts = 1
  Uploads = {u1, u2}
  UpAccounts = {1}
  UpChunks = 1
  DropTtl = 2
  MaxUpTicks = 5
  MaxDrops = 2
  MaxLogouts = 1
  Downloads = {d1, d2}
  DlNames = 2
  DlBytes = 1
  MaxDlStops = 1
  StContents <- MCStContents
  StNames <- MCStNames
  StTerms <- MCStTerms
  BtLoads = 3
  BtMaxReloads = 1
  BtMaxFailures = 1
  BtAccts = {a1}
  SgEdits = 3
  SgMaxResets = 1
  SgMaxFailures = 1
  CnColumns = 1
  CnCapacity = 1
  CnMaxCommits = 2
  CnMaxEvents = 1
  CnMaxFailures = 1
  CnMaxResets = 1
  TvPosts = 4
  TvLimit = 5
  UtAccts <- MCUtAccts
  UtPosts = 3
  UtTimes = 2
  UtPage = 1
  UtFactor = 2
  UtFloor = 2
  SqPieces = 3
  SqRows = 3
  SqPage = 1
  SqMax = 2
  ScConns = {conn1}
  ScReqs = {query1, query2}
  SaAccts = {sa1, sa2}
  SaOps = 2
  SaSwitches = 1
  AxPosts = 4
  AxPage = 2
  AxPages = 3
  AxNone = 0
  PdRequests = 1
  PdReads = 1
  NsNotices = 4
  NsPostOf <- MCNsPostOf
  NsPage = 2
  NsStarts = 2
  ClLayouts <- MCClLayouts
  ClAccts = {"m", "b"}
  ClBluesky = {"b"}
  StqStreams = {s1, s2}
  StqKeyOf <- MCStqKeyOf
  StqCapacity = 1
  StqWorkers = 1
  StqAttempts = 2
  StqMissTtl = 1
  StqMaxTime = 2
  SvPosts = 2
  SvChanges = 1
  SvLimit = 1
  SvMaxBreaks = 1
INVARIANTS
  IndexIsRight
  QueriesMeanWhatTheySay
  HooksAndButtonsAreTrue
  ActionsAreTrue
  PagesTile
  
  FilesAreWhole
  StartsAreSafe
  AccountsAgree
  WhatIsToldHolds
  DraftsSurvive
PROPERTIES
  StepsLoseNothing
