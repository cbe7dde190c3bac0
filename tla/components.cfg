SPECIFICATION Spec
CONSTANTS
  \* Downloads
  j1 = j1 j2 = j2 j3 = j3 f1 = f1 f2 = f2
  Jobs = {j1, j2, j3}
  Files = {f1, f2}
  FileOf <- DLFileOf
  Pinned = {j1, j3}
  Faulty = {f2}
  Size = 2
  MaxStarts = 2
  NoFile = NoFile
  \* MemoryTiers
  ca = ca cb = cb cc = cc
  Callers = {t1, t2}
  Monitor = mon
  Chunks = {ca, cb}
  SizeOf <- MTSizeOf
  Budget = 1
  HotAfter = 1
  MaxPins = 1
  MaxUses = 4
  GpuAnswers <- MTGpuAnswers
  Garbled = Garbled
  Nobody = Nobody
  NoChunk = NoChunk
  \* ChunkCache
  Loaders = {t1, t2}
  Packed = {ca, cb, cc}
  BytesOf <- CCBytesOf
  CacheBudget = 3
  Broken = {ca}
  Unreadable = {cb}
  Unplaced = {ca}
  Unchecked = Unchecked
  \* EvidenceLog
  Logs = {f1, f2}
  Capacity = 3
  BufferSize = 2
  MaxBuf = 1
  MaxRecords = 2
  MaxOnDisk = 2
  Fallible = {f1}
  \* JsonLines
  Appenders = {t1, t2}
  Journals = {f1, f2}
  Locked = {f2}
  Long = {2}
  MaxLines = 4
  MaxCrashes = 2
  MaxFailures = 1
  FileLimit = 6
  Nowhere = Nowhere
  \* ModelCatalog
  d1 = d1 l1 = l1 b1 = b1 good = good second = second junk = junk
  Paths = {d1, l1, b1}
  SourceAt <- MCatSourceAt
  Rank <- MCatRank
  ModelBytes = {good, second, junk}
  BytesIn <- MCatBytesIn
  HeaderOf <- MCatHeaderOf
  Manifests <- MCatManifests
  FlakyRoots = {"LmStudio", "Ollama"}
  FirstDisk <- MCatFirstDisk
  MaxChanges = 1
  Absent = Absent
  \* Planner
  Profiles <- PLProfiles
  VramFree <- PLVramFree
  RamFree <- PLRamFree
  SsdFree <- PLSsdFree
  Reserves <- PLReserves
  Given <- PLGiven
  Asked <- PLAsked
  Context = 4096
  RoundedDown <- PLRoundedDown
  \* Monitoring
  Measured = {}
  Reported = {"moe_low_hit"}
  BaseCooldown = 1
  MaxCooldown = 2
  EvictPause = 2
  MaxTime = 3
  \* ToolChat
  c1 = c1 c2 = c2 rs = rs md = md toml = toml tmp1 = tmp1 tmp2 = tmp2
  Chats = {c1, c2}
  Targets = {rs, md, toml}
  Stem <- TCStem
  Writes <- TCWrites
  MaxRounds = 1
  MaxCalls = 1
  Usages = {0, 1}
  Requests <- TCRequests
  OtherCalls <- TCOtherCalls
  Embeddings <- TCEmbeddings
  Tree <- TCTree
  SkippedNames = {"target"}
  MaxDepth = 1
  MaxListEntries = 3
  MaxResponse = 2
  PipeBuffer = 4
  MaxSeconds = 2
  ChunkBytes = 4
  TaskCap = 7
  NoId = NoId
  MaxChats = 2
  MaxAttachments = 2
  MaxAttachmentBytes = 6
  MaxTotalBytes = 8
  MaxCompletion = 1
  NoText = NoText
  \* Analysis
  Windows <- ANWindows
  Intervals <- ANIntervals
  LastTime = 3
  MaxVersions = 2
  NoVerdict = NoVerdict
  \* McpSession
  Tools = {"read_file", "rm"}
  Allowed = {"read_file"}
  ServerIds = {2, 7}
  MaxSessions = 2
  MaxReplies = 3
  \* ChunkArchive
  GgufFiles <- CAGgufFiles
  Alignment = 4
  MaxDims = 8
  MaxEntries = 5
  Packers <- CAPackers
  WarmupLimits = {0, 1, 3}
  MaxPacks = 2
INVARIANTS
  PartIsPrefix
  PlacedIsVerified
  PinnedStays
  CacheWithinBudget
  OkMeansHandedOver
  EvidenceKept
  LockedLosesOnePerFault
  StartedIsAsked
  GoodFilesStart
  CurrentPlanFits
  MoreMemoryNeverHurts
  FiringsBackOff
  LoneWritesAreAtomic
  AnswerAccountsForRounds
  MeasuredRegressionBlocks
  RunsAreSpaced
  ResultIsOwnAnswer
  TensorsComeBack
  WarmupLoadsUrgent
PROPERTIES
  JobsEnd
CHECK_DEADLOCK FALSE
