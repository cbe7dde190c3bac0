SPECIFICATION TCSpec
CONSTANTS
  c1 = c1 c2 = c2 rs = rs md = md toml = toml tmp1 = tmp1 tmp2 = tmp2
  Chats = {c1, c2}
  Targets = {rs, md, toml}
  Stem <- TCStem
  Writes <- TCWrites
  MaxRounds = 1
  MaxCalls = 1
  Usages = {0}
  Requests <- TCRequests
  OtherCalls <- TCOtherCalls
  Embeddings <- TCEmbeddings
  Tree <- TCTree
  SkippedNames = {"target"}
  MaxDepth = 1
  MaxListEntries = 3
  MaxResponse = 2
  PipeBuffer = 4
  MaxSeconds = 2
  ChunkBytes = 4
  TaskCap = 7
  NoId = NoId
  MaxChats = 2
  MaxAttachments = 2
  MaxAttachmentBytes = 6
  MaxTotalBytes = 8
  MaxCompletion = 1
  NoText = NoText
INVARIANT WritesAreAtomic
CHECK_DEADLOCK FALSE
