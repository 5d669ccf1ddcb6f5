CONSTANTS
  MaxId = 2
  NoRequestKey = NoRequestKey
  NoSession = NoSession
  NoRun = NoRun
  NoEntry = NoEntry
  Tracing = TRUE
  MaxObjects = 3
  Sessions = {s1, s2}
  RequestKeys = {k1}
  ClientsWait = TRUE
  MaxPrompts = 2
  MaxRestarts = 0
  EventKinds = {x, y}
  Retention = 2
  Limit = 1
  NoCursor = NoCursor
  MaxEvents = 5
  CallIds = {c1, c2}
  Responders = {q1, q2}
  NoCall = NoCall
  MaxAsks = 2
  Calls = {r1, r2, r3}
  NoWrite = NoWrite
  MaxPending = 2
  MaxErrors = 2
  MaxMisdeeds = 1
  Components = {x1, x2}
  Versions = {v1}
  Absent = Absent
  Required = {x1}
  Configured <- MCConfigured
  Leasers = {l1}
  MaxGenerations = 3
  MaxProcesses = 2
  MessageIds = {i1, i2}
  Keys = {k1}
  NoKey = NoKey
  Payloads = {x, y}
  NoMessage = NoMessage
  Capacity = 1
  NotCached = NotCached
  MaxResumes = 1
  CallNames = {n1, n2, n3}
  MaxFragments = 2
  MaxStreamCalls = 3
  Parts = {"host", "submit", "events", "approvals", "requests", "extensions", "streams", "prompt", "trace"}
  Contributors = {c1, c2}
  UserBlocks <- MCUserBlocks
  ReplyBlocks <- MCReplyBlocks
  Budgets = {0, 7, 100}
  NoticeReserve = 1
  MaxCaptured = 1
  NoPrefix = NoPrefix
  MaxTurns = 3
  RecordedModels = {m1, m2}
  PricedModels = {m1}
  MaxRecordings = 2
  MaxBuilds = 2
  MaxBuffered = 2
  NoText = NoText
SPECIFICATION AllSpec
SYMMETRY Symmetry
VIEW PartView
INVARIANTS
  HistoryKept
  
  SubmitsAreHonoured
  NothingSkipped
  AnswersAgree
  ErrorsAreEarned
  LeasedStaysCallable
  CallsAreTheModels
  
  
CHECK_DEADLOCK FALSE
