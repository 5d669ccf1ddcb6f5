CONSTANTS
  Users = {u1, u2}
  StoredRuns = {r1, r2, r3}
  PastRuns = {r1}
  StoredSessions = {s1, s2}
  NoStoredRun = NoStoredRun
  NoStoredSession = NoStoredSession
  MaxIssued = 3
  SessionNames = {n1, n2}
  NoName = NoName
  MaxStored = 2
  MaxQuestions = 2
  MaxConnects = 1
  k1 = k1
  v1 = v1
  v2 = v2
  x = x
  y = y
  ct = ct
  Packages = {k1}
  Manifests = {v1, v2}
  PackageOf <- MCPackageOf
  PartsOf <- MCPartsOf
  Lifecycle = {x, y}
  CommandTools = {ct}
  OptionalParts = {y}
  Places = 2
  NoManifest = NoManifest
  Broken = Broken
  Settings <- MCSettings
  NotConfigured = NotConfigured
  MaxReloads = 3
  MaxOutput = 2
  MaxWritten = 3
  m1 = m1
  m2 = m2
  a = a
  b = b
  Models = {m1, m2}
  Variants = {a, b}
  Configurable = {m1}
  OptionValues = {1, 2}
  Windows = {1, 2}
  BuiltinFormat = "anthropic_messages"
  BuiltinModel = m1
  CachedInfo <- MCCachedInfo
  FallbackWindow = 3
  Unknown = Unknown
  FirstLayers <- MCFirstLayers
  MaxEdits = 2
  Readers = {p1, p2}
  l1 = l1
  l2 = l2
  Lines = {l1, l2}
  FirstEntries <- MCFirstEntries
  NoMark = NoMark
  MemoryStrategy = "Budgeted"
  MemoryRequired = FALSE
  MemoryTokens = 2
  MemoryBytes = 3
  NoMemory = NoMemory
  MaxMemory = 3
  MaxMemoryOps = 1
  MaxChanges = 2
  sa = sa
  sb = sb
  tf = tf
  tg = tg
  run1 = run1
  Servers = {sa, sb}
  AlwaysOn = {sb}
  Permissions <- MCPermissions
  ServerTools <- MCServerTools
  BaseTools = {"read"}
  Position <- MCPosition
  BaseName <- MCBaseName
  Threshold = 1
  Agents = {run1}
  NoServer = NoServer
  NoCaller = NoCaller
  NoList = NoList
  MaxTurns = 1
  MaxCalls = 1
  MaxHostJobs = 1
  MaxListChanges = 1
  AppParts = {"discovery"}
SPECIFICATION AllSpec
INVARIANTS
  OfferedIsRegistered
CHECK_DEADLOCK FALSE
