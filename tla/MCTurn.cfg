CONSTANTS
  MaxId = 2
  NoRequestKey = NoRequestKey
  NoSession = NoSession
  NoRun = NoRun
  NoEntry = NoEntry
  Tracing = TRUE
  MaxObjects = 2
  Sessions = {s1}
  RequestKeys = {}
  ClientsWait = FALSE
  MaxPrompts = 3
  MaxRestarts = 1
  read = read
  bash = bash
  s1 = s1
  s2 = s2
  Actors = {a1, a2}
  CatalogTools = {read, bash}
  Skills = {s1, s2}
  Trusted = {s1}
  AllowedTools <- MCAllowedTools
  Unrestricted = Unrestricted
  Vanishing = {s2}
  Guards = {1}
  BashDefault = "Confirm"
  NetworkDefault = "Confirm"
  AllowNetwork = FALSE
  MaxAgentTurns = 1
  p1 = p1
  p2 = p2
  m1 = m1
  e1 = e1
  e2 = e2
  Commands = {c1}
  Profiles = {p1, p2}
  BuiltinProfiles = {p2}
  Models = {m1}
  Entries = {e1, e2}
  DefaultAllow = {e2}
  DefaultDeny = {e2}
  Names = {n1}
  TrustedNames = {n1}
  Unset = Unset
  NoFile = NoFile
  NoProfile = NoProfile
  InitialFiles <- MCInitialFiles
  Environments <- MCEnvironments
  CommandLines <- MCCommandLines
  MaxCommands = 2
  UsableLimit = 8
  ToolResultBudget = 2
  CompactionTarget = 4
  NextTurnGrowth = 1
  KeepRecentTurns = 1
  KeepRecentTokens = 2
  ResultSizes = {3}
  MaxMessages = 9
  ToolCalls = {t1, t2}
  MaxRunTurns = 2
  FileNames = {f, g}
  Contents = {x, y}
  Missing = Missing
  MaxOperations = 3
  MaxEdits = 1
  Parts = {"host", "policy", "context", "trace", "config", "files"}
SPECIFICATION AllSpec
SYMMETRY TurnSymmetry
VIEW PartView
INVARIANTS
  
  RanWithinRules
  
  
  
  PatchAsWritten
CHECK_DEADLOCK FALSE
