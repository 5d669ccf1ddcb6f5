CONSTANTS
  Sessions = {s1}
  MaxId = 1
  RequestKeys = {}
  NoRequestKey = NoRequestKey
  NoSession = NoSession
  NoRun = NoRun
  NoEntry = NoEntry
  Tracing = TRUE
  ClientsWait = TRUE
  MaxPrompts = 2
  MaxObjects = 3
  MaxRestarts = 1
SPECIFICATION Spec
INVARIANTS
  HistoryKept
CHECK_DEADLOCK FALSE
