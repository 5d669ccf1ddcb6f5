CONSTANTS
  MaxId = 2
  NoRequestKey = NoRequestKey
  NoSession = NoSession
  NoRun = NoRun
  NoEntry = NoEntry
  Tracing = TRUE
  MaxObjects = 3
  Sessions = {s1}
  RequestKeys = {}
  ClientsWait = TRUE
  MaxPrompts = 2
  MaxRestarts = 0
  bash = bash
  fetch = fetch
  list = list
  remove = remove
  Tools = {bash, fetch}
  Inputs = {list, remove}
  NoInput = NoInput
  Offered = {bash, fetch}
  Malformed <- MCMalformed
  Exclusive <- MCExclusive
  Risk <- MCRisk
  Retryable = {fetch}
  MaxRetries = 1
  MaxTurns = 2
  MaxCalls = 2
  Parts = {"host", "batch"}
SPECIFICATION AllSpec
INVARIANTS
  NothingRunsUnauthorised
  EffectsInOrder
  EveryCallAnswered
  ManifestAgrees
PROPERTIES
  CancelEndsBatch
  ExecutionSettles
CHECK_DEADLOCK FALSE
