CONSTANTS
  MessageIds = {m1, m2}
  Keys = {k1}
  NoKey = NoKey
  Payloads = {p1}
  NoMessage = NoMessage
  Capacity = 1
  Runs = {r1, r2}
  MaxTurns = 1
  MaxCalls = 1
  SingleWriter = FALSE
  AssemblerBacked = FALSE
SPECIFICATION Spec
INVARIANTS
  NothingLost
  SteeredOnce
PROPERTIES
  PromiseKept
CHECK_DEADLOCK FALSE
