CONSTANTS
  MessageIds = {m1}
  Keys = {k1}
  NoKey = NoKey
  Payloads = {p1}
  NoMessage = NoMessage
  Capacity = 1
  Runs = {r1}
  MaxTurns = 2
  MaxCalls = 1
  SingleWriter = TRUE
  AssemblerBacked = TRUE
SPECIFICATION Spec
PROPERTIES
  CancelEndsRun
CHECK_DEADLOCK FALSE
