CONSTANTS
  MessageIds = {m1, m2, m3}
  Keys = {k1}
  NoKey = NoKey
  Payloads = {p1, p2}
  NoMessage = NoMessage
  Capacity = 1
  Runs = {r1}
  MaxTurns = 2
  MaxCalls = 2
  SingleWriter = TRUE
  AssemblerBacked = TRUE
SPECIFICATION CompactingSpec
INVARIANTS
  TypeOK
  KeyAcceptedOnce
  SteeringInPlace
  CheckpointCurrent
PROPERTIES
  AcksAreTruthful
  
  QueueSettles
CHECK_DEADLOCK FALSE
