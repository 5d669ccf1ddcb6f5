CONSTANTS
  read = read
  bash = bash
  s1 = s1
  s2 = s2
  Actors = {a1}
  CatalogTools = {read, bash}
  Skills = {s1, s2}
  Trusted = {s1}
  AllowedTools <- MCNamedTools
  Unrestricted = Unrestricted
  Vanishing = {}
  Guards = {}
  BashDefault = "Confirm"
  NetworkDefault = "Confirm"
  AllowNetwork = FALSE
  MaxAgentTurns = 1
SPECIFICATION ToolPolicySpec
INVARIANTS
  OfferedIsAdmitted
CHECK_DEADLOCK FALSE
