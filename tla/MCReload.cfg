CONSTANTS
  Components = {x1, x2}
  Versions = {v1}
  Absent = Absent
  Required = {x1}
  Configured <- MCConfigured
  Leasers = {}
  MaxGenerations = 3
  MaxProcesses = 2
SPECIFICATION ExtensionsSpec
PROPERTIES
  ReloadKeepsActive
CHECK_DEADLOCK FALSE
