SPECIFICATION LifeSpec
CONSTANTS
  Pids = {1, 2}
  Unix = TRUE
  Fast = TRUE
  MaxBoots = 3
  Wrappers = {"w", "o"}
  Offline = {"o"}
INVARIANTS
  PidFileNamesServingProxy
  ShutdownMeansDead
PROPERTIES
  ToolsReturn
CHECK_DEADLOCK FALSE
