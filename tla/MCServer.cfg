SPECIFICATION FairSpec
CONSTANTS
  Commands = {c1}
  Shutdowns = {s1, s2}
  SigCnt = 3
INVARIANTS
  DrainWaitsForCommands
  ShutdownReturnsStats
  ResourcesReleasedOnce
PROPERTIES
  DrainEnds
CHECK_DEADLOCK FALSE
