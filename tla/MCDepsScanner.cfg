SPECIFICATION FairSpec
CONSTANTS
  Requests = {r1, r2}
  MaxGen = 3
INVARIANTS
  NoStrayService
  ClosedMeansStopped
  WaitersShareRestart
PROPERTIES
  CallersEnd
CHECK_DEADLOCK FALSE
