SPECIFICATION Spec
CONSTANTS
  Requests <- LercRequests
  InOut = {}
  OtherOutputs = {o}
  MaxReruns = 1
INVARIANTS
  LercHitsHaveOutputs
CHECK_DEADLOCK FALSE
