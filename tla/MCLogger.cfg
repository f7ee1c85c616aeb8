SPECIFICATION LoggerFairSpec
CONSTANTS
  Actions = {a1, a2}
  Summaries = {q1}
  Events = {e1}
  MaxSamples = 1
  UseBQ = TRUE
  ItemsCap = 1
  BatchMax = 1
  BatchesCap = 1
INVARIANTS
  AcceptedRecordsAggregated
  UploadsAccounted
PROPERTIES
  CallsReturn
CHECK_DEADLOCK FALSE
