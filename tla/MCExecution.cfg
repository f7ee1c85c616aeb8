SPECIFICATION FairSpec
CONSTANTS
  Requests <- AllRequests
  InOut = {f}
  OtherOutputs = {o}
  MaxReruns = 2
INVARIANTS
  SuccessHasOutputs
  StatusMatchesFiles
  RerunsSeeOriginals
  InOutDigestsFresh
PROPERTIES
  UploadsMatchOutputs
  RemoteActionsEnd
CHECK_DEADLOCK FALSE
