SPECIFICATION Spec
CONSTANTS
  Reruns <- MCReruns
  RuleLists <- MCRuleLists
  Responses <- MCResponses
  Limits <- MCLimits
  NoteLengths <- MCNoteLengths
  Downloads <- MCDownloads
  Reran <- MCReran
  Places <- MCPlaces
  Virtuals <- MCVirtuals
  OutputNames <- MCOutputNames
  ExecRoot <- MCExecRoot
  WorkingDirs <- MCWorkingDirs
  PathStarts <- MCPathStarts
  Elements <- MCElements
  Versions <- MCVersions
  SDKTrees <- MCSDKTrees
  Bound <- MCBound
  MaxRuled = 2
INVARIANTS
  UnchangedOutputsStay
CHECK_DEADLOCK FALSE
