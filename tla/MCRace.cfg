SPECIFICATION FairSpec
CONSTANTS
  OutputFiles = {f1, f2}
  OutputDirs = {d}
  Filtered = {f2}
INVARIANTS
  NoMixedOutputs
  OutputsMatchResult
  ReportMatchesWinner
PROPERTIES
  ImplementsOutcome
  RaceReturns
CHECK_DEADLOCK FALSE
