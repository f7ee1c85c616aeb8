SPECIFICATION Spec
CONSTANTS
  Commands = {"c1", "c2"}
  Files = {"one", "two"}
  Digests = {"a", "b"}
  Versions = {"old", "new"}
  Source <- MCSource
  Scan <- MCScan
  MaxEntries = 2
  MaxRuns = 2
INVARIANTS
  HitsAreFresh
PROPERTIES
  EntriesSurvive
CHECK_DEADLOCK FALSE
