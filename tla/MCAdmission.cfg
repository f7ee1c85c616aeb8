SPECIFICATION MCSpec
CONSTANTS
  Actions = {"cc", "link"}
  Racers = {"javac"}
  Callers = {"cc", "javac", "link"}
  Strategy <- MCStrategy
  Label <- MCLabel
  Cpus = 4
  RAMMBs = 4608
  MaxThreads = 1
  MinActionCount = 1
  RatioNum = 2
  RatioDen = 3
  AllowedIPTimeouts = 1
  Leavers = {"cc"}
  MaxTicks = 1
INVARIANTS
  NoActionEscapes
  LimitExceededOnlyByCrowd
  FallbackFailureJustified
  TokensConserved
PROPERTIES
  EveryCommandEnds
CHECK_DEADLOCK FALSE
