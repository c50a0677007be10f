CONSTANTS
  r1 = r1
  r2 = r2
  g1 = g1
  g2 = g2
  a = a
  b = b
  p1 = p1
  p2 = p2
  NoManifest = NoManifest
  Torn = Torn
  NoName = NoName
  RunIds = {r1}
  Paths = {g1}
  Processes = {p1}
  Names = {a, b}
  Workflows <- LoopWorkflows
  GraphFile <- OneGraphFile
SPECIFICATION FairSpec
CHECK_DEADLOCK FALSE
INVARIANTS
  NothingRunsAfterAbort
  CallsOnlyWithBoundArguments
  VerdictHonest
PROPERTIES
  EveryRunEnds
  CancelHonoured
