CONSTANTS
  r1 = r1
  r2 = r2
  g1 = g1
  g2 = g2
  a = a
  b = b
  s1 = s1
  p1 = p1
  p2 = p2
  NoManifest = NoManifest
  Torn = Torn
  NoName = NoName
  RunIds = {r1, r2}
  Paths = {g1, g2, s1}
  Processes = {p1, p2}
  Names = {}
  Workflows <- OneStepWorkflows
  GraphFile <- OwnGraphFiles
SPECIFICATION Spec
SYMMETRY StoreSymmetry
CHECK_DEADLOCK FALSE
INVARIANTS
  GraphAgreesWithRow
  ReuseHonest
  DanglingOnlyAfterEscape
  OwnLabelWithinProcess
PROPERTIES
  GraphsNeverRewritten
  ImplementsLedger
