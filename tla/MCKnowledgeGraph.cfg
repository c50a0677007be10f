CONSTANTS
  NodeIds = {n1, n2, n3}
  Relations = {"derived_from", "has_artifact"}
  Inside <- InsideSelf
  Depths = {0, 3}
  Clients = {c1, c2}
  Entries = {k1, k2}
  MaxEdges = 3
  MaxCalls = 3
SPECIFICATION MCSpec
SYMMETRY Symmetry
CHECK_DEADLOCK FALSE
INVARIANTS
  MergesKept
  QueriesExact
PROPERTIES
  EdgesToLiveNodes
  EdgesDurable
