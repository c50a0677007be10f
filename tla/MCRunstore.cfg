CONSTANTS
  r1 = r1
  r2 = r2
  p1 = p1
  c1 = c1
  c2 = c2
  NoManifest = NoManifest
  Torn = Torn
  RunIds = {r1, r2}
  Paths = {p1}
  Clients = {c1, c2}
  CallStatuses = {"running", "succeeded"}
SPECIFICATION Spec
SYMMETRY Symmetry
INVARIANTS
  NoOrphanArtifacts
  IndexMatchesSidecar
PROPERTIES
  DeletedStaysDeleted
  ArtifactsDurable
