SPECIFICATION ComponentsSpec
CONSTANTS
  s1 = s1
  s2 = s2
  u1 = u1
  u2 = u2
  slug = slug
  NodeIds <- MCNodeIds
  Relations <- MCRelations
  Ingesters = {i1}
  Paths = {s1, s2}
  ModelIds = {m1}
  Slug <- MCSlug
  Uuids = {u1, u2}
  NoUuid = NoUuid
  Listing <- MCListing
  Told <- MCTold
  NoPath = NoPath
  MaxEvents = 1
INVARIANTS
  EdgesCounted
  CleanPassIsComplete
  OneNamePerSystem
