CONSTANTS
  r1 = r1
  p1 = p1
  p2 = p2
  p3 = p3
  m1 = m1
  i1 = i1
  NoModel = NoModel
  MaxChanges = 2
  NodeIds = {r1, p1, p2, p3, m1}
  Relations = {"has_artifact", "generated_by", "derived_from", "references"}
  Inside <- InsideSelf
  Depths = {10}
  Ingesters = {i1}
  RunIds = {r1}
  Paths = {p1, p2, p3}
  ModelIds = {m1}
  Parents <- ParentsPQ
  Uses <- UsesM
  Typed = {r1, p1, p2}
  Modes <- AllModes
SPECIFICATION MCSpec
CHECK_DEADLOCK FALSE
INVARIANTS
  TypeOK
  MirrorAfterPrune
  PassIsComplete
  SecondPassCreatesNothing
PROPERTIES
  NothingResurrected
