SPECIFICATION TemplatesSpec
CONSTANTS
  Runners = {r1, r2}
  Ids <- MCIds
  Documents <- MCDocuments
  NoFile = NoFile
  Hole = Hole
  Nobody = Nobody
INVARIANTS
  CreatedTemplateStands
  TornFilesExplained
