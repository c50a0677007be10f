CONSTANTS
  c1 = c1
  c2 = c2
  m1 = m1
  x = x
  y = y
  NoContent = NoContent
  Clients = {c1, c2}
  ModelIds = {m1}
  Contents = {x, y}
  MaxVersion = 3
SPECIFICATION Spec
SYMMETRY Symmetry
INVARIANTS
  RegistrationsKept
PROPERTIES
  NewestIsLatest
