CONSTANTS
  c1 = c1
  c2 = c2
  s1 = s1
  s2 = s2
  s3 = s3
  Callers = {c1, c2}
  Servers = {s1, s2, s3}
  Configured = {s1, s2}
SPECIFICATION FairSpec
CHECK_DEADLOCK FALSE
INVARIANTS
  OneSubprocessPerServer
  NoOrphanSubprocess
PROPERTIES
  EveryCallAnswered
  ShutdownTerminates
