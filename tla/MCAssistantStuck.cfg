SPECIFICATION Spec
CONSTANTS
  Turns <- MCTurns
  Tools <- MCTools
  Servers <- MCServers
  Runtimes <- MCRuntimes
  NoRuntime = NoRuntime
  Malformed = Malformed
  NoFile = NoFile
  Paths = {good, bad}
  FirstFields = {good}
  Unloadable = {bad}
  MaxTurns = 2
  MaxCalls = 1
  HistoryLimit = 3
  MaxPrompts = 2
  MaxActs = 0
INVARIANTS
  DisabledOnlyWhileRunning
CHECK_DEADLOCK FALSE
