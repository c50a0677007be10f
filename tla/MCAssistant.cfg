SPECIFICATION FairSpec
CONSTANTS
  Turns <- MCTurns
  Tools <- MCTools
  Servers <- MCServers
  Runtimes <- MCRuntimes
  NoRuntime = NoRuntime
  Malformed = Malformed
  NoFile = NoFile
  Paths = {good, bad}
  FirstFields = {good}
  Unloadable = {bad}
  MaxTurns = 2
  MaxCalls = 1
  HistoryLimit = 3
  MaxPrompts = 2
  MaxActs = 2
INVARIANTS
  ReadOnlyTurnsNeverWrite
  CatalogFitsTurn
PROPERTIES
  OneAgentAtATime
  
  PageComesBack
CHECK_DEADLOCK FALSE
