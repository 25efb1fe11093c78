CONSTANTS
  sensitivity = sensitivity
  sv_cheats = sv_cheats
  cvarNames <- MCcvarNames
  Sensitivity = sensitivity
  Cookies <- MCCookies
  QueryTimeout = 1
  Grace = 3
  Propagation = 1
SPECIFICATION FairSpec
INVARIANTS
  MonitorRuns
  NobodyIsFramed
  NothingOutdated
PROPERTIES
  AskedAgain
