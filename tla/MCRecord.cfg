CONSTANTS
  vim = vim
  sh = sh
  comma = comma
  Daemon = provfs
  None = None
  Error = Error
  Callers = {vim, sh}
  Session <- MCSession
  Env <- MCEnv
  Lsm = TRUE
  MAX_HISTORY = 2
  MaxStamps = 3
  MaxObj = 2
  MaxFaults = 1
SPECIFICATION Spec
INVARIANTS
  TypeOK
  OlderNeverStands
  HistoryIsMostRecent
  ExitCodeHonest
  EvidenceNotMissed
  WhoIsInChain
CHECK_DEADLOCK FALSE
