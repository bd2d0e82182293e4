CONSTANTS
  vim = vim
  sh = sh
  comma = comma
  Daemon = provfs
  None = None
  Error = Error
  Callers = {vim, comma}
  Session <- MCSession
  Env <- MCEnv
  Lsm = FALSE
  MAX_HISTORY = 2
  MaxStamps = 3
  MaxObj = 1
  MaxFaults = 0
SPECIFICATION Spec
INVARIANT ChainNamesSessions
CHECK_DEADLOCK FALSE
