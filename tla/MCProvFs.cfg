CONSTANTS
  alice = alice
  bob = bob
  None = None
  Unknown = Unknown
  Procs = {alice}
  Paths <- TwoLevels
  Parent <- TwoLevelsParent
  Root <- TopPath
  Begins <- LogNames
  SkippedPaths <- TwoLevelsSkipped
  Env <- AliceHasTurn
  Fds = {3, 4}
  MAX_HISTORY = 1
  FailPoints = {}
  MaxIno = 5
  MaxObj = 5
SPECIFICATION Spec
INVARIANTS
  TypeOK
  TableInverse
  DirtyImpliesOpen
  ContentGetsStamped
PROPERTIES
  InosNeverRebound
  ReleaseStampsOwnFile
