CONSTANTS
  alice = alice
  bob = bob
  None = None
  Unknown = Unknown
  Procs = {alice, bob}
  Paths <- OneFile
  Parent <- OneFileParent
  Root <- TopPath
  Begins <- LogNames
  SkippedPaths <- OneFileSkipped
  Env <- AliceHasTurn
  Fds = {3}
  MAX_HISTORY = 2
  FailPoints = {4}
  MaxIno = 2
  MaxObj = 3
SPECIFICATION Spec
INVARIANT RecordCoherent
