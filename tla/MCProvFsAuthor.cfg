CONSTANTS
  alice = alice
  bob = bob
  None = None
  Unknown = Unknown
  Procs = {alice, bob}
  Paths <- OneFile
  Parent <- OneFileParent
  Root <- TopPath
  Begins <- LogNames
  SkippedPaths <- OneFileSkipped
  Env <- AliceHasTurn
  Fds = {3, 4}
  MAX_HISTORY = 2
  FailPoints = {}
  MaxIno = 2
  MaxObj = 2
SPECIFICATION Spec
INVARIANT AuthorIsWriter
