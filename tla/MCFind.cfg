CONSTANTS
  None = None
  Error = Error
  Paths <- MCPaths
  Root = "/"
  Parent <- MCParent
  Links = {"/l"}
  LinkTo <- MCLinkTo
  Locked = {{}, {"/"}, {"/d", "/g"}}
  Records <- MCRecords
  Queries <- MCQueries
  Now = 100000
  UnitSecs <- MCUnits
  MaxU = 262143
  MaxI = 131071
  MaxChanges = 2
SPECIFICATION FairSpec
INVARIANTS
  TypeOK
  
  FindExitHonest
PROPERTY WalkEnds
CHECK_DEADLOCK FALSE
