CONSTANTS
  h1 = h1
  a1 = a1
  a2 = a2
  git = git
  tmp = tmp
  none = none
  Hooks = {h1}
  Admins = {a1, a2}
  Tokens = {git, tmp, none}
  Empty = none
  N = 2
  Lists <- TmpOnly
  DEFAULT <- GitTmp
  Paths <- OnePerToken
SPECIFICATION FairSpec
INVARIANTS
  TypeOK
  VerdictOfOneList
  BufferIsLastStaged
PROPERTY HooksReturn
