CONSTANTS
  Closes <- MCCloses
  PROV_IDENT_MAX = 256
  PROV_CHAIN_MAX = 128
  PROV_CHAIN_LEVELS = 3
  PROV_ENV_VAL_MAX = 48
  PROV_ENV_SCAN_MAX = 4096
  PROV_FIELD_MAX = 64
  NULL = NULL
SPECIFICATION Spec
INVARIANTS
  TypeOK
  TargetsAreFirstMatches
  ActorSignalSurvives
  OnlyUidMayBeCut
  CutAtCapOrWindow
  OnlyCwdSqueezesPidUid
