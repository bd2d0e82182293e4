CONSTANTS
  t1 = t1
  t2 = t2
  f1 = f1
  f2 = f2
  w1 = w1
  w2 = w2
  w3 = w3
  NULL = NULL
  Tasks = {t1, t2}
  Files = {f1, f2}
  Works = {w1, w2}
  Envs <- NoEnv
  QueueMaxInputs <- MaxInputs
  QUEUE_MAX_INIT = 1
  QUEUE_MAX_MIN = 1
  QUEUE_MAX_MAX = 2
  MaxCloses = 2
SPECIFICATION FairSpec
PROPERTIES
  BestEffortStamping
  ItemsReleased
