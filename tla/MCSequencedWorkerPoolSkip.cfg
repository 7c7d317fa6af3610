SPECIFICATION Spec
CONSTANTS
  a = a
  b = b
  c = c
  d = d
  s = s
  Tasks = {c}
  Token <- MCToken
  Behavior <- MCBehavior
  NoToken = NoToken
  Workers = {w1, w2}
  MaxThreads = 2
  Clients = {main, other}
  Owner = main
  Flushers = {other}
  SpuriousWakeups = FALSE
  NoTask = NoTask
  NoThread = NoThread
INVARIANT
  SkipTasksCompleted
CHECK_DEADLOCK FALSE
