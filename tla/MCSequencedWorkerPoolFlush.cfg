SPECIFICATION FairSpec
CONSTANTS
  a = a
  b = b
  c = c
  d = d
  s = s
  Tasks = {c, d}
  Token <- MCToken
  Behavior <- MCBehavior
  NoToken = NoToken
  Workers = {w1}
  MaxThreads = 1
  Clients = {main, other}
  Owner = main
  Flushers = {other}
  SpuriousWakeups = FALSE
  NoTask = NoTask
  NoThread = NoThread
PROPERTY
  FlushReturns
CHECK_DEADLOCK FALSE
