SPECIFICATION FairSpec
CONSTANTS
  a = a
  b = b
  c = c
  d = d
  s = s
  Tasks = {a, b, c}
  Token <- MCToken
  Behavior <- MCBehavior
  NoToken = NoToken
  Workers = {w1, w2}
  MaxThreads = 2
  Clients = {main, other}
  Owner = main
  Flushers = {}
  SpuriousWakeups = TRUE
  NoTask = NoTask
  NoThread = NoThread
PROPERTIES
  BlockingTaskRuns
  ShutdownReturns
  JoinReturns
CHECK_DEADLOCK FALSE
