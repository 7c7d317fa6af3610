SPECIFICATION Spec
CONSTANTS
  a = a
  b = b
  c = c
  d = d
  s = s
  Tasks = {a, b, c, d}
  Token <- MCToken
  Behavior <- MCBehavior
  NoToken = NoToken
  Workers = {w1, w2, w3}
  MaxThreads = 3
  Clients = {main, other}
  Owner = main
  Flushers = {other}
  SpuriousWakeups = TRUE
  NoTask = NoTask
  NoThread = NoThread
INVARIANTS
  TypeOK
  SequenceOrder
  SequenceExclusion
  CountersAgree
  ThreadsAccounted
  BlockingTasksDone
  NoForgottenTask
PROPERTIES
  NoStartAfterShutdown
SYMMETRY WorkerSymmetry
CHECK_DEADLOCK FALSE
