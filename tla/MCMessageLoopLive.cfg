SPECIFICATION FairSpec
CONSTANTS
  plain = plain
  nonNestable = nonNestable
  nonNestable2 = nonNestable2
  late = late
  later = later
  Tasks = {plain, late, later}
  NoTask = NoTask
  Delay <- MCDelay
  Nestable <- MCNestable
  Closure <- MCClosure
  SeqModulus = 8
  FirstSeqNum = 7
  MaxTime = 2
  MaxDepth = 2
  MaxRounds = 2
  Posters = {p1}
  NoPoster = NoPoster
INVARIANTS
  DelayedOrder
PROPERTIES
  ImmediateTaskRuns
  DelayedTaskRuns
CHECK_DEADLOCK FALSE
