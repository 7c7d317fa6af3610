SPECIFICATION Spec
CONSTANTS
  plain = plain
  nonNestable = nonNestable
  nonNestable2 = nonNestable2
  late = late
  later = later
  Tasks = {plain, nonNestable, nonNestable2}
  NoTask = NoTask
  Delay <- MCDelay
  Nestable <- MCNestable
  Closure <- MCClosure
  SeqModulus = 8
  FirstSeqNum = 0
  MaxTime = 1
  MaxDepth = 2
  MaxRounds = 2
  Posters = {p1}
  NoPoster = NoPoster
INVARIANT
  NonNestableFifo
CHECK_DEADLOCK FALSE
