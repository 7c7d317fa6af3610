SPECIFICATION Spec
CONSTANTS
  plain = plain
  nonNestable = nonNestable
  nonNestable2 = nonNestable2
  late = late
  later = later
  Tasks = {plain, nonNestable, late}
  NoTask = NoTask
  Delay <- MCDelay
  Nestable <- MCNestable
  Closure <- MCClosure
  SeqModulus = 8
  FirstSeqNum = 0
  MaxTime = 3
  MaxDepth = 2
  MaxRounds = 2
  Posters = {p1, p2}
  NoPoster = NoPoster
INVARIANTS
  TypeOK
  TaskConservation
  NonNestableNeverNested
  FifoOrder
  NeverEarly
  NoLostWakeup
  NoUseAfterDestruction
  RoundsArePaidFor
PROPERTIES
  QuitDrains
SYMMETRY PosterSymmetry
CHECK_DEADLOCK FALSE
