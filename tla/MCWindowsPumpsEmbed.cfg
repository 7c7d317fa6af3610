SPECIFICATION Spec
CONSTANTS
    Tasks = {plain, other, late, later}
    plain = plain
    other = other
    NoTask = NoTask
    Delay <- MCDelay
    Closure <- MCClosure
    Posters = {poster}
    NoHandler = NoHandler
    MaxTime = 2
    MaxDepth = 4
    Programs <- MCEmbedPrograms
    Operations = {op1, op2, op3}
    Handlers = {reader, writer}
    HandlerOfIO <- MCHandlerOfIO
    late = late
    later = later
    op1 = op1
    op2 = op2
    op3 = op3
    reader = reader
    writer = writer
INVARIANTS RunsAfterNestedLoop
CHECK_DEADLOCK FALSE
