SPECIFICATION FairSpec
CONSTANTS
    once = once
    again = again
    button = button
    reply = reply
    posted = posted
    Timers <- MCTimers
    Kind <- MCKind
    Delay <- MCDelay
    TimerTasks = {1, 2, 3}
    WeakFlags = {1, 2, 3}
    Relays = {reply}
    Posts = {posted}
    Observers = {1, 2}
    Notices = {1, 2}
    Contexts = {1, 2}
    MaxList = 3
    MaxNotify = 2
    Programs <- MCPrograms
INVARIANTS
    TypeOK
PROPERTIES
    CallsOnlyWhenDue
    CallsCome
CHECK_DEADLOCK FALSE
