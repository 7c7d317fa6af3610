---------------------------- MODULE ObjectWatcher ----------------------------
(***************************************************************************)
(* An ObjectWatcher on the thread's loop: a wait thread of the system waits *)
(* for the object and posts a notification to the loop, by its address.     *)
(***************************************************************************)
EXTENDS Thread

CONSTANT WeakFlags  \* addresses of the flags of weak pointers; bounds those that exist at once

ASSUME WeakFlagsAssumption == WeakFlags \subseteq Nat \ {0}

VARIABLES
    registered, \* wait_object_ is not NULL
    waitThread, \* the system's wait: "none", "waiting", "posting", "resetting", "done"
    callback,   \* callback_: the weak flag it is bound to, 0 once it is reset
    validFlag,  \* the flag weak_factory_ hands out now, 0 if none: others are invalid
    watcher,    \* "usable" or "gone"
    signaled,   \* the object is signaled
    watch       \* history: "off", "on" or "fired", of the watch in force
watcherVars == <<registered, waitThread, callback, validFlag, watcher, signaled, watch>>

WatcherInit ==
    /\ registered = FALSE /\ waitThread = "none" /\ callback = 0 /\ validFlag = 0
    /\ signaled = FALSE /\ watch = "off"

UsedFlags == {callback, validFlag}
               \union {queue[i].id : i \in {j \in DOMAIN queue : queue[j].kind = "signal"}}

StartWatching ==
    /\ ProgramRuns /\ watcher = "usable" /\ ~ registered
    /\ \E flag \in WeakFlags \ UsedFlags :
         /\ \A other \in WeakFlags \ UsedFlags : flag <= other
         /\ callback' = flag /\ validFlag' = flag
    /\ registered' = TRUE /\ waitThread' = "waiting"
    /\ watch' = "on"
    /\ UNCHANGED <<watcher, signaled>>

(* UnregisterWaitEx, which waits for a callback in flight, can return.      *)
NoCallbackInFlight == registered => waitThread \notin {"posting", "resetting"}

StopWatching ==
    /\ NoCallbackInFlight
    /\ IF registered
       THEN /\ registered' = FALSE /\ validFlag' = 0 /\ watch' = "off"
            /\ waitThread' = IF waitThread \in {"waiting", "done"} THEN "none" ELSE waitThread
       ELSE UNCHANGED <<registered, validFlag, watch, waitThread>>

ProgramStopsWatching ==
    /\ ProgramRuns /\ watcher = "usable" /\ registered
    /\ StopWatching
    /\ UNCHANGED <<callback, watcher, signaled>>

(* The destructor, perhaps after the thread has ended.                      *)
DestroyWatcher ==
    /\ ProgramRuns \/ main = "none"
    /\ watcher = "usable"
    /\ StopWatching
    /\ watcher' = "gone"
    /\ UNCHANGED <<callback, signaled>>

WatcherCall == /\ StartWatching \/ ProgramStopsWatching \/ DestroyWatcher
               /\ UNCHANGED threadVars

-----------------------------------------------------------------------------
(* The system: the object is set and reset by anyone; the wait ends when    *)
(* the system notices that it is set; DoneWaiting posts, then resets        *)
(* callback_.                                                               *)
ObjectChanges ==
    /\ watcher = "usable"
    /\ signaled' = ~ signaled
    /\ UNCHANGED <<threadVars, registered, waitThread, callback, validFlag, watcher, watch>>

WaitEnds ==
    /\ waitThread = "waiting" /\ signaled
    /\ waitThread' = "posting" /\ watch' = "fired"
    /\ UNCHANGED <<threadVars, registered, callback, validFlag, watcher, signaled>>

(* Slip: callback_ is reset before it is posted.                            *)
DoneWaitingPostsNothing ==
    /\ waitThread = "posting"
    /\ PostTask(Task("signal", 0))
    /\ waitThread' = "resetting"
    /\ UNCHANGED <<delayed, busy, mainVars, ownerVars, originVars,
                   registered, callback, validFlag, watcher, signaled, watch>>

DoneWaitingPosts ==
    /\ waitThread = "posting"
    /\ PostTask(Task("signal", callback))
    /\ waitThread' = "resetting"
    /\ UNCHANGED <<delayed, busy, mainVars, ownerVars, originVars,
                   registered, callback, validFlag, watcher, signaled, watch>>

DoneWaitingResets ==
    /\ waitThread = "resetting"
    /\ callback' = 0 /\ waitThread' = "done"
    /\ UNCHANGED <<threadVars, registered, validFlag, watcher, signaled, watch>>

WaitThreadStep == WaitEnds \/ DoneWaitingPosts \/ DoneWaitingResets

(* The notification: a task bound to a weak pointer does nothing if the     *)
(* pointer was invalidated. Signal stops the watch, then tells the delegate, *)
(* in whose method the program may start another watch.                     *)
Valid(flag) == flag = validFlag

TakeSignal ==
    /\ TakeTask("signal")
    /\ busy' = IF Valid(NextTask.id) THEN NextTask ELSE Null
    /\ UNCHANGED <<mainVars, ownerVars, originVars, watcherVars>>

NotifyDelegate ==
    /\ main = "running" /\ busy.kind = "signal"
    /\ StopWatching
    /\ busy' = Task("notification", 0)
    /\ UNCHANGED <<queue, delayed, mainVars, ownerVars, originVars, callback, watcher, signaled>>

FinishNotification ==
    /\ main = "running" /\ busy.kind = "notification"
    /\ busy' = Null
    /\ UNCHANGED <<queue, delayed, mainVars, ownerVars, originVars, watcherVars>>

(* WillDestroyCurrentMessageLoop.                                           *)
LoopEndsWatch == StopWatching /\ UNCHANGED <<callback, watcher, signaled>>
=============================================================================
