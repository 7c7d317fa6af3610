------------------------------ MODULE LoopClients ----------------------------
(***************************************************************************)
(* A Thread, its owner and the clients of its loop: timers, a watcher,      *)
(* posted tasks with and without a reply, and a thread-safe observer list.  *)
(* A behaviour uses the clients of one of the Programs.                     *)
(***************************************************************************)
EXTENDS Timer, ObjectWatcher, PostTaskAndReply, ObserverListThreadSafe

CONSTANT Programs

ASSUME ProgramsAssumption ==
    \A program \in Programs :
        /\ program.timers \subseteq Timers /\ program.watcher \in {"usable", "gone"}
        /\ program.relays \subseteq Relays /\ program.posts \subseteq Posts
        /\ program.notices \subseteq Notices /\ program.existingOnly \in BOOLEAN

vars == <<threadVars, timerVars, watcherVars, relayVars, observerVars>>

Init ==
    /\ ThreadInit /\ TimerInit /\ WatcherInit /\ ObserversInit
    /\ beforeStop = {}
    /\ \E program \in Programs :
         /\ usable = program.timers
         /\ watcher = program.watcher
         /\ relay = [r \in Relays |-> IF r \in program.relays THEN "new" ELSE "unused"]
         /\ post = [p \in Posts |-> IF p \in program.posts THEN "new" ELSE "unused"]
         /\ notice = [n \in Notices |-> IF n \in program.notices THEN "new" ELSE "unused"]
         /\ existingOnly = program.existingOnly

(* Steps that change one client only, or none.                              *)
OfNone(A) == A /\ UNCHANGED <<timerVars, watcherVars, relayVars, observerVars>>
OfTimers(A) == A /\ UNCHANGED <<watcherVars, relayVars, observerVars>>
OfWatcher(A) == A /\ UNCHANGED <<timerVars, relayVars, observerVars>>
OfRelays(A) == A /\ UNCHANGED <<timerVars, watcherVars, observerVars>>
OfObservers(A) == A /\ UNCHANGED <<timerVars, watcherVars, relayVars>>

(* The thread: its loop runs tasks of its clients, one after the other, in  *)
(* turns of DoWork, DoDelayedWork and, if they did nothing, DoIdleWork.     *)
DoWork == \/ OfNone(ThreadQuitHelper)
          \/ OfWatcher(TakeSignal)
          \/ OfRelays(RunPost \/ RunRelayTask)
          \/ OfObservers(TakeNotice)
DoDelayedWork == OfTimers(TakeTimerTask)
DoIdleWork == OfNone(FindNoWork)
ObserverMethodReturns == OfObservers(ObserverReturns)
TaskStep == \/ OfTimers(RunTimerTask \/ FinishTimerTask)
            \/ OfWatcher(NotifyDelegate \/ FinishNotification)
            \/ OfRelays(PostReply)
            \/ OfObservers(PushObserver \/ CallObserver \/ EndDelivery)
            \/ ObserverMethodReturns
LifeStep == OfNone(ThreadBegins \/ RunReturns \/ CleanUp)
DestroyLoop ==
    \/ /\ DeletePendingTasks /\ TimerTasksDeleted /\ QueueLost /\ NoticesLost
       /\ UNCHANGED <<watcherVars, entry, observers>>
    \/ /\ TellObservers /\ LoopEndsWatch /\ QueueLost /\ NoticesLost /\ ContextAbandoned
       /\ UNCHANGED timerVars
ThreadStep == DoWork \/ DoDelayedWork \/ DoIdleWork \/ TaskStep \/ LifeStep \/ DestroyLoop

(* The owner's thread. beforeStop holds the tasks that a promise of Stop is *)
(* about. Bound: a program that notifies observers calls Stop alone, not    *)
(* StopSoon before it.                                                      *)
Told == beforeStop' = IF stopping' = stopping THEN beforeStop
                      ELSE {task \in ToSet(queue) : task.kind \in {"relay", "post"}}
OriginMatters == \E r \in Relays : relay[r] # "unused"
Observing == \E n \in Notices : notice[n] # "unused"
OwnerStep ==
    \/ OfNone(Start)
    \/ OfRelays(((~Observing /\ StopSoon) \/ Stop) /\ Told /\ UNCHANGED <<relay, post>>)
    \/ OfRelays(OriginMatters /\ OriginEnds /\ OriginQueueLost)
    \/ OfRelays(\E r \in Relays : OwnerPosts(r))
OwnerWaitEnds == OfNone(OwnerReturns)
OwnerReplies == OfRelays(RunReplyAndSelfDestruct)

(* The program's calls on the thread, other threads and the system.         *)
Environment ==
    \/ OfTimers(\E t \in Timers : TimerCall(t))
    \/ OfWatcher(WatcherCall \/ ObjectChanges)
    \/ OfRelays(\E p \in Posts : OtherPosts(p))
    \/ Observing /\ OfObservers(\E o \in Observers : AddObserver(o) \/ RemoveObserver(o))
    \/ OfObservers(\E n \in Notices : Notify(n))
SystemStep == OfWatcher(WaitThreadStep)

Clock == /\ TimePasses /\ TimersAge
         /\ UNCHANGED <<queue, busy, mainVars, ownerVars, originVars,
                        watcherVars, relayVars, observerVars>>

Next == ThreadStep \/ OwnerStep \/ OwnerWaitEnds \/ OwnerReplies \/ Environment \/ SystemStep \/ Clock

Spec == Init /\ [][Next]_vars

(* Fairness: the threads and the clock go on; a turn of the loop gives its  *)
(* tasks and its delayed tasks their chance, and DoIdleWork when there is   *)
(* nothing to do again and again; an observer's method returns; the owner's *)
(* loop replies, whatever else the owner does. No program calls anything of *)
(* necessity.                                                               *)
NothingDue == ~ \E i \in DOMAIN delayed : delayed[i].left = 0
Fairness ==
    /\ WF_vars(ThreadStep) /\ WF_vars(SystemStep) /\ WF_vars(Clock)
    /\ SF_vars(DoWork) /\ SF_vars(DoDelayedWork) /\ SF_vars(NothingDue /\ DoIdleWork)
    /\ SF_vars(ObserverMethodReturns)
    /\ WF_vars(OwnerWaitEnds) /\ SF_vars(OwnerReplies)

FairSpec == Spec /\ Fairness

-----------------------------------------------------------------------------
Tasks == {Task("quit", 0)} \union {Task("signal", f) : f \in WeakFlags}
           \union {Task("relay", r) : r \in Relays} \union {Task("post", p) : p \in Posts}
           \union {Task("notify", n) : n \in Notices}

BusyTasks == {Null, Task("notification", 0)} \union Tasks
               \union {Task(kind, k) : kind \in {"timer", "callback"}, k \in TimerTasks}
               \union {Task("notifying", n) : n \in Notices}
               \union {Task(kind, o) : kind \in {"adding", "observer"}, o \in Observers}

TypeOK ==
    /\ queue \in Seq(Tasks)
    /\ \A i \in DOMAIN delayed : /\ delayed[i].task \in {Task("timer", k) : k \in TimerTasks}
                                 /\ delayed[i].left \in Nat
    /\ busy \in BusyTasks
    /\ main \in {"none", "created", "running", "idle", "cleaning", "deleting", "telling"}
    /\ {quit, messageLoop, started, stopping, originAlive, registered, signaled} \subseteq BOOLEAN
    /\ owner \in {"idle", "starting", "joining"}
    /\ originQueue \in Seq(Relays)
    /\ timerOf \in [TimerTasks -> Timers \union {NoTimer}]
    /\ delayedTask \in [Timers -> TimerTasks \union {0}]
    /\ \A t \in Timers : /\ waited[t] \in -1 .. Delay[t] /\ toTrigger[t] \in -1 .. Delay[t]
                         /\ IsRunning(t) => period[delayedTask[t]] \in 1 .. Delay[t]
    /\ {callback, validFlag} \subseteq WeakFlags \union {0}
    /\ waitThread \in {"none", "waiting", "posting", "resetting", "done"}
    /\ watch \in {"off", "on", "fired"} /\ watcher \in {"usable", "gone"}
    /\ relay \in [Relays -> {"unused", "new", "posted", "deleted at once", "task done",
                             "reply posted", "replied", "task lost", "reply lost"}]
    /\ post \in [Posts -> {"unused", "new", "posted", "refused", "done", "deleted"}]
    /\ beforeStop \subseteq Tasks
    /\ entry \in Allocated \union {0} /\ Allocated \subseteq Contexts
    /\ \A c \in Allocated : observers[c] \in Seq(Observers \union {0}) /\ Len(observers[c]) <= MaxList
    /\ Len(deliveries) <= MaxNotify
    /\ notice \in [Notices -> {"unused", "new", "posted", "done", "lost"}]
    /\ sentTo \in [Notices -> Contexts \union {0}] /\ due \in [Notices -> SUBSET Observers]

(* The method of timer t is called in this step.                            *)
TimerCalls(t) ==
    /\ busy.kind = "timer" /\ busy'.kind = "callback" /\ timerOf[busy.id] = t
    /\ ~ (Kind[t] = "Delay" /\ TooEarly(t))

TimerCallsInTime ==
    \A t \in Timers : TimerCalls(t) => t \in usable /\ waited[t] = Delay[t]

NotifiesOfWatchInForce ==
    busy.kind = "signal" /\ busy'.kind = "notification" => watch = "fired" /\ watcher = "usable"

WaitThreadPostsToLoop ==
    waitThread = "posting" /\ waitThread' = "resetting" => LoopAlive

StopWaitsForTasks ==
    owner = "joining" /\ owner' = "idle" =>
        /\ \A p \in Posts : Task("post", p) \in beforeStop => post[p] = "done"
        /\ \A r \in Relays : Task("relay", r) \in beforeStop => relay[r] # "task lost"

CallsObserver == /\ busy.kind = "notifying" /\ busy'.kind = "observer"
                 /\ Len(deliveries') = Len(deliveries)
ObserversCalledOnce ==
    CallsObserver => /\ busy'.id \notin Innermost.called
                     /\ existingOnly => busy'.id \in Innermost.present

NobodyPassedOver ==
    \A n \in Notices : notice'[n] = "done" /\ notice[n] = "posted" => due[n] = {}

ContextsInUse ==
    /\ Allocated = ({entry} \ {0}) \union {deliveries[i].context : i \in DOMAIN deliveries}
    /\ entry # 0 /\ deliveries = <<>> /\ busy.kind # "adding" => Registered # {}

(* The four promises of the observer list, on every step and in every       *)
(* state: in one notification an observer is called once at most, and in a  *)
(* list of type NOTIFY_EXISTING_ONLY only if it was there at the beginning  *)
(* (observer_list.h 83-111); one that was registered when Notify was called  *)
(* and is not removed is never passed over (observer_list_threadsafe.h      *)
(* 127-138, 237-278); and a context exists exactly as long as the map or an *)
(* iteration has its address, with none left empty in the map. A removed    *)
(* observer counts as a new one when it is added again.                     *)
(*                                                                          *)
(* What the other clients promise never to do: a timer that was stopped,    *)
(* reset or destroyed does not call on account of the old task, and none    *)
(* calls before its delay is over since it was last started or reset        *)
(* (timer.h 5-40, 221-231); a watcher notifies only of a watch that has     *)
(* fired and was neither stopped nor destroyed since, and once              *)
(* (object_watcher.h); the system's thread never posts to a loop that is    *)
(* gone (object_watcher.cc 51-53); and Stop returns only when the tasks     *)
(* that were in the queue have run (thread.h 20-22).                        *)
CallsOnlyWhenDue ==
    [][/\ TimerCallsInTime /\ NotifiesOfWatchInForce
       /\ WaitThreadPostsToLoop /\ StopWaitsForTasks
       /\ ObserversCalledOnce /\ NobodyPassedOver /\ ContextsInUse]_vars

Expected(k) == \E t \in Timers : delayedTask[t] = k
RunningTimerCalls == \A k \in TimerTasks : Expected(k) ~> ~Expected(k)
FiredWatchNotifies == (watch = "fired") ~> (watch = "off")
RepliesCome ==
    \A r \in Relays : (relay[r] = "posted") ~> (relay[r] \in {"replied", "task lost", "reply lost"})
NoticesCome == \A n \in Notices : (notice[n] = "posted") ~> (notice[n] # "posted")
KeepsUp == []<>(main # "running" \/ (Idle /\ NothingDue))
StartsWatch == watch # "on" /\ watch' = "on"
WatchesForEver == []<><<stopping /\ StartsWatch>>_vars
StopEnds == KeepsUp /\ ~WatchesForEver => ((owner = "joining") ~> (owner = "idle"))

(* What the clients promise to do: the task of a running timer runs, unless *)
(* the timer is reset, stopped or destroyed or the loop ends first; a watch *)
(* that fired is notified or stopped, for no thread waits for the other for *)
(* ever; a reply comes unless one of the loops ends first; a notification   *)
(* that was posted is delivered or lost with the loop; Stop returns, each   *)
(* time the Thread is used again, unless the program keeps the loop busy    *)
(* for ever, so that DoIdleWork, which quits, is never reached: with a      *)
(* repeating timer whose method takes longer than its delay, so that a      *)
(* delayed task is always due, or with watches that it starts again and     *)
(* again although the loop was told to quit, as a delegate does that        *)
(* continues to watch a signaled object (object_watcher.h 52-53).           *)
CallsCome == RunningTimerCalls /\ FiredWatchNotifies /\ RepliesCome /\ NoticesCome
               /\ StopEnds
=============================================================================
