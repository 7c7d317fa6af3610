--------------------------- MODULE MessageLoopProxy ---------------------------
(***************************************************************************)
(* base/message_loop_proxy_impl.{h,cc} composed with the MessageLoop it    *)
(* stands for and the loop's MessagePumpDefault: other threads post        *)
(* through the proxy while the loop runs, nests, quits and is destroyed,   *)
(* or call the loop directly, and then it may die as soon as the task is   *)
(* in its queue.                                                           *)
(***************************************************************************)
EXTENDS MessageLoop

CONSTANTS Posters,           \* the other threads
          NoPoster

ASSUME PosterAssumption == NoPoster \notin Posters

VARIABLES
    target,                  \* target_message_loop_ is not NULL
    proxyLock,               \* the owner of message_loop_lock_
    posterPc,                \* where each poster is in PostTaskHelper()
    posterTask,              \* the task it posts
    pumpRefs                 \* the posters with a scoped_refptr to the pump on their stack

proxyVars == <<target, proxyLock, posterPc, posterTask, pumpRefs>>
vars == <<loopVars, pumpVars, now, proxyVars>>
-----------------------------------------------------------------------------
Init == /\ PumpInit
        /\ LoopInit
        /\ target = TRUE
        /\ proxyLock = NoPoster
        /\ posterPc = [p \in Posters |-> "idle"]
        /\ posterTask = [p \in Posters |-> NoTask]
        /\ pumpRefs = {}

(* PostTaskHelper() takes the lock and finds the loop gone, or computes    *)
(* the run time of the task and keeps the lock.  A thread that holds a     *)
(* MessageLoop* calls PostTask() itself, without the proxy's lock, as      *)
(* Thread::StopSoon() does.                                                *)
DirectPost(p) == posterPc[p] # "idle" /\ proxyLock # p

PostRefused(p) ==
    /\ posterPc[p] = "idle" /\ proxyLock = NoPoster /\ ~target
    /\ \E t \in Fresh : SetStatus({t}, "refused")
    /\ UNCHANGED <<queueVars, runTime, numberVars, recentTime, nestableAllowed, frames, phase, roundVars,
                   posted, pumpVars, now, proxyVars>>

PostBegins(p) ==
    /\ posterPc[p] = "idle"
    /\ \/ proxyLock = NoPoster /\ target /\ proxyLock' = p
       \/ phase = "alive" /\ UNCHANGED proxyLock
    /\ \E t \in Fresh :
         /\ Representable(t)
         /\ runTime' = [runTime EXCEPT ![t] = CalculateDelayedRuntime(t)]
         /\ SetStatus({t}, "posting")
         /\ posterTask' = [posterTask EXCEPT ![p] = t]
    /\ posterPc' = [posterPc EXCEPT ![p] = "push"]
    /\ UNCHANGED <<queueVars, numberVars, recentTime, nestableAllowed, frames, phase, roundVars,
                   posted, pumpVars, now, target, pumpRefs>>

PostReturns(p) == /\ proxyLock' = IF proxyLock = p THEN NoPoster ELSE proxyLock
                  /\ posterPc' = [posterPc EXCEPT ![p] = "idle"]
                  /\ posterTask' = [posterTask EXCEPT ![p] = NoTask]
                  /\ pumpRefs' = pumpRefs \ {p}

(* AddToIncomingQueue() on the poster's thread: the push under             *)
(* incoming_queue_lock_, then the wake-up outside it, through a reference  *)
(* to the pump: by then the task may have run and the loop be destroyed.   *)
(* Slip: a plain pointer to the pump.                                      *)
RefsWithPointer(p) == pumpRefs
RefsWith(p) == pumpRefs \cup {p}

PostPushes(p) ==
    /\ posterPc[p] = "push"
    /\ incoming' = Append(incoming, posterTask[p])
    /\ posted' = Append(posted, posterTask[p])
    /\ SetStatus({posterTask[p]}, "queued")
    /\ IF incoming = <<>>
       THEN /\ posterPc' = [posterPc EXCEPT ![p] = "signal"]
            /\ pumpRefs' = RefsWith(p)
            /\ UNCHANGED <<proxyLock, posterTask>>
       ELSE PostReturns(p)
    /\ UNCHANGED <<work, deferred, delayed, runTime, numberVars, recentTime, nestableAllowed,
                   frames, phase, roundVars, pumpVars, now, target>>

PostSignals(p) ==
    /\ posterPc[p] = "signal"
    /\ ScheduleWork
    /\ PostReturns(p)
    /\ UNCHANGED <<loopVars, keepRunning, delayedWorkTime, now, target>>

(* ~MessageLoop() tells the proxy, then ends.                              *)
(* Slip: it does not take the proxy's lock.                                *)
WillDestroyUnlocked ==
    /\ target' = FALSE
    /\ EndDestruction
    /\ UNCHANGED <<proxyLock, posterPc, posterTask, pumpRefs>>
WillDestroyCurrentMessageLoop ==
    /\ proxyLock = NoPoster
    /\ target' = FALSE
    /\ EndDestruction
    /\ UNCHANGED <<proxyLock, posterPc, posterTask, pumpRefs>>

PosterStep(p) == PostRefused(p) \/ PostBegins(p) \/ PostPushes(p) \/ PostSignals(p)

(* The owner keeps the loop until every direct call has queued its task,   *)
(* no longer: that task may be the one that leads to the destruction.      *)
MayDestroy == \A p \in Posters : ~(DirectPost(p) /\ posterPc[p] = "push")

(* The pump is reference-counted: the loop and those posters keep it.      *)
PumpExists == phase # "dead" \/ pumpRefs # {}

LoopStep == /\ \/ PumpStep
               \/ ProgramStep
               \/ MayDestroy /\ BeginDestruction
               \/ DestructorStep
            /\ UNCHANGED proxyVars

TimePasses == Tick /\ UNCHANGED <<loopVars, pumpVars, proxyVars>>

Next == \/ LoopStep
        \/ WillDestroyCurrentMessageLoop
        \/ \E p \in Posters : PosterStep(p)
        \/ TimePasses

Spec == Init /\ [][Next]_vars

(* The threads get the processor, a task returns once its nested Runs      *)
(* have, the clock advances, and the loop's owner is under no duty to run  *)
(* it, to quit it or to destroy it.                                        *)
Fairness ==
    /\ WF_vars(PumpStep /\ UNCHANGED proxyVars)
    /\ SF_vars(FinishTask /\ UNCHANGED proxyVars)
    /\ \A p \in Posters : WF_vars(PostPushes(p) \/ PostSignals(p))
    /\ WF_vars(TimePasses)

FairSpec == Spec /\ Fairness
-----------------------------------------------------------------------------
Statuses == {"new", "posting", "refused", "queued", "running", "ran", "deleted"}
Phases == {"alive", "deleteFirst", "reload", "deleteAgain", "observers", "dead"}

(* Every variable keeps its type.                                          *)
TypeOK ==
    /\ PumpTypeOK
    /\ incoming \in Seq(Tasks) /\ work \in Seq(Tasks) /\ deferred \in Seq(Tasks)
    /\ posted \in Seq(Tasks)
    /\ delayed \subseteq Tasks
    /\ runTime \in [Tasks -> Times]
    /\ seqNum \in [Tasks -> SeqNumbers]
    /\ nextSeqNum \in SeqNumbers
    /\ recentTime \in Times
    /\ nestableAllowed \in BOOLEAN
    /\ frames \in Seq(Frames)
    /\ phase \in Phases /\ round \in Nat /\ postedBefore \in Nat
    /\ status \in [Tasks -> Statuses]
    /\ target \in BOOLEAN
    /\ proxyLock \in Posters \cup {NoPoster}
    /\ posterPc \in [Posters -> {"idle", "push", "signal"}]
    /\ posterTask \in [Posters -> Tasks \cup {NoTask}]
    /\ pumpRefs \subseteq Posters

(* A task that was queued is in exactly one of the four queues, once, and  *)
(* a task that runs is in exactly one Run: the moves between the queues,   *)
(* made by the two threads, neither lose nor duplicate a task.             *)
Places(t) ==
    {<<"incoming", i>> : i \in {j \in DOMAIN incoming : incoming[j] = t}}
      \cup {<<"work", i>> : i \in {j \in DOMAIN work : work[j] = t}}
      \cup {<<"deferred", i>> : i \in {j \in DOMAIN deferred : deferred[j] = t}}
      \cup (IF t \in delayed THEN {<<"delayed", 0>>} ELSE {})
RunsOf(t) == {i \in DOMAIN frames : frames[i].task = t}

TaskConservation ==
    \A t \in Tasks : /\ Cardinality(Places(t)) = IF status[t] = "queued" THEN 1 ELSE 0
                     /\ Cardinality(RunsOf(t)) = IF status[t] = "running" THEN 1 ELSE 0

(* message_loop.h promises never to dispatch a NonNestable task from a     *)
(* nested invocation of Run, whichever of the queues it waited in.         *)
NonNestableNeverNested ==
    \A i \in DOMAIN frames : i > 1 => \A t \in Tasks : frames[i].task = t => Nestable[t]

(* message_loop.h promises FIFO order: a task posted without delay and     *)
(* nestable starts before every task without delay that was queued after   *)
(* it, through reloads, nested Runs and deferrals.                         *)
Started(t) == status[t] \in {"running", "ran"}
QueuedBefore(a, b) ==
    \E i, j \in DOMAIN posted : i < j /\ posted[i] = a /\ posted[j] = b

FifoOrder ==
    \A a, b \in Tasks :
        (QueuedBefore(a, b) /\ Delay[a] = 0 /\ Delay[b] = 0 /\ Nestable[a] /\ Started(b))
            => Started(a)

(* Delayed nestable tasks start in the order of their run times, and those *)
(* with the same run time in the order they were queued; the one queued    *)
(* first is never overtaken, although it passes through three queues.      *)
DelayedOrder ==
    \A a, b \in Tasks :
        ( /\ QueuedBefore(a, b) /\ Delay[a] > 0 /\ Delay[b] > 0
          /\ runTime[a] <= runTime[b] /\ Nestable[a] /\ Started(b) ) => Started(a)

(* A delayed task never starts before its time, although DoDelayedWork     *)
(* compares with a cached clock (recent_time_).                            *)
NeverEarly == \A t \in Tasks : Started(t) => runTime[t] <= now

(* No wake-up is lost: while Run sleeps with nothing to wake it, either    *)
(* nothing was queued or the poster is about to signal, and the sleep ends *)
(* no later than the first delayed task is due.                            *)
Asleep == At("Wait") /\ ~event

NoLostWakeup ==
    (Asleep /\ nestableAllowed) =>
        /\ work = <<>>
        /\ incoming # <<>> => \E p \in Posters : posterPc[p] = "signal"
        /\ delayed # {} => /\ delayedWorkTime # Null
                           /\ delayedWorkTime <= runTime[Earliest]
        /\ Depth = 1 => deferred = <<>>

(* A post never touches what is gone.  Once the loop is dead, no thread is *)
(* about to push and the proxy's lock is free; a direct post that has      *)
(* queued its task, which may be what led to the destruction, still wakes  *)
(* the pump, and the pump is still there.  Every task a poster was told    *)
(* was accepted has run or has been deleted.                               *)
NoUseAfterDestruction ==
    /\ phase = "dead" =>
         /\ proxyLock = NoPoster
         /\ \A p \in Posters : posterPc[p] # "push"
         /\ \A t \in Tasks : status[t] \in {"new", "refused", "ran", "deleted"}
    /\ \A p \in Posters : posterPc[p] = "signal" => PumpExists

(* The destructor comes to the limit of its loop, where DCHECK(!did_work)  *)
(* fails, only through stubborn tasks: each round after the first takes a  *)
(* task that was queued while the destructor ran, by a closure it deleted  *)
(* or by another thread, and what was queued before never takes a second.  *)
RoundsArePaidFor ==
    phase # "alive" => round <= Len(posted) - postedBefore + 1

(* Quit() and RunAllPending() return only once nothing that could run was  *)
(* left: when an idle Run ends, its work queue is empty and, outermost,    *)
(* so is the queue of deferred tasks.                                      *)
QuitDrains ==
    [][ (At("DoIdleWork") /\ nestableAllowed /\ Len(frames') < Len(frames))
          => work = <<>> /\ (Depth = 1 => deferred = <<>>) ]_vars

(* A queued nestable task without delay runs, or the outermost Run ends,   *)
(* whatever the other threads and the nested Runs do.                      *)
ImmediateTaskRuns ==
    \A t \in Tasks :
        (status[t] = "queued" /\ Delay[t] = 0 /\ Nestable[t] /\ frames # <<>>)
            ~> (status[t] # "queued" \/ frames = <<>>)

(* So does a delayed one: the sleep of Run is never longer than the wait   *)
(* of the first delayed task.                                              *)
DelayedTaskRuns ==
    \A t \in Tasks :
        (status[t] = "queued" /\ Delay[t] > 0 /\ Nestable[t] /\ frames # <<>>)
            ~> (status[t] # "queued" \/ frames = <<>>)

(* message_loop.h: "tasks are invoked in FIFO order", and the NonNestable  *)
(* variants "work similarly" except for nesting: of two non-nestable tasks *)
(* without delay the one queued first starts first.                        *)
NonNestableFifo ==
    \A a, b \in Tasks :
        (QueuedBefore(a, b) /\ Delay[a] = 0 /\ Delay[b] = 0
           /\ ~Nestable[a] /\ ~Nestable[b] /\ Started(b)) => Started(a)
=============================================================================
