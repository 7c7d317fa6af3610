----------------------------- MODULE MessageLoop -----------------------------
(***************************************************************************)
(* base/message_loop.{h,cc}: one MessageLoop of type DEFAULT, as its own   *)
(* thread sees it: the three methods the pump calls back (DoWork,          *)
(* DoDelayedWork, DoIdleWork), the tasks they run, the calls a task may    *)
(* make on its loop (post, Quit, QuitNow, a nested Run or RunAllPending)   *)
(* and the destructor.  Other threads are added by MessageLoopProxy.       *)
(*                                                                         *)
(* frames holds one record for each active Run: AutoRunState and the local *)
(* state of MessagePumpDefault::Run.  The delegate method or the wait that *)
(* the innermost Run executes is its pc; pc = "Task" while a task runs.    *)
(***************************************************************************)
EXTENDS PendingTask, MessagePumpDefault, SequencesExt

CONSTANTS
    Tasks,                   \* the tasks ever posted, each at most once
    NoTask,
    Delay,                   \* Delay[t]: the delay t is posted with
    Nestable,                \* Nestable[t]: not posted with a NonNestable variant
    Closure,                 \* Closure[t]: what Callback::Equals compares
    FirstSeqNum,             \* next_sequence_num_ when the model begins: 0 in a new
                             \* loop, any number in one that has had delayed tasks
    MaxDepth,                \* bound on nested Runs
    MaxRounds                \* the limit of the destructor's loop: 100

ASSUME LoopAssumption ==
    /\ NoTask \notin Tasks
    /\ Delay \in [Tasks -> Nat]
    /\ Nestable \in [Tasks -> BOOLEAN]
    /\ FirstSeqNum \in SeqNumbers
    /\ MaxDepth \in Nat \ {0}
    /\ MaxRounds \in Nat \ {0}

VARIABLES
    incoming,                \* incoming_queue_
    work,                    \* work_queue_
    deferred,                \* deferred_non_nestable_work_queue_
    delayed,                 \* delayed_work_queue_
    runTime,                 \* PendingTask::delayed_run_time
    seqNum,                  \* PendingTask::sequence_num
    nextSeqNum,              \* next_sequence_num_
    recentTime,              \* recent_time_
    nestableAllowed,         \* nestable_tasks_allowed_
    frames,                  \* state_ and the frames of Run
    phase,                   \* how far ~MessageLoop has come
    round,                   \* i, which counts the rounds of its loop
    postedBefore,            \* history: how many tasks had been queued when it began
    status,                  \* what has become of each task
    posted                   \* history: the tasks in the order they were queued

queueVars == <<incoming, work, deferred, delayed>>
numberVars == <<seqNum, nextSeqNum>>
roundVars == <<round, postedBefore>>
loopVars == <<queueVars, runTime, numberVars, recentTime, nestableAllowed,
              frames, phase, roundVars, status, posted>>
-----------------------------------------------------------------------------
Stages == {"DoWork", "DoDelayedWork", "DoIdleWork"}

Frames == [pc : Stages \cup {"Sleep", "Wait", "Task"},
           stage : Stages,             \* the delegate method called last
           didWork : BOOLEAN,          \* did_work
           task : Tasks \cup {NoTask}, \* the task that runs
           quitReceived : BOOLEAN,     \* AutoRunState::quit_received
           allower : BOOLEAN]          \* inside a ScopedNestableTaskAllower?

Depth == Len(frames)                   \* run_depth
Top == frames[Depth]
At(pc) == frames # <<>> /\ Top.pc = pc
Immediate(t) == runTime[t] = Null
Fresh == {t \in Tasks : status[t] = "new"}
InTask == At("Task")
Outside == frames = <<>> /\ phase = "alive"

SetTop(frame) == frames' = [frames EXCEPT ![Depth] = frame]
SetStatus(S, value) ==
    status' = [t \in Tasks |-> IF t \in S THEN value ELSE status[t]]

(* The element a priority_queue of these tasks has on top: one with the    *)
(* earliest run time, and the one before all others when the numbers,      *)
(* which wrap, leave such a one.                                           *)
EarliestOf(S, time, number) ==
    LET first == {t \in S : \A u \in S : time[t] <= time[u]}
        Leads(t) == \A u \in S \ {t} : RunsBefore(time[t], number[t], time[u], number[u])
    IN  CHOOSE t \in first : (\E u \in first : Leads(u)) => Leads(t)
Earliest == EarliestOf(delayed, runTime, seqNum)
-----------------------------------------------------------------------------
LoopInit ==
    /\ incoming = <<>> /\ work = <<>> /\ deferred = <<>> /\ delayed = {}
    /\ runTime = [t \in Tasks |-> Null]
    /\ seqNum = [t \in Tasks |-> 0]
    /\ nextSeqNum = FirstSeqNum
    /\ recentTime = Null
    /\ nestableAllowed = TRUE
    /\ frames = <<>>
    /\ phase = "alive" /\ round = 0 /\ postedBefore = 0
    /\ status = [t \in Tasks |-> "new"]
    /\ posted = <<>>

(* CalculateDelayedRuntime(); a post past the bound on the clock is left   *)
(* out of the model.                                                       *)
(* Slip: one tick too many.                                                *)
CalculateDelayedRuntimeLate(t) == IF Delay[t] > 0 THEN now + Delay[t] + 1 ELSE Null
CalculateDelayedRuntime(t) == IF Delay[t] > 0 THEN now + Delay[t] ELSE Null
Representable(t) == now + Delay[t] <= MaxTime

(* AddToIncomingQueue() as the loop's own thread calls it: the push and    *)
(* the wake-up of the pump are one step, for only this thread waits.       *)
PostTask(t) ==
    /\ t \in Fresh /\ Representable(t)
    /\ runTime' = [runTime EXCEPT ![t] = CalculateDelayedRuntime(t)]
    /\ incoming' = Append(incoming, t)
    /\ posted' = Append(posted, t)
    /\ SetStatus({t}, "queued")
    /\ IF incoming = <<>> THEN ScheduleWork ELSE UNCHANGED event

OwnThreadPost ==
    /\ InTask \/ Outside \/ phase = "observers"
    /\ \E t \in Tasks : PostTask(t)
    /\ UNCHANGED <<work, deferred, delayed, numberVars, recentTime, nestableAllowed,
                   frames, phase, roundVars, keepRunning, delayedWorkTime, now>>
-----------------------------------------------------------------------------
(* The rest of MessagePumpDefault::Run once a delegate method returned     *)
(* `result`: test keep_running_, then go on to the next stage or break     *)
(* out, which drops the AutoRunState and, for a nested Run, the            *)
(* ScopedNestableTaskAllower around it.                                    *)
NextStage(stage, did) ==
    CASE stage = "DoWork" -> "DoDelayedWork"
      [] stage = "DoDelayedWork" -> IF did THEN "DoWork" ELSE "DoIdleWork"
      [] stage = "DoIdleWork" -> IF did THEN "DoWork" ELSE "Sleep"

DelegateReturned(stage, result, keep, allowed) ==
    LET did == result \/ (stage = "DoDelayedWork" /\ Top.didWork)
    IN  /\ keepRunning' = TRUE
        /\ IF keep
           THEN /\ SetTop([Top EXCEPT !.pc = NextStage(stage, did), !.stage = stage,
                                      !.didWork = did, !.task = NoTask])
                /\ nestableAllowed' = allowed
           ELSE /\ frames' = Front(frames)
                /\ nestableAllowed' = (allowed /\ ~Top.allower)

(* RunTask() up to the call of the closure.                                *)
RunTask(stage, t) ==
    /\ nestableAllowed' = FALSE
    /\ SetTop([Top EXCEPT !.pc = "Task", !.stage = stage, !.task = t])
    /\ SetStatus({t}, "running")
    /\ UNCHANGED keepRunning

(* DeferOrRunPendingTask().                                                *)
(* Slip: a nested Run defers every task.                                   *)
MayRunOutermost(t) == Depth = 1
MayRun(t) == Nestable[t] \/ Depth = 1

DeferOrRunPendingTask(stage, t) ==
    \/ /\ MayRun(t)
       /\ RunTask(stage, t)
       /\ UNCHANGED deferred
    \/ /\ ~MayRun(t)
       /\ deferred' = Append(deferred, t)
       /\ UNCHANGED status
       /\ IF stage = "DoWork"
          THEN UNCHANGED <<frames, nestableAllowed, keepRunning>>
          ELSE DelegateReturned(stage, FALSE, keepRunning, nestableAllowed)

(* AddToDelayedWorkQueue(), and the reschedule when the top has the        *)
(* closure of the task just added.                                         *)
AddToDelayedWorkQueue(t) ==
    /\ seqNum' = [seqNum EXCEPT ![t] = nextSeqNum]
    /\ nextSeqNum' = NextSeqNum(nextSeqNum)
    /\ delayed' = delayed \cup {t}
    /\ delayedWorkTime' = IF Closure[EarliestOf(delayed', runTime, seqNum')] = Closure[t]
                          THEN runTime[t] ELSE delayedWorkTime

(* ReloadWorkQueue(): the two queues after it.                             *)
(* Slip: a copy in the place of the swap.                                  *)
ReloadedByCopy == [work |-> IF work = <<>> THEN incoming ELSE work, incoming |-> incoming]
Reloaded == IF work = <<>> THEN [work |-> incoming, incoming |-> <<>>]
                           ELSE [work |-> work, incoming |-> incoming]
-----------------------------------------------------------------------------
(* DoWork(): one turn of its loops.                                        *)
DoWorkFindsNothing ==
    /\ At("DoWork")
    /\ nestableAllowed => Reloaded.work = <<>>
    /\ DelegateReturned("DoWork", FALSE, keepRunning, nestableAllowed)
    /\ UNCHANGED <<queueVars, runTime, numberVars, recentTime, phase, roundVars, status,
                   posted, event, delayedWorkTime, now>>

DoWorkTakesTask ==
    /\ At("DoWork") /\ nestableAllowed
    /\ Reloaded.work # <<>>
    /\ incoming' = Reloaded.incoming
    /\ work' = Tail(Reloaded.work)
    /\ LET t == Head(Reloaded.work)
       IN  \/ /\ ~Immediate(t)
              /\ AddToDelayedWorkQueue(t)
              /\ UNCHANGED <<deferred, status, frames, nestableAllowed, keepRunning>>
           \/ /\ Immediate(t)
              /\ DeferOrRunPendingTask("DoWork", t)
              /\ UNCHANGED <<numberVars, delayed, delayedWorkTime>>
    /\ UNCHANGED <<runTime, recentTime, phase, roundVars, posted, event, now>>

(* DoDelayedWork(): nothing to run now.                                    *)
(* Slip: a task is due a tick before its time.                             *)
DueSoon(t) == runTime[t] <= now + 1
Due(t) == runTime[t] <= recentTime \/ runTime[t] <= now

DoDelayedWorkFindsNothing ==
    /\ At("DoDelayedWork")
    /\ ~nestableAllowed \/ delayed = {}
    /\ recentTime' = Null
    /\ delayedWorkTime' = Null
    /\ DelegateReturned("DoDelayedWork", FALSE, keepRunning, nestableAllowed)
    /\ UNCHANGED <<queueVars, runTime, numberVars, phase, roundVars, status, posted, event, now>>

DoDelayedWorkNotDue ==
    /\ At("DoDelayedWork") /\ nestableAllowed /\ delayed # {}
    /\ ~Due(Earliest)
    /\ recentTime' = now
    /\ delayedWorkTime' = runTime[Earliest]
    /\ DelegateReturned("DoDelayedWork", FALSE, keepRunning, nestableAllowed)
    /\ UNCHANGED <<queueVars, runTime, numberVars, phase, roundVars, status, posted, event, now>>

DoDelayedWorkTakesTask ==
    /\ At("DoDelayedWork") /\ nestableAllowed /\ delayed # {}
    /\ Due(Earliest)
    /\ recentTime' = IF runTime[Earliest] <= recentTime THEN recentTime ELSE now
    /\ delayed' = delayed \ {Earliest}
    /\ delayedWorkTime' = IF delayed' = {} THEN delayedWorkTime
                          ELSE runTime[EarliestOf(delayed', runTime, seqNum)]
    /\ DeferOrRunPendingTask("DoDelayedWork", Earliest)
    /\ UNCHANGED <<incoming, work, runTime, numberVars, phase, roundVars, posted, event, now>>

(* DoIdleWork(): ProcessNextDelayedNonNestableTask(), then the test of     *)
(* quit_received.                                                          *)
(* Slips: the run depth is not tested, or quit_received is tested first.   *)
HasDeferredTaskAnyDepth == deferred # <<>>
HasDeferredTaskUnlessQuit == Depth = 1 /\ deferred # <<>> /\ ~Top.quitReceived
HasDeferredTask == Depth = 1 /\ deferred # <<>>

DoIdleWorkTakesTask ==
    /\ At("DoIdleWork") /\ HasDeferredTask
    /\ deferred' = Tail(deferred)
    /\ RunTask("DoIdleWork", Head(deferred))
    /\ UNCHANGED <<incoming, work, delayed, runTime, numberVars, recentTime, phase, roundVars,
                   posted, event, delayedWorkTime, now>>

DoIdleWorkFindsNothing ==
    /\ At("DoIdleWork") /\ ~HasDeferredTask
    /\ DelegateReturned("DoIdleWork", FALSE, keepRunning /\ ~Top.quitReceived, nestableAllowed)
    /\ UNCHANGED <<queueVars, runTime, numberVars, recentTime, phase, roundVars, status,
                   posted, event, delayedWorkTime, now>>

(* The end of Run's loop: decide how long to sleep, then sleep.            *)
(* Slip: it resets the event before it waits.                              *)
PrepareToSleepResetting ==
    /\ At("Sleep")
    /\ SetTop([Top EXCEPT !.pc = "Wait"])
    /\ event' = FALSE
    /\ UNCHANGED <<queueVars, runTime, numberVars, recentTime, nestableAllowed, phase, roundVars,
                   status, posted, keepRunning, delayedWorkTime, now>>
PrepareToSleep ==
    /\ At("Sleep")
    /\ IF TimedOut THEN /\ delayedWorkTime' = Null
                        /\ SetTop([Top EXCEPT !.pc = "DoWork"])
                   ELSE /\ UNCHANGED delayedWorkTime
                        /\ SetTop([Top EXCEPT !.pc = "Wait"])
    /\ UNCHANGED <<queueVars, runTime, numberVars, recentTime, nestableAllowed, phase, roundVars,
                   status, posted, keepRunning, event, now>>

WakeUp ==
    /\ At("Wait")
    /\ event \/ TimedOut
    /\ event' = FALSE
    /\ SetTop([Top EXCEPT !.pc = "DoWork"])
    /\ UNCHANGED <<queueVars, runTime, numberVars, recentTime, nestableAllowed, phase, roundVars,
                   status, posted, keepRunning, delayedWorkTime, now>>
-----------------------------------------------------------------------------
(* Run() and RunAllPending(): AutoRunState, then the pump's Run.           *)
NewFrame(allPending, allower) ==
    [pc |-> "DoWork", stage |-> "DoWork", didWork |-> FALSE, task |-> NoTask,
     quitReceived |-> allPending, allower |-> allower]

Run ==
    /\ Outside
    /\ \E allPending \in BOOLEAN : frames' = <<NewFrame(allPending, FALSE)>>
    /\ UNCHANGED <<queueVars, runTime, numberVars, recentTime, nestableAllowed, phase, roundVars,
                   status, posted, pumpVars, now>>

(* A task runs its loop again, inside a ScopedNestableTaskAllower, whose   *)
(* SetNestableTasksAllowed(true) schedules work, or without one; without   *)
(* one Run() could never be told to quit, so only RunAllPending() is.      *)
RunNested ==
    /\ InTask /\ Depth < MaxDepth
    /\ \E allPending, allower \in BOOLEAN :
         /\ allPending \/ allower
         /\ frames' = Append(frames, NewFrame(allPending, allower))
         /\ nestableAllowed' = allower
         /\ event' = (event \/ allower)
    /\ UNCHANGED <<queueVars, runTime, numberVars, recentTime, phase, roundVars, status,
                   posted, keepRunning, delayedWorkTime, now>>

Quit ==
    /\ InTask
    /\ SetTop([Top EXCEPT !.quitReceived = TRUE])
    /\ UNCHANGED <<queueVars, runTime, numberVars, recentTime, nestableAllowed, phase, roundVars,
                   status, posted, pumpVars, now>>

QuitNow ==
    /\ InTask
    /\ PumpQuit
    /\ UNCHANGED <<loopVars, event, delayedWorkTime, now>>

(* The closure returns to RunTask(), and the delegate method to the pump.  *)
FinishTask ==
    /\ InTask
    /\ SetStatus({Top.task}, "ran")
    /\ DelegateReturned(Top.stage, TRUE, keepRunning, TRUE)
    /\ UNCHANGED <<queueVars, runTime, numberVars, recentTime, phase, roundVars, posted,
                   event, delayedWorkTime, now>>
-----------------------------------------------------------------------------
(* ~MessageLoop(), on the loop's thread with no Run active.  Deleting a    *)
(* closure may post a task (DeleteSoon); one post per call bounds this.    *)
BeginDestruction ==
    /\ Outside
    /\ phase' = "deleteFirst"
    /\ round' = 0
    /\ postedBefore' = Len(posted)
    /\ UNCHANGED <<queueVars, runTime, numberVars, recentTime, nestableAllowed, frames, status,
                   posted, pumpVars, now>>

OwnedTasks == ToSet(work) \cup ToSet(deferred) \cup delayed

(* DeletePendingTasks(), called at the start and at the end of a round: the *)
(* second call ends the loop when it had nothing to delete.  So does the   *)
(* limit on the rounds; there DCHECK(!did_work) fails, and a build without *)
(* it goes on.                                                             *)
LastRound == round + 1 = MaxRounds

DeletePendingTasks ==
    /\ phase \in {"deleteFirst", "deleteAgain"}
    /\ phase' = CASE phase = "deleteFirst" -> "reload"
                  [] phase = "deleteAgain" ->
                       IF OwnedTasks = {} \/ LastRound THEN "observers" ELSE "deleteFirst"
    /\ round' = IF phase = "deleteAgain" /\ OwnedTasks # {} THEN round + 1 ELSE round
    /\ work' = <<>> /\ deferred' = <<>> /\ delayed' = {}
    /\ \E more \in {{}} \cup {{t} : t \in Fresh} :
         /\ more # {} => OwnedTasks # {}
         /\ incoming' = incoming \o SetToSeq(more)
         /\ posted' = posted \o SetToSeq(more)
         /\ status' = [t \in Tasks |-> IF t \in OwnedTasks THEN "deleted"
                                       ELSE IF t \in more THEN "queued" ELSE status[t]]
         /\ \A t \in more : Representable(t)
         /\ runTime' = [t \in Tasks |-> IF t \in more THEN CalculateDelayedRuntime(t)
                                        ELSE runTime[t]]
         /\ event' = (event \/ (more # {} /\ incoming = <<>>))
    /\ UNCHANGED <<numberVars, recentTime, nestableAllowed, frames, postedBefore,
                   keepRunning, delayedWorkTime, now>>

ReloadWorkQueue ==
    /\ phase = "reload"
    /\ phase' = "deleteAgain"
    /\ incoming' = Reloaded.incoming
    /\ work' = Reloaded.work
    /\ UNCHANGED <<deferred, delayed, runTime, numberVars, recentTime, nestableAllowed, frames,
                   roundVars, status, posted, pumpVars, now>>

(* The end of the destructor, after the destruction observers, which may   *)
(* post (OwnThreadPost): what is still in the incoming queue goes with it. *)
EndDestruction ==
    /\ phase = "observers"
    /\ phase' = "dead"
    /\ incoming' = <<>>
    /\ SetStatus(ToSet(incoming), "deleted")
    /\ UNCHANGED <<work, deferred, delayed, runTime, numberVars, recentTime, nestableAllowed,
                   frames, roundVars, posted, pumpVars, now>>
-----------------------------------------------------------------------------
(* What the innermost Run does between two tasks, and what the program     *)
(* does on the loop's thread, in a task or outside Run.                    *)
PumpStep == \/ DoWorkFindsNothing \/ DoWorkTakesTask
            \/ DoDelayedWorkFindsNothing \/ DoDelayedWorkNotDue \/ DoDelayedWorkTakesTask
            \/ DoIdleWorkFindsNothing \/ DoIdleWorkTakesTask
            \/ PrepareToSleep \/ WakeUp

ProgramStep == OwnThreadPost \/ Run \/ RunNested \/ Quit \/ QuitNow \/ FinishTask

DestructorStep == DeletePendingTasks \/ ReloadWorkQueue
=============================================================================
