--------------------------- MODULE WinMessageLoop ----------------------------
(***************************************************************************)
(* What the Windows pumps share: base/message_loop.cc as a pump that does  *)
(* not sleep on an event sees it, the base class MessagePumpWin            *)
(* (base/message_pump_win.{h,cc}), and the threads that post.              *)
(*                                                                         *)
(* The loop's thread is a stack of frames, one for each call the models    *)
(* tell apart: Run, a task or handler of the program, a native modal loop  *)
(* it opened, the two message handlers of the pump, and a wait for one IO  *)
(* handler.  Only the top frame acts.  A frame whose call has returned is  *)
(* "done" with that call and goes on in its next stage.  MessageLoop.tla   *)
(* has what is left out here: non-nestable tasks and the destructor.       *)
(***************************************************************************)
EXTENDS Integers, SequencesExt

CONSTANTS
    Tasks, NoTask,
    Delay,                   \* Delay[t]: the delay t is posted with
    Closure,                 \* Closure[t]: what Callback::Equals compares
    Posters,                 \* other threads
    NoHandler,               \* the filter of a wait for any IO handler
    MaxTime,                 \* bound on the clock when a task is posted or due
    MaxDepth                 \* bound on the frames a task may nest on

ASSUME WinMessageLoopAssumption ==
    /\ NoTask \notin Tasks
    /\ Delay \in [Tasks -> Nat]
    /\ MaxTime \in Nat \ {0}

VARIABLES
    pump,                    \* which pump the loop has; never changes
    incoming, work,          \* incoming_queue_, work_queue_
    delayed,                 \* delayed_work_queue_, in the order of sequence_num
    runTime,                 \* PendingTask::delayed_run_time
    status,                  \* what has become of each task
    nestableAllowed,         \* nestable_tasks_allowed_
    frames,                  \* the stack of the loop's thread
    haveWork,                \* have_work_
    delayedWorkTime,         \* delayed_work_time_
    queue,                   \* the thread's message queue, or the completion port
    wmTimer,                 \* when the WM_TIMER of SetTimer falls due
    now,                     \* TimeTicks::Now()
    posting                  \* how far each other thread has come in its post

taskVars == <<incoming, work, delayed, runTime, status>>
scheduleVars == <<haveWork, queue>>
timeVars == <<delayedWorkTime, wmTimer>>

Null == 0
HaveWork == "haveWork"       \* kMsgHaveWork, or the pump's own completion packet
-----------------------------------------------------------------------------
Frame(fn, pc) == [fn |-> fn, pc |-> pc, done |-> FALSE, more |-> FALSE, quit |-> FALSE,
                  quitReceived |-> FALSE, task |-> NoTask, nested |-> FALSE,
                  restore |-> TRUE, allower |-> FALSE, filter |-> NoHandler]

Top == Last(frames)
At(pc) == frames # <<>> /\ Top.pc = pc /\ ~Top.done
Returned(fn) == frames # <<>> /\ Top.fn = fn /\ Top.done
InProgram == At("Program")
SetTop(frame) == frames' = Append(Front(frames), frame)

(* A stage that returns a bool, and a stage that calls something which     *)
(* will return `result` when its frame ends.                               *)
After(result) == [Top EXCEPT !.done = TRUE, !.more = @ \/ result]
Return(result) == SetTop(After(result))
Call(result, callee) == frames' = Append(Front(frames) \o <<After(result)>>, callee)

(* state_: the innermost active Run.                                       *)
Runs == {i \in DOMAIN frames : frames[i].fn = "Run"}
Running == Runs # {}
Innermost == CHOOSE i \in Runs : \A j \in Runs : j <= i

(* ScheduleWork() on the loop's own thread, which alone empties the queue. *)
(* Slip: the message is posted whatever the flag was.                      *)
ScheduleWorkAlways == haveWork' = TRUE /\ queue' = Append(queue, HaveWork)
ScheduleWork ==
    /\ haveWork' = TRUE
    /\ queue' = IF haveWork THEN queue ELSE Append(queue, HaveWork)
-----------------------------------------------------------------------------
(* AddToIncomingQueue(), which returns early, without scheduling work,     *)
(* when the queue was not empty.                                           *)
Fresh == {t \in Tasks : status[t] = "new" /\ now + Delay[t] <= MaxTime}

(* Slip: one tick too many.                                                *)
DelayedRuntimeLate(t) == IF Delay[t] > 0 THEN now + Delay[t] + 1 ELSE Null
DelayedRuntime(t) == IF Delay[t] > 0 THEN now + Delay[t] ELSE Null

Push(t) ==
    /\ incoming' = Append(incoming, t)
    /\ runTime' = [runTime EXCEPT ![t] = DelayedRuntime(t)]
    /\ status' = [status EXCEPT ![t] = "queued"]

OwnThreadPost ==
    /\ InProgram \/ frames = <<>>
    /\ \E t \in Fresh : Push(t)
    /\ IF incoming = <<>> THEN ScheduleWork ELSE UNCHANGED scheduleVars
    /\ UNCHANGED <<work, delayed, nestableAllowed, frames, timeVars, now, posting>>

(* Another thread: the push under the lock, then InterlockedExchange, then *)
(* PostMessage or PostQueuedCompletionStatus.                              *)
PosterPushes(p) ==
    /\ posting[p] = "idle"
    /\ \E t \in Fresh : Push(t)
    /\ posting' = [posting EXCEPT ![p] = IF incoming = <<>> THEN "exchange" ELSE "idle"]
    /\ UNCHANGED <<work, delayed, nestableAllowed, frames, scheduleVars, timeVars, now>>

PosterExchanges(p) ==
    /\ posting[p] = "exchange"
    /\ haveWork' = TRUE
    /\ posting' = [posting EXCEPT ![p] = IF haveWork THEN "idle" ELSE "post"]
    /\ UNCHANGED <<taskVars, nestableAllowed, frames, queue, timeVars, now>>

PosterPosts(p) ==
    /\ posting[p] = "post"
    /\ queue' = Append(queue, HaveWork)
    /\ posting' = [posting EXCEPT ![p] = "idle"]
    /\ UNCHANGED <<taskVars, nestableAllowed, frames, haveWork, timeVars, now>>
-----------------------------------------------------------------------------
(* RunTask(), called by the top frame, up to the call of the closure.      *)
RunTask(t) ==
    /\ nestableAllowed' = FALSE
    /\ status' = [status EXCEPT ![t] = "running"]
    /\ Call(TRUE, [Frame("Task", "Program") EXCEPT !.task = t])

(* The element of delayed_work_queue_ that is on top.                      *)
EarliestIndex(s) ==
    CHOOSE i \in DOMAIN s : \A j \in DOMAIN s :
        runTime[s[i]] < runTime[s[j]] \/ (runTime[s[i]] = runTime[s[j]] /\ i <= j)
Earliest(s) == s[EarliestIndex(s)]

(* ScheduleDelayedWork(): all pumps note the time; those with a window set *)
(* a WM_TIMER, no sooner than USER_TIMER_MINIMUM, one tick, from now.      *)
ScheduleDelayedWork(time) ==
    /\ delayedWorkTime' = time
    /\ wmTimer' = CASE pump = "IO" -> wmTimer
                    [] time <= now -> now + 1
                    [] OTHER -> time

(* DoWork(): one turn of its loops.                                        *)
Reloaded == IF work = <<>> THEN [work |-> incoming, incoming |-> <<>>]
                           ELSE [work |-> work, incoming |-> incoming]

DoWorkFindsNothing ==
    /\ At("DoWork")
    /\ nestableAllowed => Reloaded.work = <<>>
    /\ Return(FALSE)
    /\ UNCHANGED <<taskVars, nestableAllowed, scheduleVars, timeVars, now, posting>>

DoWorkTakesTask ==
    /\ At("DoWork") /\ nestableAllowed
    /\ Reloaded.work # <<>>
    /\ incoming' = Reloaded.incoming
    /\ work' = Tail(Reloaded.work)
    /\ LET t == Head(Reloaded.work)
       IN  IF runTime[t] = Null
           THEN RunTask(t) /\ UNCHANGED <<delayed, timeVars>>
           ELSE /\ delayed' = Append(delayed, t)
                /\ IF Closure[Earliest(delayed')] = Closure[t]
                   THEN ScheduleDelayedWork(runTime[t]) ELSE UNCHANGED timeVars
                /\ UNCHANGED <<nestableAllowed, status, frames>>
    /\ UNCHANGED <<runTime, scheduleVars, now, posting>>

(* DoDelayedWork(&delayed_work_time_).  recent_time_ is never ahead of     *)
(* now, so the two tests of it come to one.                                *)
DoDelayedWorkFindsNothing ==
    /\ At("DoDelayedWork")
    /\ nestableAllowed /\ delayed # <<>> => runTime[Earliest(delayed)] > now
    /\ delayedWorkTime' = IF ~nestableAllowed \/ delayed = <<>> THEN Null
                          ELSE runTime[Earliest(delayed)]
    /\ Return(FALSE)
    /\ UNCHANGED <<taskVars, nestableAllowed, scheduleVars, wmTimer, now, posting>>

DoDelayedWorkTakesTask ==
    /\ At("DoDelayedWork") /\ nestableAllowed /\ delayed # <<>>
    /\ runTime[Earliest(delayed)] <= now
    /\ delayed' = RemoveAt(delayed, EarliestIndex(delayed))
    /\ delayedWorkTime' = IF delayed' = <<>> THEN delayedWorkTime
                          ELSE runTime[Earliest(delayed')]
    /\ RunTask(Earliest(delayed))
    /\ UNCHANGED <<incoming, work, runTime, scheduleVars, wmTimer, now, posting>>

(* DoIdleWork(): an earlier Quit() makes the pump quit.                    *)
DoIdleWork ==
    /\ At("DoIdleWork")
    /\ SetTop([After(FALSE) EXCEPT !.quit = @ \/ Top.quitReceived])
    /\ UNCHANGED <<taskVars, nestableAllowed, scheduleVars, timeVars, now, posting>>
-----------------------------------------------------------------------------
(* What a task or a handler of the program does.  It may enter one nested  *)
(* loop, which bounds the program.                                         *)
(* MessageLoop::Quit(), and QuitNow() through MessagePumpWin::Quit().      *)
Quit ==
    /\ InProgram /\ Running
    /\ \/ frames' = [frames EXCEPT ![Innermost].quitReceived = TRUE]
       \/ frames' = [frames EXCEPT ![Innermost].quit = TRUE]
    /\ UNCHANGED <<taskVars, nestableAllowed, scheduleVars, timeVars, now, posting>>

(* The task returns to RunTask(), or the handler to its caller.            *)
(* Slip: nestable_tasks_allowed_ is not set again.                         *)
AllowedAfterTask == nestableAllowed
AllowedAfter == nestableAllowed \/ Top.task # NoTask
Finish ==
    /\ InProgram
    /\ frames' = Front(frames)
    /\ nestableAllowed' = AllowedAfter
    /\ status' = IF Top.task = NoTask THEN status ELSE [status EXCEPT ![Top.task] = "ran"]
    /\ UNCHANGED <<incoming, work, delayed, runTime, scheduleVars, timeVars, now, posting>>

(* Run() and RunAllPending() from outside any loop.                        *)
RunFrame(first, allPending) == [Frame("Run", first) EXCEPT !.quitReceived = allPending]

(* A nested loop of kind `frame`, within a ScopedNestableTaskAllower when  *)
(* `allow` is set.  SetNestableTasksAllowed(true) schedules work if that   *)
(* changes the flag; the end of the scope restores the flag.  A loop that  *)
(* a task opens without one gets FALSE from each DoWork.                   *)
EnterNested(frame, allow) ==
    /\ InProgram /\ ~Top.nested /\ Len(frames) < MaxDepth
    /\ frames' = Append(Front(frames) \o <<[Top EXCEPT !.nested = TRUE]>>,
                        [frame EXCEPT !.restore = nestableAllowed, !.allower = allow])
    /\ nestableAllowed' = (nestableAllowed \/ allow)
    /\ IF allow /\ ~nestableAllowed THEN ScheduleWork ELSE UNCHANGED scheduleVars
    /\ UNCHANGED <<taskVars, timeVars, now, posting>>

Forbids(frame) == frame.fn = "Run" /\ ~frame.restore /\ ~frame.allower

(* Run breaks out of its loop once should_quit is set, or goes on with the *)
(* stage `next`, where a turn that starts again forgets what it did.       *)
(* Slip: it tests the flag once a turn.                                    *)
MustBreakOnceATurn == Top.quit /\ Top.pc = "DoIdleWork"
MustBreak == Top.quit
RunBreaks ==
    /\ Returned("Run") /\ MustBreak
    /\ frames' = Front(frames)
    /\ nestableAllowed' = Top.restore

RunGoesOn(next, first) ==
    /\ Returned("Run") /\ ~MustBreak
    /\ SetTop([Top EXCEPT !.pc = next, !.done = FALSE, !.more = @ /\ next # first])
    /\ UNCHANGED nestableAllowed

Tick == /\ now <= MaxTime
        /\ now' = now + 1
        /\ UNCHANGED <<taskVars, nestableAllowed, frames, scheduleVars, timeVars, posting>>
=============================================================================
