-------------------------------- MODULE Timer --------------------------------
(***************************************************************************)
(* OneShotTimer, RepeatingTimer and DelayTimer on the thread's loop. A      *)
(* timer points to its delayed task and the task points back; a task that   *)
(* was orphaned stays in the loop and must do nothing when it runs.         *)
(***************************************************************************)
EXTENDS Thread

CONSTANTS Timers,     \* timer objects
          Kind,       \* of each: "OneShot", "Repeating" or "Delay"
          Delay,      \* of each: the delay the program uses it with
          TimerTasks  \* addresses of TimerTask objects; bounds those that exist at once

NoTimer == "no timer"

ASSUME TimerAssumption ==
    /\ NoTimer \notin Timers
    /\ Kind \in [Timers -> {"OneShot", "Repeating", "Delay"}]
    /\ Delay \in [Timers -> Nat \ {0}]
    /\ TimerTasks \subseteq Nat \ {0}

VARIABLES
    timerOf,     \* timer_ of each TimerTask: a timer, or NoTimer
    delayedTask, \* delayed_task_ of each timer: a task, or 0
    period,      \* delay_ of each TimerTask
    toTrigger,   \* of each DelayTimer: the time left to trigger_time_, -1 if it is null
    usable,      \* timers that exist
    waited       \* history: the time since each was started or reset, up to its delay; -1 if off
timerVars == <<timerOf, delayedTask, period, toTrigger, usable, waited>>

TimerInit ==
    /\ timerOf = [k \in TimerTasks |-> NoTimer]
    /\ delayedTask = [t \in Timers |-> 0]
    /\ period = [k \in TimerTasks |-> 0]
    /\ toTrigger = [t \in Timers |-> -1]
    /\ waited = [t \in Timers |-> -1]

IsRunning(t) == delayedTask[t] # 0

(* A TimerTask is owned by the loop's task, running or pending.             *)
Exists(k) == \/ busy \in {Task("timer", k), Task("callback", k)}
             \/ \E i \in DOMAIN delayed : delayed[i].task = Task("timer", k)
Free == {k \in TimerTasks : ~ Exists(k)}

(* Slip: the task of a timer that is stopped or reset is not orphaned.      *)
NotOrphaned(t) == timerOf

(* timer_ of each task after OrphanDelayedTask.                             *)
Orphaned(t) == IF IsRunning(t) THEN [timerOf EXCEPT ![delayedTask[t]] = NoTimer] ELSE timerOf

(* A new task for t, where timers is timer_ of the tasks there are.          *)
PostTimerTask(t, delay, timers) ==
    \E k \in Free :
        /\ \A other \in Free : k <= other
        /\ timerOf' = [timers EXCEPT ![k] = t]
        /\ delayedTask' = [delayedTask EXCEPT ![t] = k]
        /\ period' = [period EXCEPT ![k] = delay]
        /\ delayed' = InsertByRunTime(delayed, [task |-> Task("timer", k), left |-> delay])

InitiateDelayedTask(t, delay) == PostTimerTask(t, delay, Orphaned(t))

OrphanDelayedTask(t) ==
    /\ timerOf' = Orphaned(t)
    /\ delayedTask' = [delayedTask EXCEPT ![t] = 0]

-----------------------------------------------------------------------------
(* Start, Stop and Reset, which the program calls on the loop's thread.     *)
StartTimer(t) ==
    /\ ProgramRuns /\ t \in usable /\ Kind[t] # "Delay" /\ ~ IsRunning(t)
    /\ InitiateDelayedTask(t, Delay[t])
    /\ waited' = [waited EXCEPT ![t] = 0]
    /\ UNCHANGED <<toTrigger, usable>>

ResetTimer(t) ==
    /\ ProgramRuns /\ t \in usable /\ Kind[t] # "Delay" /\ IsRunning(t)
    /\ InitiateDelayedTask(t, period[delayedTask[t]])
    /\ waited' = [waited EXCEPT ![t] = 0]
    /\ UNCHANGED <<toTrigger, usable>>

StopTimer(t) ==
    /\ ProgramRuns /\ t \in usable /\ Kind[t] # "Delay" /\ IsRunning(t)
    /\ OrphanDelayedTask(t)
    /\ waited' = [waited EXCEPT ![t] = -1]
    /\ UNCHANGED <<delayed, period, toTrigger, usable>>

(* The destructor, perhaps after the thread has ended.                      *)
DestroyTimer(t) ==
    /\ ProgramRuns \/ main = "none"
    /\ t \in usable
    /\ OrphanDelayedTask(t)
    /\ usable' = usable \ {t}
    /\ waited' = [waited EXCEPT ![t] = -1]
    /\ UNCHANGED <<delayed, period, toTrigger>>

(* DelayTimer: a task that will run soon enough is left to find out, when   *)
(* it runs, how long is left.                                               *)
DelayFor(t, delay) ==
    /\ toTrigger' = [toTrigger EXCEPT ![t] = delay]
    /\ IF IsRunning(t) /\ period[delayedTask[t]] <= delay
       THEN UNCHANGED <<timerOf, delayedTask, period, delayed>>
       ELSE InitiateDelayedTask(t, delay)

ResetDelayTimer(t) ==
    /\ ProgramRuns /\ t \in usable /\ Kind[t] = "Delay"
    /\ DelayFor(t, Delay[t])
    /\ waited' = [waited EXCEPT ![t] = 0]
    /\ UNCHANGED usable

TimerCall(t) ==
    /\ StartTimer(t) \/ ResetTimer(t) \/ StopTimer(t) \/ DestroyTimer(t) \/ ResetDelayTimer(t)
    /\ UNCHANGED <<queue, busy, mainVars, ownerVars, originVars>>

-----------------------------------------------------------------------------
(* TimerTask::Run, to the call of the receiver's method. The program may    *)
(* call its timers in that method: the task is busy until FinishTimerTask.  *)
TakeTimerTask ==
    /\ TakeDelayedTask
    /\ UNCHANGED <<queue, mainVars, ownerVars, originVars, timerVars>>

Calls(t) == waited' = [waited EXCEPT ![t] = IF Kind[t] = "Repeating" THEN 0 ELSE -1]

Cleared(k) == [timerOf EXCEPT ![k] = NoTimer]

(* The timer forgets the task, unless it has another one by now.            *)
ClearBaseTimer(k) ==
    /\ delayedTask' = IF timerOf[k] \in Timers /\ delayedTask[timerOf[k]] = k
                      THEN [delayedTask EXCEPT ![timerOf[k]] = 0] ELSE delayedTask
    /\ timerOf' = Cleared(k)

RunOrphan(k) == timerOf[k] = NoTimer /\ UNCHANGED <<delayed, timerVars>>

RunOneShot(k, t) ==
    /\ timerOf[k] = t /\ Kind[t] = "OneShot"
    /\ ClearBaseTimer(k)
    /\ Calls(t)
    /\ UNCHANGED <<delayed, period, toTrigger, usable>>

RunRepeating(k, t) ==
    /\ timerOf[k] = t /\ Kind[t] = "Repeating"
    /\ InitiateDelayedTask(t, period[k])
    /\ Calls(t)
    /\ UNCHANGED <<toTrigger, usable>>

(* DelayTimer::Check, the method of a one-shot timer: if trigger_time_ has  *)
(* not come, it waits for the rest.                                         *)
TooEarly(t) == toTrigger[t] > 0

RunDelayCheck(k, t) ==
    /\ timerOf[k] = t /\ Kind[t] = "Delay"
    /\ IF TooEarly(t)
       THEN PostTimerTask(t, toTrigger[t], Cleared(k)) /\ UNCHANGED waited
       ELSE ClearBaseTimer(k) /\ Calls(t) /\ UNCHANGED <<delayed, period>>
    /\ UNCHANGED <<toTrigger, usable>>

RunTimerTask ==
    /\ main = "running" /\ busy.kind = "timer"
    /\ \/ RunOrphan(busy.id)
       \/ \E t \in Timers :
            RunOneShot(busy.id, t) \/ RunRepeating(busy.id, t) \/ RunDelayCheck(busy.id, t)
    /\ busy' = Task("callback", busy.id)
    /\ UNCHANGED <<queue, mainVars, ownerVars, originVars>>

(* The method returns and the loop deletes the task.                        *)
FinishTimerTask ==
    /\ main = "running" /\ busy.kind = "callback"
    /\ ClearBaseTimer(busy.id)
    /\ busy' = Null
    /\ period' = [period EXCEPT ![busy.id] = 0]
    /\ UNCHANGED <<queue, delayed, mainVars, ownerVars, originVars, toTrigger, usable, waited>>

(* ~TimerTask of every pending task, in ~MessageLoop.                       *)
TimerTasksDeleted ==
    LET pending == {k \in TimerTasks : Exists(k)}
    IN  /\ delayedTask' = [t \in Timers |-> IF delayedTask[t] \in pending THEN 0
                                            ELSE delayedTask[t]]
        /\ timerOf' = [k \in TimerTasks |-> IF k \in pending THEN NoTimer ELSE timerOf[k]]
        /\ waited' = [t \in Timers |-> IF delayedTask[t] \in pending THEN -1 ELSE waited[t]]
        /\ period' = [k \in TimerTasks |-> 0]
        /\ UNCHANGED <<toTrigger, usable>>

TimersAge ==
    /\ waited' = [t \in Timers |-> IF waited[t] \in 0 .. Delay[t] - 1 THEN waited[t] + 1
                                   ELSE waited[t]]
    /\ toTrigger' = [t \in Timers |-> IF toTrigger[t] > 0 THEN toTrigger[t] - 1
                                      ELSE toTrigger[t]]
    /\ UNCHANGED <<timerOf, delayedTask, period, usable>>
=============================================================================
