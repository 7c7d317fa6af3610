------------------------------- MODULE Watchdog ------------------------------
(***************************************************************************)
(* A Watchdog, its own thread and the thread that owns it, on the condition *)
(* variable of Windows XP. The owner arms and disarms the watchdog, and     *)
(* destroys it in the end; the thread sleeps until the armed time is over   *)
(* and alarms. A debugger that breaks on an alarm, of this watchdog or of   *)
(* another one, stops every thread while time goes on.                      *)
(***************************************************************************)
EXTENDS Integers, ConditionVariableXP

CONSTANTS WatchdogThread, Owner, \* two threads
          Duration, \* duration_
          MaxTime,  \* bound: the clock stops here
          MaxBreak  \* bound: the longest break in the debugger

ASSUME WatchdogAssumption ==
    /\ WatchdogThread \in Thread /\ Owner \in Thread /\ WatchdogThread # Owner
    /\ Duration \in Nat /\ MaxTime \in Nat /\ MaxBreak \in Nat

Never == -1  \* TimeTicks()
NoBreak == [time |-> Never, delay |-> 0]

VARIABLES
    state,      \* state_
    startTime,  \* start_time_
    now,        \* TimeTicks::Now(); a tick is more than the 2 ms of a normal alarm
    lastBreak,  \* g_last_debugged_alarm_time and _delay
    alarmTime,  \* last_alarm_time
    deadline,   \* when the timed wait of the watchdog's thread ends
    thread,     \* where ThreadMain is
    owner,      \* what the owner is doing
    otherBreak, \* a break on another watchdog's alarm that it has yet to record
    armedFor    \* history: the start time of the arming in force, or Never
watchVars == <<state, startTime>>
breakVars == <<lastBreak, otherBreak>>
watchdogVars == <<watchVars, now, breakVars, alarmTime, deadline, thread, owner, armedFor>>

WatchdogInit ==
    /\ state = "DISARMED" /\ startTime = Never /\ now = 0
    /\ lastBreak = NoBreak /\ otherBreak = NoBreak
    /\ alarmTime = Never /\ deadline = Never /\ armedFor = Never
    /\ owner = "idle"

-----------------------------------------------------------------------------
(* The owner's calls, each with its critical section in one step.           *)

(* Slip: Arm leaves the thread to wake up by itself, as Disarm does.        *)
ArmAtStartTimeSilently(start) ==
    /\ owner = "idle" /\ holder = NoThread
    /\ startTime' = start /\ armedFor' = start
    /\ state' = "ARMED"
    /\ UNCHANGED owner

(* Arm and ArmSomeTimeDeltaAgo: a start time now or in the past.            *)
ArmAtStartTime(start) ==
    /\ owner = "idle" /\ holder = NoThread
    /\ startTime' = start /\ armedFor' = start
    /\ state' = "ARMED"
    /\ owner' = "arming"

Disarm ==
    /\ owner = "idle" /\ holder = NoThread
    /\ state' = "DISARMED" /\ armedFor' = Never
    /\ UNCHANGED <<startTime, owner>>

(* Cleanup of the owner's own accord, or by the destructor.                 *)
Cleanup ==
    /\ holder = NoThread
    /\ \/ owner = "idle" /\ owner' = "cleaning"
       \/ owner = "notJoinable" /\ owner' = "ending"
    /\ state' = "SHUTDOWN" /\ armedFor' = Never
    /\ UNCHANGED startTime

(* The destructor cleans up unless the thread has ended already; it may end *)
(* after this question.                                                     *)
IsJoinable ==
    /\ owner = "destroying" /\ holder = NoThread
    /\ owner' = IF state = "JOINABLE" THEN "lastSignal" ELSE "notJoinable"
    /\ UNCHANGED <<watchVars, armedFor>>

Destroy ==
    /\ owner = "idle"
    /\ owner' = "destroying"
    /\ UNCHANGED <<watchVars, armedFor>>

(* What follows the signal of each call.                                    *)
AfterSignal ==
    [arming |-> "idle", cleaning |-> "idle", ending |-> "lastSignal", lastSignal |-> "joining"]

OwnerCalls ==
    /\ at[Owner] = "outside"
    /\ \/ \E start \in 0 .. now : ArmAtStartTime(start)
       \/ Disarm \/ Cleanup \/ IsJoinable \/ Destroy
    /\ UNCHANGED <<cvVars, now, breakVars, alarmTime, deadline, thread>>

OwnerSignals ==
    /\ owner \in DOMAIN AfterSignal
    /\ Signal(Owner)
    /\ owner' = AfterSignal[owner]
    /\ UNCHANGED <<watchVars, now, breakVars, alarmTime, deadline, thread, armedFor>>

(* The end of the destructor: PlatformThread::Join.                         *)
Join ==
    /\ owner = "joining" /\ at[Owner] = "outside" /\ thread = "exited"
    /\ owner' = "gone"
    /\ UNCHANGED <<cvVars, watchVars, now, breakVars, alarmTime, deadline, thread, armedFor>>

-----------------------------------------------------------------------------
(* ThreadMain. Its lock_ is the user lock of the condition variable; at     *)
(* "checking" the thread holds it.                                          *)
Checking == thread = "checking" /\ at[WatchdogThread] = "outside"
Remaining == Duration - (now - startTime)

ThreadLocks ==
    /\ thread = "starting" /\ Acquire(WatchdogThread)
    /\ thread' = "checking"
    /\ UNCHANGED <<watchVars, now, breakVars, alarmTime, deadline, owner, armedFor>>

(* continue: the lock is released and taken again.                          *)
ThreadUnlocks ==
    /\ thread = "continuing" /\ Release(WatchdogThread)
    /\ thread' = "starting"
    /\ deadline' = Never
    /\ UNCHANGED <<watchVars, now, breakVars, alarmTime, owner, armedFor>>

(* Slip: a thread that is told to shut down waits as a disarmed one does.   *)
WaitsUnarmed == state \in {"DISARMED", "SHUTDOWN"}

WaitsDisarmed == state = "DISARMED"

ThreadWaits ==
    /\ Checking /\ WaitsDisarmed
    /\ BeginWait(WatchdogThread, FALSE)
    /\ UNCHANGED <<watchVars, now, breakVars, alarmTime, deadline, thread, owner, armedFor>>

ThreadExits ==
    /\ Checking /\ state = "SHUTDOWN" /\ ~ WaitsDisarmed
    /\ state' = "JOINABLE"
    /\ Release(WatchdogThread)
    /\ thread' = "exited"
    /\ UNCHANGED <<startTime, now, breakVars, alarmTime, deadline, owner, armedFor>>

ThreadSleeps ==
    /\ Checking /\ state = "ARMED" /\ Remaining > 0
    /\ BeginWait(WatchdogThread, TRUE)
    /\ deadline' = now + Remaining
    /\ thread' = "continuing"
    /\ UNCHANGED <<watchVars, now, breakVars, alarmTime, owner, armedFor>>

(* Slip: a break in the debugger counts as time the watched thread took.    *)
FalseAlarmNever == FALSE

FalseAlarm == lastBreak.time > startTime

(* The watchdog was armed before the last break: its start time moves over  *)
(* the break, once; if that is not enough, it is disarmed.                  *)
SkipBreak ==
    /\ Checking /\ state = "ARMED" /\ Remaining <= 0 /\ FalseAlarm
    /\ startTime' = startTime + lastBreak.delay
    /\ IF lastBreak.time > startTime'
       THEN state' = "DISARMED" /\ armedFor' = Never
       ELSE UNCHANGED <<state, armedFor>>
    /\ thread' = "continuing"
    /\ UNCHANGED <<cvVars, now, breakVars, alarmTime, deadline, owner>>

(* The decision to alarm; Alarm is called without the lock.                 *)
DecideToAlarm ==
    /\ Checking /\ state = "ARMED" /\ Remaining <= 0 /\ ~ FalseAlarm
    /\ state' = "DISARMED" /\ armedFor' = Never
    /\ alarmTime' = now
    /\ Release(WatchdogThread)
    /\ thread' = "alarming"
    /\ UNCHANGED <<startTime, now, breakVars, deadline, owner>>

Alarm ==
    /\ thread = "alarming"
    /\ \E time \in 0 .. MaxBreak : now + time <= MaxTime /\ now' = now + time
    /\ thread' = "alarmed"
    /\ UNCHANGED <<cvVars, watchVars, breakVars, alarmTime, deadline, owner, armedFor>>

(* The lock is taken again, and a break recorded if the alarm took long.    *)
AfterAlarm ==
    /\ thread = "alarmed" /\ Acquire(WatchdogThread)
    /\ lastBreak' = IF now = alarmTime THEN lastBreak
                    ELSE [time |-> alarmTime, delay |-> now - alarmTime]
    /\ alarmTime' = Never
    /\ thread' = "continuing"
    /\ UNCHANGED <<watchVars, now, otherBreak, deadline, owner, armedFor>>

(* The alarm of another watchdog stops in the debugger; its thread records  *)
(* the break when it runs again.                                            *)
OtherBreaks ==
    /\ otherBreak = NoBreak
    /\ \E time \in 1 .. MaxBreak :
         /\ now + time <= MaxTime
         /\ now' = now + time
         /\ otherBreak' = [time |-> now, delay |-> time]
    /\ UNCHANGED <<cvVars, watchVars, lastBreak, alarmTime, deadline, thread, owner, armedFor>>

OtherRecords ==
    /\ otherBreak # NoBreak
    /\ lastBreak' = otherBreak /\ otherBreak' = NoBreak
    /\ UNCHANGED <<cvVars, watchVars, now, alarmTime, deadline, thread, owner, armedFor>>

-----------------------------------------------------------------------------
ThreadStep == ThreadLocks \/ ThreadUnlocks \/ ThreadWaits \/ ThreadExits \/ ThreadSleeps
                \/ SkipBreak \/ DecideToAlarm \/ Alarm \/ AfterAlarm

(* The timeout of the watchdog's timed wait.                                *)
DeadlinePasses ==
    /\ now >= deadline /\ TimeOut(WatchdogThread)
    /\ UNCHANGED watchdogVars

Clock ==
    /\ now < MaxTime /\ now' = now + 1
    /\ UNCHANGED <<cvVars, watchVars, breakVars, alarmTime, deadline, thread, owner, armedFor>>

Breaks == OtherBreaks \/ OtherRecords

-----------------------------------------------------------------------------
WatchdogTypeOK ==
    /\ state \in {"ARMED", "DISARMED", "SHUTDOWN", "JOINABLE"}
    /\ now \in 0 .. MaxTime
    /\ startTime \in Never .. MaxTime
    /\ deadline \in Never .. MaxTime + Duration
    /\ alarmTime \in Never .. MaxTime /\ armedFor \in Never .. MaxTime
    /\ lastBreak \in [time : Never .. MaxTime, delay : 0 .. MaxTime]
    /\ otherBreak \in [time : Never .. MaxTime, delay : 0 .. MaxTime]
    /\ thread \in {"none", "starting", "checking", "continuing", "alarming", "alarmed", "exited"}
    /\ owner \in {"idle", "destroying", "notJoinable", "joining", "gone"} \union DOMAIN AfterSignal
=============================================================================
