-------------------------- MODULE MessagePumpDefault --------------------------
(***************************************************************************)
(* base/message_pump_default.{h,cc}: the pump of a plain MessageLoop.  One *)
(* keep_running_ flag serves every nested Run, an auto-reset event wakes a *)
(* sleeping Run, and delayed_work_time_ bounds its sleep.  Times are small *)
(* naturals; 0 is the null TimeTicks.  The stages of Run are actions of    *)
(* MessageLoop, which holds the frames of the nested calls.                *)
(***************************************************************************)
EXTENDS Integers

CONSTANT MaxTime             \* bound on the clock

ASSUME MaxTimeAssumption == MaxTime \in Nat \ {0}

VARIABLES
    keepRunning,             \* keep_running_
    event,                   \* event_: is the auto-reset event signalled?
    delayedWorkTime,         \* delayed_work_time_
    now                      \* TimeTicks::Now()

pumpVars == <<keepRunning, event, delayedWorkTime>>

Null == 0
Times == 0 .. MaxTime

PumpTypeOK == /\ keepRunning \in BOOLEAN
              /\ event \in BOOLEAN
              /\ delayedWorkTime \in Times
              /\ now \in Times \ {Null}

PumpInit == /\ keepRunning = TRUE
            /\ event = FALSE
            /\ delayedWorkTime = Null
            /\ now = 1

(* Quit(): the innermost Run breaks out of its loop.                       *)
PumpQuit == keepRunning' = FALSE

(* ScheduleWork(): signal the event, from any thread.                      *)
(* Slip: a ScheduleWork that does not signal.                              *)
ScheduleWorkLost == UNCHANGED event
ScheduleWork == event' = TRUE

(* What event_.Wait() or TimedWait() sees: the event, or the time-out of a *)
(* timed wait, whose deadline is delayed_work_time_.                       *)
(* Slip: every wait is untimed.                                            *)
TimedOutNever == FALSE
TimedOut == delayedWorkTime # Null /\ delayedWorkTime <= now

(* The clock advances on its own.                                          *)
Tick == now < MaxTime /\ now' = now + 1
=============================================================================
