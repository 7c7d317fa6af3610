------------------------------ MODULE Primitives -----------------------------
(***************************************************************************)
(* What the threads of a program share, each under every use its contract   *)
(* allows. A behaviour is about one of them: the condition variable of      *)
(* Windows XP, used by threads that call anything in any order, some of     *)
(* which never take the lock and only signal; a Watchdog on such a          *)
(* condition variable; static objects and their destruction at exit; or an  *)
(* object with weak pointers.                                               *)
(***************************************************************************)
EXTENDS Watchdog, StaticInstances, WeakReferences

CONSTANT Signalers  \* the threads that only signal

ASSUME SignalersAssumption == Signalers \subseteq Thread

VARIABLE users  \* whom this behaviour is about
conditionVars == <<cvVars, watchdogVars>>
vars == <<users, conditionVars, staticsVars, weakVars>>

Init ==
    /\ users \in {"anyone", "watchdog", "statics", "weak"}
    /\ thread = IF users = "watchdog" THEN "starting" ELSE "none"
    /\ CVInit /\ WatchdogInit /\ StaticsInit /\ WeakInit

(* A call of any thread, as the contract of the class allows it.            *)
AnyoneCalls(t) ==
    \/ t \notin Signalers /\ (Acquire(t) \/ Release(t))
    \/ t \notin Signalers /\ \E hasTimeout \in BOOLEAN : BeginWait(t, hasTimeout)
    \/ Signal(t) \/ Broadcast(t)

OnCondition(A) == A /\ UNCHANGED <<users, staticsVars, weakVars>>
Inside(A) == OnCondition(A /\ UNCHANGED watchdogVars)
AnyoneStep(t) == users = "anyone" /\ Inside(AnyoneCalls(t) \/ TimeOut(t))
InWatchdog(A) == users = "watchdog" /\ OnCondition(A)
OnStatics(A) == users = "statics" /\ A /\ UNCHANGED <<users, conditionVars, weakVars>>
OnWeakPointers(A) == users = "weak" /\ A /\ UNCHANGED <<users, conditionVars, staticsVars>>

Next ==
    \/ \E t \in Thread : Inside(InsideStep(t)) \/ Inside(EndWait(t)) \/ AnyoneStep(t)
    \/ InWatchdog(OwnerCalls \/ OwnerSignals \/ Join)
    \/ InWatchdog(ThreadStep \/ DeadlinePasses \/ Clock \/ Breaks)
    \/ OnStatics(StaticsStep)
    \/ OnWeakPointers(WeakStep)

Spec == Init /\ [][Next]_vars

(* Fairness: a thread that is not blocked goes on; one that wants a lock    *)
(* gets it, if it is free again and again; time passes and timeouts expire. *)
(* A thread that spins goes on when what it spins on stays so. No thread    *)
(* has to call anything or to release the user lock, except that the        *)
(* destructor of a Watchdog goes on.                                        *)
Spins(t) == \E i \in Instances : WaitForInstance(t, i)
Destroying == owner \in {"destroying", "notJoinable"} /\ OwnerCalls
Fairness ==
    /\ \A t \in Thread : WF_vars(Inside(InsideStep(t)))
    /\ \A t \in Thread \ Signalers : SF_vars(Inside(EndWait(t)))
    /\ WF_vars(InWatchdog(OwnerSignals \/ Join \/ Destroying))
    /\ WF_vars(InWatchdog(ThreadStep \/ DeadlinePasses))
    /\ WF_vars(InWatchdog(Clock))
    /\ \A t \in Callers : /\ SF_vars(OnStatics(CallerStep(t)))
                          /\ WF_vars(OnStatics(Spins(t)))
    /\ WF_vars(OnStatics(ProcessCallbacks))

FairSpec == Spec /\ Fairness

-----------------------------------------------------------------------------
TypeOK ==
    /\ CVTypeOK /\ WatchdogTypeOK /\ StaticsTypeOK /\ WeakTypeOK
    /\ users \in {"anyone", "watchdog", "statics", "weak"}

(* The thread alarms only for an arming that is in force and has not        *)
(* alarmed yet, Duration after its start time at the earliest, and not on   *)
(* account of the last recorded break in the debugger if the watchdog was   *)
(* armed before that break (watchdog.cc 126-145); breaks before the last    *)
(* are forgotten.  A tick of the clock is a millisecond or more: line 129   *)
(* drops the rest, so that the alarm may come less than a millisecond early. *)
AlarmsOnlyWhenDue ==
    [][thread' = "alarming" /\ thread # "alarming" =>
         /\ armedFor # Never
         /\ now - armedFor >=
              Duration + (IF lastBreak.time > armedFor THEN lastBreak.delay ELSE 0)]_vars

ArmedWatchdogActs ==
    \A start \in 0 .. MaxTime - Duration :
        (state = "ARMED" /\ startTime = start) ~>
            (state # "ARMED" \/ startTime # start \/ thread = "exited")
DestructorReturns == (owner = "destroying") ~> (owner = "gone")
RetriesDead(t) ==
    \E i \in StaticMemory : stage[t][i] # "out" /\ object[i] = "destroyed"
GetReturns == \A t \in Callers : ~ Outside(t) ~> (Outside(t) \/ RetriesDead(t))

(* What threads that sleep, wait and spin are promised. An armed watchdog   *)
(* does not sleep through its time (watchdog.cc 90-100, 111-157): if its    *)
(* start time leaves room for the alarm before the clock stops, it alarms,  *)
(* moves its start time over a break, is armed anew or disarmed; unless its *)
(* thread was told to end before. The destructor of a watchdog returns,     *)
(* whatever the watchdog is doing (lines 57-64). A call that gets a static  *)
(* object returns (lazy_instance.cc 16-39, singleton.cc 11-28), unless it   *)
(* is of a static-memory singleton after its destruction: there each call   *)
(* may find another one trying.                                             *)
NobodyWaitsForever == ArmedWatchdogActs /\ DestructorReturns /\ GetReturns
=============================================================================
