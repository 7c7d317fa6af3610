-------------------------- MODULE PrimitivesProofs ---------------------------
(***************************************************************************)
(* What is proved of Primitives, for any threads, times, static objects,    *)
(* flags and weak references: the steps of each part keep that part's       *)
(* invariant, and no other part's steps touch it.                           *)
(***************************************************************************)
EXTENDS Primitives, WatchdogProofs, LifetimesProofs

(* A step of the program is one of the static objects or leaves them alone, *)
(* and one of the weak pointers or leaves those alone.                      *)
LEMMA PartsApart ==
    ASSUME [Next]_vars
    PROVE  [StaticsStep]_staticsVars /\ [WeakStep]_weakVars
<1>1. CASE UNCHANGED vars
  BY <1>1 DEF vars, staticsVars, weakVars
<1>2. ASSUME NEW t \in Thread, Inside(InsideStep(t)) \/ Inside(EndWait(t)) \/ AnyoneStep(t)
      PROVE  UNCHANGED staticsVars /\ UNCHANGED weakVars
  BY <1>2 DEF Inside, OnCondition, AnyoneStep
<1>3. CASE \/ InWatchdog(OwnerCalls \/ OwnerSignals \/ Join)
           \/ InWatchdog(ThreadStep \/ DeadlinePasses \/ Clock \/ Breaks)
  BY <1>3 DEF InWatchdog, OnCondition
<1>4. CASE OnStatics(StaticsStep)
  BY <1>4 DEF OnStatics
<1>5. CASE OnWeakPointers(WeakStep)
  BY <1>5 DEF OnWeakPointers
<1> QED
  BY <1>1, <1>2, <1>3, <1>4, <1>5 DEF Next

(* The owner of a watchdog and the watchdog's thread do nothing with the    *)
(* condition variable and its lock but to call them.                        *)
LEMMA WatchdogOnlyCalls ==
    ASSUME OwnerCalls \/ OwnerSignals \/ Join \/ ThreadStep \/ DeadlinePasses \/ Clock \/ Breaks
    PROVE  [CVStep]_cvVars
<1> USE WatchdogAssumption DEF CVStep, CVStepOf
<1>1. CASE OwnerCalls \/ Join \/ Clock \/ Breaks
  BY <1>1 DEF OwnerCalls, Join, Clock, Breaks, OtherBreaks, OtherRecords
<1>2. CASE OwnerSignals
  BY <1>2 DEF OwnerSignals
<1>3. CASE DeadlinePasses
  BY <1>3 DEF DeadlinePasses
<1>4. CASE ThreadLocks \/ ThreadUnlocks \/ ThreadExits \/ DecideToAlarm \/ AfterAlarm
  BY <1>4 DEF ThreadLocks, ThreadUnlocks, ThreadExits, DecideToAlarm, AfterAlarm
<1>5. CASE ThreadWaits \/ ThreadSleeps
  BY <1>5 DEF ThreadWaits, ThreadSleeps
<1>6. CASE SkipBreak \/ Alarm
  BY <1>6 DEF SkipBreak, Alarm
<1> QED
  BY <1>1, <1>2, <1>3, <1>4, <1>5, <1>6 DEF ThreadStep

(* So does every step of the program, or it leaves them alone.              *)
LEMMA ConditionPart ==
    ASSUME [Next]_vars
    PROVE  [CVStep]_cvVars
<1>1. CASE UNCHANGED vars
  BY <1>1 DEF vars, conditionVars
<1>2. ASSUME NEW t \in Thread, Inside(InsideStep(t)) \/ Inside(EndWait(t)) \/ AnyoneStep(t)
      PROVE  CVStep
  BY <1>2 DEF Inside, OnCondition, AnyoneStep, AnyoneCalls, CVStep, CVStepOf
<1>3. CASE \/ InWatchdog(OwnerCalls \/ OwnerSignals \/ Join)
           \/ InWatchdog(ThreadStep \/ DeadlinePasses \/ Clock \/ Breaks)
  BY <1>3, WatchdogOnlyCalls DEF InWatchdog, OnCondition
<1>4. CASE OnStatics(StaticsStep) \/ OnWeakPointers(WeakStep)
  BY <1>4 DEF OnStatics, OnWeakPointers, conditionVars
<1> QED
  BY <1>1, <1>2, <1>3, <1>4 DEF Next

LEMMA ConditionInvariant == Spec => []CVInv
<1>1. Init => CVInv
  BY CVInitInv DEF Init
<1>2. CVInv /\ [Next]_vars => CVInv'
  BY ConditionPart, CVStepInv
<1> QED
  BY <1>1, <1>2, PTL DEF Spec

(* Every event that the condition variable allocated is in one wait or in   *)
(* its recycling list, always (condition_variable_win.cc 305-325).          *)
THEOREM EventsAreConserved == Spec => []EventsConserved
<1>1. CVInv => EventsConserved
  BY ApartIsConserved DEF CVInv
<1> QED
  BY <1>1, ConditionInvariant, PTL

(* A thread whose event a Signal or Broadcast took wakes up, though it has  *)
(* not blocked yet or its event had another user a moment ago               *)
(* (condition_variable_win.cc 240-289).                                     *)
THEOREM NoSignalIsLost == Spec => []NoSignalLost
<1>1. CVInv => NoSignalLost
  BY DEF CVInv
<1> QED
  BY <1>1, ConditionInvariant, PTL

(* WinXPCondVar does nothing that a condition variable may not do, whoever  *)
(* calls it in whatever order (condition_variable_win.cc 229-325); that a   *)
(* revived thread returns is not proved.                                    *)
THEOREM IsConditionVariable == Spec => CV!SafetySpec
<1>1. Init => CV!Init
  BY CVInitRefines DEF Init
<1>2. CVInv /\ [Next]_vars => [CV!Next]_CV!vars
  BY ConditionPart, CVStepRefines
<1> QED
  BY <1>1, <1>2, ConditionInvariant, PTL DEF Spec, CV!SafetySpec

(* A static object is created by one thread at a time, is whole for whoever *)
(* has a pointer to it, and is destroyed once, before those it was made     *)
(* from, whatever the threads and the exit interleave                       *)
(* (lazy_instance.cc 15-58, singleton.h 232-287, at_exit.cc 54-75).         *)
THEOREM StaticObjectsKeepTheirPromises == Spec => []StaticsPromises
<1>1. Init => StaticsInv
  BY StaticsInitInv DEF Init
<1>2. StaticsInv /\ [Next]_vars => StaticsInv'
  BY PartsApart, StaticsStepInv
<1>3. StaticsInv => StaticsPromises
  BY DEF StaticsInv
<1> QED
  BY <1>1, <1>2, <1>3, PTL DEF Spec

(* A weak pointer is valid exactly while the object it was made for has     *)
(* not invalidated its weak pointers, and flags live as long as they are    *)
(* held, whoever copies and destroys weak pointers meanwhile                *)
(* (weak_ptr.cc 46-63, ref_counted.cc 75-94).                               *)
THEOREM WeakPointersKeepTheirPromises == Spec => []WeakPromises
<1>1. Init => WeakInv
  BY WeakInitInv DEF Init
<1>2. WeakInv /\ [Next]_vars => WeakInv'
  BY PartsApart, WeakStepInv
<1>3. WeakInv => WeakPromises
  BY DEF WeakInv
<1> QED
  BY <1>1, <1>2, <1>3, PTL DEF Spec

(* The steps of the other parts leave the watchdog alone.                   *)
LEMMA WatchdogPart ==
    ASSUME [Next]_vars
    PROVE  [WatchdogStep]_watchdogVars
<1>1. CASE UNCHANGED vars
  BY <1>1 DEF vars, conditionVars
<1>2. ASSUME NEW t \in Thread, Inside(InsideStep(t)) \/ Inside(EndWait(t)) \/ AnyoneStep(t)
      PROVE  UNCHANGED watchdogVars
  BY <1>2 DEF Inside, OnCondition, AnyoneStep
<1>3. CASE \/ InWatchdog(OwnerCalls \/ OwnerSignals \/ Join)
           \/ InWatchdog(ThreadStep \/ DeadlinePasses \/ Clock \/ Breaks)
  BY <1>3 DEF InWatchdog, OnCondition, WatchdogStep
<1>4. CASE OnStatics(StaticsStep) \/ OnWeakPointers(WeakStep)
  BY <1>4 DEF OnStatics, OnWeakPointers, conditionVars
<1> QED
  BY <1>1, <1>2, <1>3, <1>4 DEF Next

LEMMA WatchdogInvariant == Spec => []WatchdogInv
<1>1. Init => WatchdogInv
  BY WatchdogInitInv DEF Init
<1>2. WatchdogInv /\ [Next]_vars => WatchdogInv'
  BY WatchdogPart, WatchdogStepInv
<1> QED
  BY <1>1, <1>2, PTL DEF Spec

(* A watchdog alarms only for an arming in force, when its duration is over *)
(* and the last break in a debugger is made up for, whatever its owner and  *)
(* other watchdogs do meanwhile (watchdog.cc 66-145).                       *)
THEOREM AlarmsComeWhenDue == Spec => AlarmsOnlyWhenDue
<1>1. WatchdogInv /\ [Next]_vars =>
        [thread' = "alarming" /\ thread # "alarming" =>
           /\ armedFor # Never
           /\ now - armedFor >=
                Duration + (IF lastBreak.time > armedFor THEN lastBreak.delay ELSE 0)]_vars
  <2> SUFFICES ASSUME WatchdogInv, [Next]_vars, thread' = "alarming", thread # "alarming"
               PROVE  /\ armedFor # Never
                      /\ now - armedFor >=
                           Duration + (IF lastBreak.time > armedFor THEN lastBreak.delay ELSE 0)
    OBVIOUS
  <2> QED
    BY WatchdogPart, AlarmIsDue
<1> QED
  BY <1>1, WatchdogInvariant, PTL DEF Spec, AlarmsOnlyWhenDue

(* Every variable of the four parts keeps its type.                         *)
THEOREM PrimitivesTypeCorrect == Spec => []TypeOK
<1> DEFINE Kind == users \in {"anyone", "watchdog", "statics", "weak"}
<1>1. Init => StaticsInv /\ WeakInv /\ Kind
  BY StaticsInitInv, WeakInitInv DEF Init
<1>2. StaticsInv /\ WeakInv /\ Kind /\ [Next]_vars => (StaticsInv /\ WeakInv /\ Kind)'
  <2>1. [Next]_vars => users' = users
    BY DEF Next, vars, Inside, OnCondition, AnyoneStep, InWatchdog, OnStatics, OnWeakPointers
  <2> QED
    BY <2>1, PartsApart, StaticsStepInv, WeakStepInv
<1>3. CVInv /\ WatchdogInv /\ StaticsInv /\ WeakInv /\ Kind => TypeOK
  BY DEF CVInv, WatchdogInv, StaticsInv, WeakInv, TypeOK
<1> QED
  BY <1>1, <1>2, <1>3, ConditionInvariant, WatchdogInvariant, PTL DEF Spec
=============================================================================
