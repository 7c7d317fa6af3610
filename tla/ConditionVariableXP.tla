------------------------- MODULE ConditionVariableXP -------------------------
(***************************************************************************)
(* The condition variable of Windows XP (WinXPCondVar) and its user lock.  *)
(* Every wait has an auto-reset event of its own, taken from a list of      *)
(* recycled ones. Signal and Broadcast take events off waiting_list_ under  *)
(* internal_lock_ and set them after it is released. What a call does under *)
(* internal_lock_ is one step. Overly hasty destruction, which the class    *)
(* calls a violation of its contract, is left out.                          *)
(***************************************************************************)
EXTENDS Naturals, SequencesExt

CONSTANTS Thread,   \* the threads that use the condition variable
          NoThread  \* the holder of a lock that is free

ASSUME NoThreadAssumption == NoThread \notin Thread

VARIABLES
    holder,            \* user_lock_: the thread that holds it
    waitingList,       \* waiting_list_: the events threads are blocked on
    recyclingList,     \* recycling_list_: the free events
    allocationCounter, \* allocation_counter_: events 1 .. n exist
    signaled,          \* the events that are set
    handles,           \* of each thread: the events its Signal or Broadcast has yet to set
    waitingEvent,      \* waiting_event of each thread's TimedWait, 0 outside one
    timed,             \* whether that wait has a timeout
    at                 \* where each thread is in the condition variable's code
lockVars == <<holder>>
listVars == <<waitingList, recyclingList, allocationCounter>>
cvVars == <<holder, listVars, signaled, handles, waitingEvent, timed, at>>

CVInit ==
    /\ holder = NoThread
    /\ waitingList = <<>> /\ recyclingList = <<>> /\ allocationCounter = 0
    /\ signaled = {}
    /\ handles = [t \in Thread |-> <<>>]
    /\ waitingEvent = [t \in Thread |-> 0]
    /\ timed = [t \in Thread |-> FALSE]
    /\ at = [t \in Thread |-> "outside"]

-----------------------------------------------------------------------------
Acquire(t) ==
    /\ at[t] = "outside" /\ holder = NoThread
    /\ holder' = t
    /\ UNCHANGED <<listVars, signaled, handles, waitingEvent, timed, at>>

Release(t) ==
    /\ at[t] = "outside" /\ holder = t
    /\ holder' = NoThread
    /\ UNCHANGED <<listVars, signaled, handles, waitingEvent, timed, at>>

(* Slip: a new event is not counted.                                        *)
GetEventForWaitingUncounted(t) ==
    /\ IF recyclingList = <<>>
       THEN /\ waitingEvent' = [waitingEvent EXCEPT ![t] = allocationCounter + 1]
            /\ UNCHANGED recyclingList
       ELSE /\ waitingEvent' = [waitingEvent EXCEPT ![t] = Head(recyclingList)]
            /\ recyclingList' = Tail(recyclingList)
    /\ UNCHANGED allocationCounter
    /\ waitingList' = Append(waitingList, waitingEvent'[t])

(* Wait and TimedWait, to where the thread commits to wait: it has an event *)
(* in waiting_list_, a recycled one or, when there is none, a new one.      *)
GetEventForWaiting(t) ==
    /\ IF recyclingList = <<>>
       THEN /\ allocationCounter' = allocationCounter + 1
            /\ waitingEvent' = [waitingEvent EXCEPT ![t] = allocationCounter + 1]
            /\ UNCHANGED recyclingList
       ELSE /\ waitingEvent' = [waitingEvent EXCEPT ![t] = Head(recyclingList)]
            /\ recyclingList' = Tail(recyclingList)
            /\ UNCHANGED allocationCounter
    /\ waitingList' = Append(waitingList, waitingEvent'[t])

BeginWait(t, hasTimeout) ==
    /\ at[t] = "outside" /\ holder = t
    /\ GetEventForWaiting(t)
    /\ timed' = [timed EXCEPT ![t] = hasTimeout]
    /\ at' = [at EXCEPT ![t] = "committed"]
    /\ UNCHANGED <<lockVars, signaled, handles>>

(* Slip: the event is reset before it is used again, to drop a stale signal *)
(* (what question 5 of the file's FAQ asks for).                            *)
UnlockAndReset(t) ==
    /\ at[t] = "committed"
    /\ holder' = NoThread
    /\ at' = [at EXCEPT ![t] = "blocked"]
    /\ signaled' = signaled \ {waitingEvent[t]}
    /\ UNCHANGED <<listVars, handles, waitingEvent, timed>>

(* AutoUnlock of the user lock, then WaitForSingleObject.                   *)
UnlockAndBlock(t) ==
    /\ at[t] = "committed"
    /\ holder' = NoThread
    /\ at' = [at EXCEPT ![t] = "blocked"]
    /\ UNCHANGED <<listVars, signaled, handles, waitingEvent, timed>>

(* WaitForSingleObject returns, and resets the event ...                    *)
EventFires(t) ==
    /\ at[t] = "blocked" /\ waitingEvent[t] \in signaled
    /\ signaled' = signaled \ {waitingEvent[t]}
    /\ at' = [at EXCEPT ![t] = "awake"]
    /\ UNCHANGED <<lockVars, listVars, handles, waitingEvent, timed>>

(* ... or it times out: the event may still be chosen by a Signal.          *)
TimeOut(t) ==
    /\ at[t] = "blocked" /\ timed[t]
    /\ at' = [at EXCEPT ![t] = "awake"]
    /\ UNCHANGED <<lockVars, listVars, signaled, handles, waitingEvent, timed>>

(* Slip: the event of a wait that ended is not taken off waiting_list_.     *)
RecycleEventNotExtracted(t) ==
    /\ at[t] = "awake"
    /\ waitingList' = waitingList
    /\ recyclingList' = Append(recyclingList, waitingEvent[t])
    /\ waitingEvent' = [waitingEvent EXCEPT ![t] = 0]
    /\ timed' = [timed EXCEPT ![t] = FALSE]
    /\ at' = [at EXCEPT ![t] = "returning"]
    /\ UNCHANGED <<lockVars, allocationCounter, signaled, handles>>

(* Extract leaves an event alone that Signal or Broadcast took already.     *)
Extract(list, event) ==
    IF event \in ToSet(list)
    THEN RemoveAt(list, CHOOSE k \in DOMAIN list : list[k] = event)
    ELSE list

RecycleEvent(t) ==
    /\ at[t] = "awake"
    /\ waitingList' = Extract(waitingList, waitingEvent[t])
    /\ recyclingList' = Append(recyclingList, waitingEvent[t])
    /\ waitingEvent' = [waitingEvent EXCEPT ![t] = 0]
    /\ timed' = [timed EXCEPT ![t] = FALSE]
    /\ at' = [at EXCEPT ![t] = "returning"]
    /\ UNCHANGED <<lockVars, allocationCounter, signaled, handles>>

(* The end of AutoUnlock: TimedWait returns with the user lock.             *)
EndWait(t) ==
    /\ at[t] = "returning" /\ holder = NoThread
    /\ holder' = t
    /\ at' = [at EXCEPT ![t] = "outside"]
    /\ UNCHANGED <<listVars, signaled, handles, waitingEvent, timed>>

-----------------------------------------------------------------------------
(* Signal and Broadcast, which need not hold the user lock: the events are  *)
(* taken off the list here, and set one by one in SetNextEvent. Signal takes *)
(* the newest; Broadcast's stack gives the oldest first.                    *)
TakeEvents(t, taken, left) ==
    /\ at[t] = "outside" /\ waitingList # <<>>
    /\ handles' = [handles EXCEPT ![t] = taken]
    /\ waitingList' = left
    /\ at' = [at EXCEPT ![t] = "setting"]
    /\ UNCHANGED <<lockVars, recyclingList, allocationCounter, signaled, waitingEvent, timed>>

(* A call that finds no waiting thread returns at once.                     *)
NobodyWaits(t) == at[t] = "outside" /\ waitingList = <<>> /\ UNCHANGED cvVars

Signal(t) == \/ NobodyWaits(t)
             \/ TakeEvents(t, <<Last(waitingList)>>, Front(waitingList))

Broadcast(t) == NobodyWaits(t) \/ TakeEvents(t, waitingList, <<>>)

(* Slip: an event is set only if its thread is already blocked on it.       *)
SetNextEventIfBlocked(t) ==
    /\ at[t] = "setting"
    /\ signaled' = IF \E u \in Thread : /\ waitingEvent[u] = Head(handles[t])
                                        /\ at[u] = "blocked"
                   THEN signaled \union {Head(handles[t])} ELSE signaled
    /\ handles' = [handles EXCEPT ![t] = Tail(@)]
    /\ at' = [at EXCEPT ![t] = IF Len(handles[t]) = 1 THEN "outside" ELSE "setting"]
    /\ UNCHANGED <<lockVars, listVars, waitingEvent, timed>>

SetNextEvent(t) ==
    /\ at[t] = "setting"
    /\ signaled' = signaled \union {Head(handles[t])}
    /\ handles' = [handles EXCEPT ![t] = Tail(@)]
    /\ at' = [at EXCEPT ![t] = IF Len(handles[t]) = 1 THEN "outside" ELSE "setting"]
    /\ UNCHANGED <<lockVars, listVars, waitingEvent, timed>>

(* What a thread inside the condition variable's code does next.            *)
InsideStep(t) == \/ UnlockAndBlock(t) \/ EventFires(t) \/ RecycleEvent(t)
                 \/ SetNextEvent(t)

-----------------------------------------------------------------------------
CVTypeOK ==
    /\ holder \in Thread \union {NoThread}
    /\ allocationCounter \in Nat
    /\ waitingList \in Seq(1 .. allocationCounter)
    /\ recyclingList \in Seq(1 .. allocationCounter)
    /\ signaled \subseteq 1 .. allocationCounter
    /\ handles \in [Thread -> Seq(1 .. allocationCounter)]
    /\ waitingEvent \in [Thread -> 0 .. allocationCounter]
    /\ timed \in [Thread -> BOOLEAN]
    /\ at \in [Thread -> {"outside", "committed", "blocked", "awake", "returning", "setting"}]

(* No event is lost or shared (lines 305-325, the FAQ's question 12 and the *)
(* destructor's DCHECK): every event that was allocated is used by exactly  *)
(* one wait or is in recycling_list_, once; waiting_list_ holds, once each, *)
(* only events of waits.                                                    *)
EventsConserved ==
    LET used(e) == {t \in Thread : waitingEvent[t] = e}
    IN  /\ IsInjective(waitingList) /\ IsInjective(recyclingList)
        /\ \A e \in 1 .. allocationCounter :
             \/ e \in ToSet(recyclingList) /\ e \notin ToSet(waitingList) /\ used(e) = {}
             \/ e \notin ToSet(recyclingList) /\ \E t \in Thread : used(e) = {t}

(* A signal is never lost (lines 240-252, 258-289): a thread on its way to  *)
(* block or blocked, whose event is no longer in waiting_list_, has that    *)
(* event set, or a Signal or Broadcast is about to set it; so the thread    *)
(* does wake up, though Signal chose it before it blocked, or its event was *)
(* in use by another thread a moment ago.                                   *)
NoSignalLost ==
    \A t \in Thread :
        at[t] \in {"committed", "blocked"} /\ waitingEvent[t] \notin ToSet(waitingList) =>
            \/ waitingEvent[t] \in signaled
            \/ \E u \in Thread : waitingEvent[t] \in ToSet(handles[u])

-----------------------------------------------------------------------------
(* The promise this one implements: a thread waits, for the promise, from   *)
(* the moment its event is in waiting_list_, which is before it releases    *)
(* the lock, and until the event is taken off it.                           *)
Waits(t) == waitingEvent[t] # 0 /\ waitingEvent[t] \in ToSet(waitingList)
Waiters == {t \in Thread : Waits(t)}
Revived ==
    {t \in Thread : ~ Waits(t) /\ at[t] \in {"committed", "blocked", "awake", "returning"}}
LockHolder == IF holder # NoThread /\ at[holder] = "committed" THEN NoThread ELSE holder

CV == INSTANCE ConditionVariable WITH
        holder <- LockHolder, waiters <- Waiters, revived <- Revived

(* WinXPCondVar is a condition variable (lines 229-325): each of its steps  *)
(* is a step of the promise or changes nothing the promise speaks of, and a *)
(* thread that was revived does return.                                     *)
ImplementsConditionVariable == CV!Spec
=============================================================================
