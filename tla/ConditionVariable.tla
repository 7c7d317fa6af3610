-------------------------- MODULE ConditionVariable --------------------------
(***************************************************************************)
(* What a condition variable promises to the threads that share it and its *)
(* lock, and what the one of Windows Vista does (WinVistaCondVar): to wait  *)
(* is to start waiting and to release the lock at once; Signal revives one  *)
(* waiting thread, Broadcast every one; a thread may also be revived by its *)
(* timeout or for no reason; and a revived thread returns with the lock.    *)
(***************************************************************************)
CONSTANTS Thread,   \* the threads that use the condition variable
          NoThread  \* the holder of a lock that is free

VARIABLES holder,   \* the thread that holds the lock
          waiters,  \* threads that wait, and that a Signal can choose
          revived   \* threads that no longer wait, and have yet to get the lock
vars == <<holder, waiters, revived>>

Init == holder = NoThread /\ waiters = {} /\ revived = {}

Acquire(t) ==
    /\ t \notin waiters \union revived
    /\ holder = NoThread
    /\ holder' = t
    /\ UNCHANGED <<waiters, revived>>

Release(t) ==
    /\ holder = t
    /\ holder' = NoThread
    /\ UNCHANGED <<waiters, revived>>

Wait(t) ==
    /\ holder = t
    /\ holder' = NoThread
    /\ waiters' = waiters \union {t}
    /\ UNCHANGED revived

(* The threads of S stop waiting.                                          *)
Revive(S) ==
    /\ waiters' = waiters \ S
    /\ revived' = revived \union S
    /\ UNCHANGED holder

Signal == \E t \in waiters : Revive({t})
Broadcast == Revive(waiters)

(* The wait of a thread ends at its timeout, or for no reason.              *)
EndsByItself(t) == t \in waiters /\ Revive({t})

Return(t) ==
    /\ t \in revived
    /\ holder = NoThread
    /\ holder' = t
    /\ revived' = revived \ {t}
    /\ UNCHANGED waiters

Next ==
    \/ Signal \/ Broadcast
    \/ \E t \in Thread : Acquire(t) \/ Release(t) \/ Wait(t) \/ EndsByItself(t) \/ Return(t)

(* A revived thread returns, if the lock is free again and again.           *)
Fairness == \A t \in Thread : SF_vars(Return(t))

SafetySpec == Init /\ [][Next]_vars
Spec == SafetySpec /\ Fairness
=============================================================================
