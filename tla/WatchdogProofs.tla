--------------------------- MODULE WatchdogProofs ----------------------------
(***************************************************************************)
(* Proofs about ConditionVariableXP, for any threads: its events are        *)
(* neither lost nor shared, no signal is lost, and each of its steps is one *)
(* that a condition variable may take. And about Watchdog, which stands on  *)
(* it, for any durations and times.                                         *)
(***************************************************************************)
EXTENDS Watchdog, SequenceLemmas, TLAPS

(* Every call of a thread and every step inside one.                        *)
CVStepOf(t) ==
    \/ Acquire(t) \/ Release(t) \/ \E hasTimeout \in BOOLEAN : BeginWait(t, hasTimeout)
    \/ Signal(t) \/ Broadcast(t) \/ TimeOut(t) \/ InsideStep(t) \/ EndWait(t)
CVStep == \E t \in Thread : CVStepOf(t)

(* Where a thread has an event, handles and the user lock.                  *)
Whereabouts ==
    \A t \in Thread :
        /\ waitingEvent[t] # 0 <=> at[t] \in {"committed", "blocked", "awake"}
        /\ handles[t] # <<>> <=> at[t] = "setting"
        /\ at[t] = "committed" => holder = t
        /\ holder = t => at[t] \in {"outside", "committed", "setting"}

(* EventsConserved, said of events and threads one by one.                  *)
EventsApart ==
    /\ IsInjective(waitingList) /\ IsInjective(recyclingList)
    /\ \A t, u \in Thread : waitingEvent[t] = waitingEvent[u] /\ waitingEvent[t] # 0 => t = u
    /\ \A t \in Thread : waitingEvent[t] \notin ToSet(recyclingList)
    /\ \A e \in 1 .. allocationCounter :
         \/ e \in ToSet(recyclingList) /\ e \notin ToSet(waitingList)
         \/ e \notin ToSet(recyclingList) /\ \E t \in Thread : waitingEvent[t] = e

CVInv == CVTypeOK /\ EventsApart /\ NoSignalLost /\ Whereabouts

-----------------------------------------------------------------------------
LEMMA SeqOfMore ==
    ASSUME NEW S, NEW T, S \subseteq T, NEW s \in Seq(S)
    PROVE  s \in Seq(T)
OBVIOUS

LEMMA ElementsOf ==
    ASSUME NEW S, NEW s \in Seq(S)
    PROVE  ToSet(s) \subseteq S /\ (s = <<>> => ToSet(s) = {})
BY DEF ToSet

LEMMA ApartIsConserved ==
    ASSUME CVTypeOK, EventsApart
    PROVE  EventsConserved
<1> USE DEF CVTypeOK, EventsApart
<1>1. ASSUME NEW e \in 1 .. allocationCounter
      PROVE  \/ /\ e \in ToSet(recyclingList) /\ e \notin ToSet(waitingList)
                /\ {t \in Thread : waitingEvent[t] = e} = {}
             \/ /\ e \notin ToSet(recyclingList)
                /\ \E t \in Thread : {u \in Thread : waitingEvent[u] = e} = {t}
  <2>1. CASE e \in ToSet(recyclingList)
    BY <2>1
  <2>2. CASE e \notin ToSet(recyclingList)
    <3>1. PICK t \in Thread : waitingEvent[t] = e
      BY <2>2
    <3>2. \A u \in Thread : waitingEvent[u] = e => u = t
      BY <3>1
    <3>3. {u \in Thread : waitingEvent[u] = e} = {t}
      BY <3>1, <3>2
    <3> QED
      BY <2>2, <3>3
  <2> QED
    BY <2>1, <2>2
<1> QED
  BY <1>1 DEF EventsConserved

LEMMA CVInitInv ==
    ASSUME CVInit
    PROVE  CVInv
<1> USE DEF CVInit
<1>1. CVTypeOK
  BY DEF CVTypeOK
<1>2. EventsApart /\ NoSignalLost
  BY ElementsOf DEF EventsApart, NoSignalLost, IsInjective, ToSet
<1>3. Whereabouts
  BY NoThreadAssumption DEF Whereabouts
<1> QED
  BY <1>1, <1>2, <1>3 DEF CVInv

-----------------------------------------------------------------------------
(* The user lock, and the steps that change no list.                        *)
LEMMA LockStepKeeps ==
    ASSUME CVInv, NEW t \in Thread, Acquire(t) \/ Release(t) \/ UnlockAndBlock(t) \/ TimeOut(t) \/ EndWait(t)
    PROVE  CVInv'
<1> USE DEF CVInv, Acquire, Release, UnlockAndBlock, TimeOut, EndWait, listVars, lockVars
<1>1. CVTypeOK'
  BY DEF CVTypeOK
<1>2. UNCHANGED <<waitingList, recyclingList, allocationCounter, signaled, handles, waitingEvent>>
  OBVIOUS
<1>3. EventsApart'
  BY <1>2 DEF EventsApart
<1>4. \A u \in Thread : at'[u] \in {"committed", "blocked"} => at[u] \in {"committed", "blocked"}
  BY DEF CVTypeOK
<1>5. NoSignalLost'
  BY <1>2, <1>4 DEF NoSignalLost
<1>6. Whereabouts'
  BY <1>2, NoThreadAssumption DEF Whereabouts, CVTypeOK
<1> QED
  BY <1>1, <1>3, <1>5, <1>6

(* A recycled event is nobody's, and so is a new one.                       *)
LEMMA BeginWaitKeeps ==
    ASSUME CVInv, NEW t \in Thread, NEW hasTimeout \in BOOLEAN, BeginWait(t, hasTimeout)
    PROVE  CVInv'
<1> USE DEF CVInv
<1> DEFINE e == waitingEvent'[t]
<1>1. /\ at[t] = "outside" /\ holder = t /\ at' = [at EXCEPT ![t] = "committed"]
      /\ timed' = [timed EXCEPT ![t] = hasTimeout]
      /\ waitingList' = Append(waitingList, e)
      /\ UNCHANGED <<holder, signaled, handles>>
  BY DEF BeginWait, GetEventForWaiting, lockVars
<1>2. /\ e \in 1 .. allocationCounter' /\ waitingEvent' = [waitingEvent EXCEPT ![t] = e]
      /\ e \notin ToSet(waitingList) /\ \A u \in Thread : waitingEvent[u] # e
      /\ allocationCounter' \in Nat /\ allocationCounter <= allocationCounter'
      /\ recyclingList' \in Seq(1 .. allocationCounter) /\ IsInjective(recyclingList')
      /\ ToSet(recyclingList') = ToSet(recyclingList) \ {e}
      /\ \A d \in 1 .. allocationCounter' : d = e \/ d \in 1 .. allocationCounter
  <2>1. CASE recyclingList = <<>>
    <3>1. /\ allocationCounter' = allocationCounter + 1 /\ recyclingList' = recyclingList
          /\ waitingEvent' = [waitingEvent EXCEPT ![t] = allocationCounter + 1]
      BY <2>1 DEF BeginWait, GetEventForWaiting
    <3>2. ToSet(waitingList) \subseteq 1 .. allocationCounter /\ ToSet(recyclingList) = {}
      BY <2>1, ElementsOf DEF CVTypeOK
    <3>3. e = allocationCounter + 1
      BY <3>1 DEF CVTypeOK
    <3> QED
      BY <3>1, <3>2, <3>3 DEF CVTypeOK, EventsApart
  <2>2. CASE recyclingList # <<>>
    <3>1. /\ allocationCounter' = allocationCounter /\ recyclingList' = Tail(recyclingList)
          /\ waitingEvent' = [waitingEvent EXCEPT ![t] = Head(recyclingList)]
      BY <2>2 DEF BeginWait, GetEventForWaiting
    <3>2. e = Head(recyclingList)
      BY <3>1 DEF CVTypeOK
    <3>3. /\ e \in 1 .. allocationCounter /\ e \in ToSet(recyclingList)
          /\ Tail(recyclingList) \in Seq(1 .. allocationCounter) /\ IsInjective(Tail(recyclingList))
          /\ ToSet(Tail(recyclingList)) = ToSet(recyclingList) \ {e}
      BY <2>2, <3>2, TakenOff DEF CVTypeOK, EventsApart
    <3>4. e \notin ToSet(waitingList) /\ \A u \in Thread : waitingEvent[u] # e
      BY <3>3 DEF EventsApart
    <3> QED
      BY <3>1, <3>2, <3>3, <3>4 DEF CVTypeOK
  <2> QED
    BY <2>1, <2>2
<1> HIDE DEF e
<1>3. /\ waitingList \in Seq(1 .. allocationCounter') /\ recyclingList' \in Seq(1 .. allocationCounter')
      /\ 1 .. allocationCounter \subseteq 1 .. allocationCounter'
  <2>1. 1 .. allocationCounter \subseteq 1 .. allocationCounter'
    BY <1>2 DEF CVTypeOK
  <2> QED
    BY <1>2, <2>1, SeqOfMore DEF CVTypeOK
<1>4. /\ waitingList' \in Seq(1 .. allocationCounter') /\ IsInjective(waitingList')
      /\ ToSet(waitingList') = ToSet(waitingList) \union {e}
  BY <1>1, <1>2, <1>3, PushedOnto DEF EventsApart
<1>5. \A u \in Thread : waitingEvent'[u] = IF u = t THEN e ELSE waitingEvent[u]
  BY <1>2 DEF CVTypeOK
<1>6. CVTypeOK'
  <2>1. \A u \in Thread : handles[u] \in Seq(1 .. allocationCounter')
    BY <1>3, SeqOfMore DEF CVTypeOK
  <2>2. handles' \in [Thread -> Seq(1 .. allocationCounter')]
    BY <1>1, <2>1 DEF CVTypeOK
  <2>3. waitingEvent' \in [Thread -> 0 .. allocationCounter']
    BY <1>2 DEF CVTypeOK
  <2>4. /\ signaled' \subseteq 1 .. allocationCounter' /\ holder' \in Thread \union {NoThread}
        /\ timed' \in [Thread -> BOOLEAN]
        /\ at' \in [Thread -> {"outside", "committed", "blocked", "awake", "returning", "setting"}]
    BY <1>1, <1>3 DEF CVTypeOK
  <2> QED
    BY <1>2, <1>3, <1>4, <2>2, <2>3, <2>4 DEF CVTypeOK
<1>7. EventsApart'
  <2>1. \A u, v \in Thread : waitingEvent'[u] = waitingEvent'[v] /\ waitingEvent'[u] # 0 => u = v
    BY <1>2, <1>5 DEF EventsApart
  <2>2. \A u \in Thread : waitingEvent'[u] \notin ToSet(recyclingList')
    BY <1>2, <1>5 DEF EventsApart
  <2>3. ASSUME NEW d \in 1 .. allocationCounter'
        PROVE  \/ d \in ToSet(recyclingList') /\ d \notin ToSet(waitingList')
               \/ d \notin ToSet(recyclingList') /\ \E u \in Thread : waitingEvent'[u] = d
    <3>1. CASE d = e
      BY <1>2, <1>5, <3>1
    <3>2. CASE d # e
      <4>1. d \in 1 .. allocationCounter
        BY <1>2, <3>2
      <4>2. CASE d \in ToSet(recyclingList)
        BY <1>2, <1>4, <3>2, <4>1, <4>2 DEF EventsApart
      <4>3. CASE d \notin ToSet(recyclingList)
        <5>1. PICK u \in Thread : waitingEvent[u] = d
          BY <4>1, <4>3 DEF EventsApart
        <5>2. u # t
          BY <1>1, <4>1, <5>1 DEF Whereabouts
        <5> QED
          BY <1>2, <1>5, <4>3, <5>1, <5>2
      <4> QED
        BY <4>2, <4>3
    <3> QED
      BY <3>1, <3>2
  <2> QED
    BY <1>2, <1>4, <2>1, <2>2, <2>3 DEF EventsApart
<1>8. NoSignalLost'
  <2>1. ASSUME NEW u \in Thread, at'[u] \in {"committed", "blocked"},
               waitingEvent'[u] \notin ToSet(waitingList')
        PROVE  \/ waitingEvent'[u] \in signaled'
               \/ \E v \in Thread : waitingEvent'[u] \in ToSet(handles'[v])
    <3>1. u # t
      BY <1>4, <1>5, <2>1
    <3>2. /\ at[u] \in {"committed", "blocked"} /\ waitingEvent'[u] = waitingEvent[u]
          /\ waitingEvent[u] \notin ToSet(waitingList)
      BY <1>1, <1>4, <1>5, <2>1, <3>1 DEF CVTypeOK
    <3> QED
      BY <1>1, <3>2 DEF NoSignalLost
  <2> QED
    BY <2>1 DEF NoSignalLost
<1>9. Whereabouts'
  BY <1>1, <1>2, <1>5 DEF Whereabouts, CVTypeOK
<1> QED
  BY <1>6, <1>7, <1>8, <1>9

(* Nobody else waits for the event that a thread resets.                    *)
LEMMA EventFiresKeeps ==
    ASSUME CVInv, NEW t \in Thread, EventFires(t)
    PROVE  CVInv'
<1> USE DEF CVInv
<1>1. /\ at[t] = "blocked" /\ signaled' = signaled \ {waitingEvent[t]}
      /\ at' = [at EXCEPT ![t] = "awake"]
      /\ UNCHANGED <<holder, waitingList, recyclingList, allocationCounter, handles, waitingEvent, timed>>
  BY DEF EventFires, lockVars, listVars
<1>2. CVTypeOK'
  BY <1>1 DEF CVTypeOK
<1>3. EventsApart'
  BY <1>1 DEF EventsApart
<1>4. NoSignalLost'
  <2>1. ASSUME NEW u \in Thread, at'[u] \in {"committed", "blocked"},
               waitingEvent[u] \notin ToSet(waitingList)
        PROVE  waitingEvent[u] \in signaled' \/ \E v \in Thread : waitingEvent[u] \in ToSet(handles[v])
    <3>1. u # t /\ at[u] \in {"committed", "blocked"}
      BY <1>1, <2>1 DEF CVTypeOK
    <3>2. waitingEvent[u] # waitingEvent[t]
      BY <1>1, <3>1 DEF EventsApart, Whereabouts
    <3> QED
      BY <1>1, <2>1, <3>1, <3>2 DEF NoSignalLost
  <2> QED
    BY <1>1, <2>1 DEF NoSignalLost
<1>5. Whereabouts'
  BY <1>1 DEF Whereabouts, CVTypeOK
<1> QED
  BY <1>2, <1>3, <1>4, <1>5

LEMMA ExtractTakesOut ==
    ASSUME NEW S, NEW list \in Seq(S), IsInjective(list), NEW e
    PROVE  /\ Extract(list, e) \in Seq(S) /\ IsInjective(Extract(list, e))
           /\ ToSet(Extract(list, e)) = ToSet(list) \ {e}
<1>1. CASE e \in ToSet(list)
  <2> DEFINE k == CHOOSE k \in DOMAIN list : list[k] = e
  <2>1. k \in DOMAIN list /\ list[k] = e
    BY <1>1 DEF ToSet
  <2>2. Extract(list, e) = RemoveAt(list, k)
    BY <1>1 DEF Extract
  <2> HIDE DEF k
  <2> QED
    BY <2>1, <2>2, TakenOut
<1>2. CASE e \notin ToSet(list)
  BY <1>2 DEF Extract
<1> QED
  BY <1>1, <1>2

LEMMA RecycleEventKeeps ==
    ASSUME CVInv, NEW t \in Thread, RecycleEvent(t)
    PROVE  CVInv'
<1> USE DEF CVInv
<1> DEFINE e == waitingEvent[t]
<1>1. /\ at[t] = "awake" /\ at' = [at EXCEPT ![t] = "returning"]
      /\ waitingList' = Extract(waitingList, e) /\ recyclingList' = Append(recyclingList, e)
      /\ waitingEvent' = [waitingEvent EXCEPT ![t] = 0] /\ timed' = [timed EXCEPT ![t] = FALSE]
      /\ UNCHANGED <<holder, allocationCounter, signaled, handles>>
  BY DEF RecycleEvent, lockVars
<1>2. e \in 1 .. allocationCounter /\ e \notin ToSet(recyclingList)
  BY <1>1 DEF Whereabouts, CVTypeOK, EventsApart
<1>3. /\ waitingList' \in Seq(1 .. allocationCounter) /\ IsInjective(waitingList')
      /\ ToSet(waitingList') = ToSet(waitingList) \ {e}
  BY <1>1, ExtractTakesOut DEF CVTypeOK, EventsApart
<1>4. /\ recyclingList' \in Seq(1 .. allocationCounter) /\ IsInjective(recyclingList')
      /\ ToSet(recyclingList') = ToSet(recyclingList) \union {e}
  <2>1. recyclingList \in Seq(1 .. allocationCounter) /\ IsInjective(recyclingList)
    BY DEF CVTypeOK, EventsApart
  <2> HIDE DEF e
  <2>2. /\ Append(recyclingList, e) \in Seq(1 .. allocationCounter)
        /\ ToSet(Append(recyclingList, e)) = ToSet(recyclingList) \union {e}
        /\ IsInjective(Append(recyclingList, e))
    BY <1>2, <2>1, PushedOnto, ZenonT(30)
  <2> QED
    BY <1>1, <2>2
<1>5. \A u \in Thread : waitingEvent'[u] = IF u = t THEN 0 ELSE waitingEvent[u]
  BY <1>1 DEF CVTypeOK
<1>6. \A u \in Thread : u # t => waitingEvent[u] # e
  BY <1>2 DEF EventsApart, CVTypeOK
<1>7. CVTypeOK'
  BY <1>1, <1>3, <1>4 DEF CVTypeOK
<1>8. EventsApart'
  <2>1. ToSet(recyclingList') \subseteq 1 .. allocationCounter
    BY <1>4, ElementsOf
  <2>2. \A u, v \in Thread : waitingEvent'[u] = waitingEvent'[v] /\ waitingEvent'[u] # 0 => u = v
    BY <1>5 DEF EventsApart
  <2>3. \A u \in Thread : waitingEvent'[u] \notin ToSet(recyclingList')
    <3>1. 0 \notin ToSet(recyclingList')
      BY <2>1 DEF CVTypeOK
    <3>2. \A u \in Thread : waitingEvent[u] \notin ToSet(recyclingList)
      BY DEF EventsApart
    <3> HIDE DEF e
    <3> QED
      BY <1>4, <1>5, <1>6, <3>1, <3>2
  <2>4. ASSUME NEW d \in 1 .. allocationCounter
        PROVE  \/ d \in ToSet(recyclingList') /\ d \notin ToSet(waitingList')
               \/ d \notin ToSet(recyclingList') /\ \E u \in Thread : waitingEvent'[u] = d
    <3>1. CASE d = e
      BY <1>3, <1>4, <3>1
    <3>2. CASE d # e
      BY <1>3, <1>4, <1>5, <3>2 DEF EventsApart
    <3> QED
      BY <3>1, <3>2
  <2> HIDE DEF e
  <2> QED
    BY <1>1, <1>3, <1>4, <2>2, <2>3, <2>4 DEF EventsApart
<1>9. NoSignalLost'
  <2>1. ASSUME NEW u \in Thread, at'[u] \in {"committed", "blocked"},
               waitingEvent'[u] \notin ToSet(waitingList')
        PROVE  waitingEvent'[u] \in signaled \/ \E v \in Thread : waitingEvent'[u] \in ToSet(handles[v])
    <3>1. u # t /\ at[u] \in {"committed", "blocked"} /\ waitingEvent'[u] = waitingEvent[u]
      BY <1>1, <1>5, <2>1 DEF CVTypeOK
    <3>2. waitingEvent[u] \notin ToSet(waitingList)
      BY <1>3, <1>6, <2>1, <3>1
    <3> QED
      BY <3>1, <3>2 DEF NoSignalLost
  <2> QED
    BY <1>1, <2>1 DEF NoSignalLost
<1>10. Whereabouts'
  BY <1>1, <1>5 DEF Whereabouts, CVTypeOK
<1> QED
  BY <1>7, <1>8, <1>9, <1>10

(* An event that is taken off waiting_list_ is one to be set.               *)
LEMMA TakeEventsKeeps ==
    ASSUME CVInv, NEW t \in Thread, NEW taken \in Seq(1 .. allocationCounter),
           NEW left \in Seq(1 .. allocationCounter), TakeEvents(t, taken, left),
           taken # <<>>, ToSet(waitingList) = ToSet(taken) \union ToSet(left), IsInjective(left)
    PROVE  CVInv'
<1> USE DEF CVInv
<1>1. /\ at[t] = "outside" /\ handles' = [handles EXCEPT ![t] = taken] /\ waitingList' = left
      /\ at' = [at EXCEPT ![t] = "setting"]
      /\ UNCHANGED <<holder, recyclingList, allocationCounter, signaled, waitingEvent, timed>>
  BY DEF TakeEvents, lockVars
<1>2. CVTypeOK'
  BY <1>1 DEF CVTypeOK
<1>3. EventsApart'
  BY <1>1 DEF EventsApart
<1>4. handles[t] = <<>> /\ ToSet(handles[t]) = {}
  BY <1>1, ElementsOf DEF Whereabouts, CVTypeOK
<1>5. \A u \in Thread : handles'[u] = IF u = t THEN taken ELSE handles[u]
  BY <1>1 DEF CVTypeOK
<1>6. NoSignalLost'
  <2>1. ASSUME NEW u \in Thread, at'[u] \in {"committed", "blocked"},
               waitingEvent[u] \notin ToSet(left)
        PROVE  waitingEvent[u] \in signaled \/ \E v \in Thread : waitingEvent[u] \in ToSet(handles'[v])
    <3>1. u # t /\ at[u] \in {"committed", "blocked"}
      BY <1>1, <2>1 DEF CVTypeOK
    <3>2. CASE waitingEvent[u] \in ToSet(taken)
      BY <1>5, <3>2
    <3>3. CASE waitingEvent[u] \notin ToSet(taken)
      <4>1. waitingEvent[u] \notin ToSet(waitingList)
        BY <2>1, <3>3
      <4>2. waitingEvent[u] \in signaled \/ \E v \in Thread : waitingEvent[u] \in ToSet(handles[v])
        BY <3>1, <4>1 DEF NoSignalLost
      <4> QED
        BY <1>4, <1>5, <4>2
    <3> QED
      BY <3>2, <3>3
  <2> QED
    BY <1>1, <2>1 DEF NoSignalLost
<1>7. Whereabouts'
  BY <1>1, <1>5 DEF Whereabouts, CVTypeOK
<1> QED
  BY <1>2, <1>3, <1>6, <1>7

LEMMA SignalKeeps ==
    ASSUME CVInv, NEW t \in Thread, Signal(t) \/ Broadcast(t)
    PROVE  CVInv'
<1>1. CASE NobodyWaits(t)
  BY <1>1 DEF NobodyWaits, cvVars, listVars, CVInv, CVTypeOK, EventsApart, NoSignalLost, Whereabouts
<1>2. CASE TakeEvents(t, <<Last(waitingList)>>, Front(waitingList))
  <2>1. waitingList # <<>> /\ waitingList \in Seq(1 .. allocationCounter) /\ IsInjective(waitingList)
    BY <1>2 DEF TakeEvents, CVInv, CVTypeOK, EventsApart
  <2>2. /\ Last(waitingList) \in 1 .. allocationCounter /\ Last(waitingList) \in ToSet(waitingList)
        /\ Front(waitingList) \in Seq(1 .. allocationCounter) /\ IsInjective(Front(waitingList))
        /\ ToSet(Front(waitingList)) = ToSet(waitingList) \ {Last(waitingList)}
    BY <2>1, PoppedFrom
  <2>3. /\ <<Last(waitingList)>> \in Seq(1 .. allocationCounter) /\ <<Last(waitingList)>> # <<>>
        /\ ToSet(<<Last(waitingList)>>) = {Last(waitingList)}
    BY <2>2 DEF ToSet
  <2>4. ToSet(waitingList) = ToSet(<<Last(waitingList)>>) \union ToSet(Front(waitingList))
    BY <2>2, <2>3
  <2> QED
    BY <1>2, <2>2, <2>3, <2>4, TakeEventsKeeps
<1>3. CASE TakeEvents(t, waitingList, <<>>)
  <2>1. waitingList # <<>> /\ waitingList \in Seq(1 .. allocationCounter)
    BY <1>3 DEF TakeEvents, CVInv, CVTypeOK
  <2>2. <<>> \in Seq(1 .. allocationCounter) /\ ToSet(<<>>) = {} /\ IsInjective(<<>>)
    BY DEF ToSet, IsInjective
  <2> QED
    BY <1>3, <2>1, <2>2, TakeEventsKeeps
<1> QED
  BY <1>1, <1>2, <1>3 DEF Signal, Broadcast

LEMMA SetNextEventKeeps ==
    ASSUME CVInv, NEW t \in Thread, SetNextEvent(t)
    PROVE  CVInv'
<1> USE DEF CVInv
<1> DEFINE rest == Tail(handles[t])
           place == IF Len(handles[t]) = 1 THEN "outside" ELSE "setting"
<1>1. /\ at[t] = "setting" /\ signaled' = signaled \union {Head(handles[t])}
      /\ handles' = [handles EXCEPT ![t] = rest] /\ at' = [at EXCEPT ![t] = place]
      /\ UNCHANGED <<holder, waitingList, recyclingList, allocationCounter, waitingEvent, timed>>
  BY DEF SetNextEvent, lockVars, listVars
<1>2. handles[t] \in Seq(1 .. allocationCounter) /\ handles[t] # <<>>
  BY <1>1 DEF CVTypeOK, Whereabouts
<1>3. /\ Head(handles[t]) \in 1 .. allocationCounter /\ rest \in Seq(1 .. allocationCounter)
      /\ ToSet(handles[t]) = {Head(handles[t])} \union ToSet(rest)
      /\ Len(handles[t]) \in Nat \ {0} /\ Len(rest) = Len(handles[t]) - 1
  BY <1>2, TakenOff
<1>4. place \in {"outside", "setting"} /\ (rest # <<>> <=> place = "setting")
  <2>1. rest = <<>> <=> Len(rest) = 0
    BY <1>3, EmptySeq
  <2> HIDE DEF rest
  <2> QED
    BY <1>3, <2>1
<1> HIDE DEF rest, place
<1>5. /\ \A u \in Thread : handles'[u] = IF u = t THEN rest ELSE handles[u]
      /\ \A u \in Thread : at'[u] = IF u = t THEN place ELSE at[u]
  BY <1>1 DEF CVTypeOK
<1>6. CVTypeOK'
  BY <1>1, <1>3, <1>4 DEF CVTypeOK
<1>7. EventsApart'
  BY <1>1 DEF EventsApart
<1>8. NoSignalLost'
  <2>1. ASSUME NEW u \in Thread, at'[u] \in {"committed", "blocked"},
               waitingEvent[u] \notin ToSet(waitingList)
        PROVE  waitingEvent[u] \in signaled' \/ \E v \in Thread : waitingEvent[u] \in ToSet(handles'[v])
    <3>1. at[u] \in {"committed", "blocked"}
      BY <1>4, <1>5, <2>1
    <3>2. waitingEvent[u] \in signaled \/ \E v \in Thread : waitingEvent[u] \in ToSet(handles[v])
      BY <2>1, <3>1 DEF NoSignalLost
    <3> QED
      BY <1>1, <1>3, <1>5, <3>2
  <2> QED
    BY <1>1, <2>1 DEF NoSignalLost
<1>9. Whereabouts'
  BY <1>1, <1>4, <1>5 DEF Whereabouts
<1> QED
  BY <1>6, <1>7, <1>8, <1>9

(* Every step keeps the invariant.                                          *)
LEMMA CVStepInv ==
    ASSUME CVInv, [CVStep]_cvVars
    PROVE  CVInv'
<1>1. CASE UNCHANGED cvVars
  BY <1>1 DEF cvVars, listVars, CVInv, CVTypeOK, EventsApart, NoSignalLost, Whereabouts
<1>2. ASSUME NEW t \in Thread, CVStepOf(t)
      PROVE  CVInv'
  BY <1>2, LockStepKeeps, BeginWaitKeeps, SignalKeeps, EventFiresKeeps, RecycleEventKeeps,
     SetNextEventKeeps DEF CVStepOf, InsideStep
<1> QED
  BY <1>1, <1>2 DEF CVStep

-----------------------------------------------------------------------------
(* The promise. A step that changes neither an event nor the list, nor who  *)
(* is between its wait and its return, changes nothing of the waiters.      *)
InWait(t) == at[t] \in {"committed", "blocked", "awake", "returning"}

LEMMA WaitersStay ==
    ASSUME waitingEvent' = waitingEvent, waitingList' = waitingList,
           \A t \in Thread : InWait(t)' <=> InWait(t)
    PROVE  Waiters' = Waiters /\ Revived' = Revived
BY DEF Waiters, Revived, Waits, InWait

LEMMA AcquireRefines ==
    ASSUME CVInv, NEW t \in Thread, Acquire(t)
    PROVE  CV!Acquire(t)
<1>1. at[t] = "outside" /\ holder = NoThread /\ holder' = t /\ UNCHANGED <<waitingEvent, waitingList, at>>
  BY DEF Acquire, listVars
<1>2. Waiters' = Waiters /\ Revived' = Revived
  BY <1>1, WaitersStay DEF InWait
<1>3. t \notin Waiters \union Revived
  BY <1>1 DEF CVInv, Whereabouts, Waiters, Revived, Waits
<1>4. LockHolder = NoThread /\ LockHolder' = t
  BY <1>1, NoThreadAssumption DEF LockHolder
<1> QED
  BY <1>2, <1>3, <1>4 DEF CV!Acquire

LEMMA ReleaseRefines ==
    ASSUME CVInv, NEW t \in Thread, Release(t)
    PROVE  CV!Release(t)
<1>1. at[t] = "outside" /\ holder = t /\ holder' = NoThread /\ UNCHANGED <<waitingEvent, waitingList, at>>
  BY DEF Release, listVars
<1>2. Waiters' = Waiters /\ Revived' = Revived
  BY <1>1, WaitersStay DEF InWait
<1>3. LockHolder = t /\ LockHolder' = NoThread
  BY <1>1, NoThreadAssumption DEF LockHolder
<1> QED
  BY <1>2, <1>3 DEF CV!Release

(* A thread waits from the moment it commits to.                            *)
LEMMA BeginWaitRefines ==
    ASSUME CVInv, NEW t \in Thread, NEW hasTimeout \in BOOLEAN, BeginWait(t, hasTimeout)
    PROVE  CV!Wait(t)
<1>1. /\ at[t] = "outside" /\ holder = t /\ at' = [at EXCEPT ![t] = "committed"] /\ holder' = holder
      /\ waitingList' = Append(waitingList, waitingEvent'[t])
  BY DEF BeginWait, GetEventForWaiting, lockVars
<1>2. CVInv'
  BY BeginWaitKeeps
<1>3. \A u \in Thread : at'[u] = IF u = t THEN "committed" ELSE at[u]
  BY <1>1 DEF CVInv, CVTypeOK
<1>4. \A u \in Thread \ {t} : waitingEvent'[u] = waitingEvent[u]
  BY DEF BeginWait, GetEventForWaiting, CVInv, CVTypeOK
<1>5. \A u \in Thread \ {t} : waitingEvent'[u] # 0 => waitingEvent'[u] # waitingEvent'[t]
  BY <1>2 DEF CVInv, EventsApart
<1>6. waitingEvent'[t] # 0 /\ waitingEvent'[t] \in 0 .. allocationCounter'
  BY <1>1, <1>2, <1>3 DEF CVInv, Whereabouts, CVTypeOK
<1>7. ToSet(waitingList') = ToSet(waitingList) \union {waitingEvent'[t]}
  <2>1. waitingList \in Seq(Nat) /\ waitingEvent'[t] \in Nat
    <3>1. 1 .. allocationCounter \subseteq Nat /\ allocationCounter' \in Nat
      BY <1>2 DEF CVInv, CVTypeOK
    <3> QED
      BY <1>6, <3>1, SeqOfMore DEF CVInv, CVTypeOK
  <2> QED
    BY <1>1, <2>1, PushedOnto, SMTT(30)
<1>8. ~ Waits(t) /\ Waits(t)' /\ \A u \in Thread \ {t} : Waits(u)' <=> Waits(u)
  BY <1>1, <1>4, <1>5, <1>6, <1>7 DEF CVInv, Whereabouts, Waits
<1>9. Waiters' = Waiters \union {t} /\ Revived' = Revived
  BY <1>1, <1>3, <1>8 DEF Waiters, Revived
<1>10. LockHolder = t /\ LockHolder' = NoThread
  BY <1>1, <1>3, NoThreadAssumption DEF LockHolder
<1> QED
  BY <1>9, <1>10 DEF CV!Wait

(* A wait goes on: the promise does not see it.                             *)
LEMMA WaitGoesOn ==
    ASSUME CVInv, NEW t \in Thread, UnlockAndBlock(t) \/ EventFires(t) \/ TimeOut(t) \/ SetNextEvent(t)
    PROVE  UNCHANGED CV!vars
<1>1. UNCHANGED <<waitingEvent, waitingList>>
  BY DEF UnlockAndBlock, EventFires, TimeOut, SetNextEvent, listVars
<1>2. \A u \in Thread : InWait(u)' <=> InWait(u)
  BY DEF UnlockAndBlock, EventFires, TimeOut, SetNextEvent, InWait, CVInv, CVTypeOK
<1>3. LockHolder' = LockHolder
  <2>1. CASE UnlockAndBlock(t)
    <3>1. holder = t /\ at[t] = "committed" /\ holder' = NoThread
      BY <2>1 DEF UnlockAndBlock, CVInv, Whereabouts
    <3> QED
      BY <3>1, NoThreadAssumption DEF LockHolder
  <2>2. CASE EventFires(t) \/ TimeOut(t) \/ SetNextEvent(t)
    <3>1. /\ holder' = holder
          /\ \A u \in Thread : at'[u] = "committed" <=> at[u] = "committed"
      BY <2>2 DEF EventFires, TimeOut, SetNextEvent, lockVars, CVInv, CVTypeOK
    <3> QED
      BY <3>1 DEF LockHolder, CVInv, CVTypeOK
  <2> QED
    BY <2>1, <2>2
<1> QED
  BY <1>1, <1>2, <1>3, WaitersStay DEF CV!vars

(* A wait ends by itself if no Signal has chosen its event.                 *)
LEMMA RecycleEventRefines ==
    ASSUME CVInv, NEW t \in Thread, RecycleEvent(t)
    PROVE  CV!EndsByItself(t) \/ UNCHANGED CV!vars
<1>1. /\ at[t] = "awake" /\ at' = [at EXCEPT ![t] = "returning"] /\ holder' = holder
      /\ waitingList' = Extract(waitingList, waitingEvent[t])
      /\ waitingEvent' = [waitingEvent EXCEPT ![t] = 0]
  BY DEF RecycleEvent, lockVars
<1>2. /\ \A u \in Thread : at'[u] = IF u = t THEN "returning" ELSE at[u]
      /\ \A u \in Thread : waitingEvent'[u] = IF u = t THEN 0 ELSE waitingEvent[u]
  BY <1>1 DEF CVInv, CVTypeOK
<1>3. ToSet(waitingList') = ToSet(waitingList) \ {waitingEvent[t]}
  BY <1>1, ExtractTakesOut DEF CVInv, CVTypeOK, EventsApart
<1>4. \A u \in Thread \ {t} : waitingEvent[u] # 0 => waitingEvent[u] # waitingEvent[t]
  BY DEF CVInv, EventsApart
<1>5. ~ Waits(t)' /\ \A u \in Thread \ {t} : Waits(u)' <=> Waits(u)
  BY <1>2, <1>3, <1>4 DEF Waits
<1>6. Waiters' = Waiters \ {t} /\ Revived' = Revived \union {t}
  BY <1>1, <1>2, <1>5 DEF Waiters, Revived
<1>7. LockHolder' = LockHolder
  BY <1>1, <1>2 DEF LockHolder, CVInv, CVTypeOK
<1>8. CASE t \in Waiters
  BY <1>6, <1>7, <1>8 DEF CV!EndsByItself, CV!Revive
<1>9. CASE t \notin Waiters
  <2>1. t \in Revived
    BY <1>1, <1>9 DEF Waiters, Revived
  <2> QED
    BY <1>6, <1>7, <1>9, <2>1 DEF CV!vars
<1> QED
  BY <1>8, <1>9

LEMMA EndWaitRefines ==
    ASSUME CVInv, NEW t \in Thread, EndWait(t)
    PROVE  CV!Return(t)
<1>1. /\ at[t] = "returning" /\ holder = NoThread /\ holder' = t /\ at' = [at EXCEPT ![t] = "outside"]
      /\ waitingList' = waitingList /\ waitingEvent' = waitingEvent
  BY DEF EndWait, listVars
<1>2. \A u \in Thread : at'[u] = IF u = t THEN "outside" ELSE at[u]
  BY <1>1 DEF CVInv, CVTypeOK
<1>3. waitingEvent[t] = 0
  BY <1>1 DEF CVInv, Whereabouts
<1>4. \A u \in Thread : (Waits(u)' <=> Waits(u)) /\ ~ Waits(t)
  BY <1>1, <1>3 DEF Waits
<1>5. Waiters' = Waiters /\ t \in Revived /\ Revived' = Revived \ {t}
  BY <1>1, <1>2, <1>4 DEF Waiters, Revived
<1>6. LockHolder = NoThread /\ LockHolder' = t
  BY <1>1, <1>2, NoThreadAssumption DEF LockHolder
<1> QED
  BY <1>5, <1>6 DEF CV!Return

(* Signal and Broadcast revive those whose events they take.                *)
LEMMA TakeEventsRevives ==
    ASSUME CVInv, NEW t \in Thread, NEW taken \in Seq(1 .. allocationCounter),
           NEW left \in Seq(1 .. allocationCounter), TakeEvents(t, taken, left),
           ToSet(left) = ToSet(waitingList) \ ToSet(taken)
    PROVE  CV!Revive({u \in Waiters : waitingEvent[u] \in ToSet(taken)})
<1> DEFINE S == {u \in Waiters : waitingEvent[u] \in ToSet(taken)}
<1>1. /\ at[t] = "outside" /\ waitingList' = left /\ at' = [at EXCEPT ![t] = "setting"]
      /\ holder' = holder /\ waitingEvent' = waitingEvent
  BY DEF TakeEvents, lockVars
<1>2. \A u \in Thread : at'[u] = IF u = t THEN "setting" ELSE at[u]
  BY <1>1 DEF CVInv, CVTypeOK
<1>3. \A u \in Thread : Waits(u)' <=> Waits(u) /\ waitingEvent[u] \notin ToSet(taken)
  BY <1>1 DEF Waits
<1>4. \A u \in Thread : Waits(u) => at[u] \in {"committed", "blocked", "awake"}
  BY DEF Waits, CVInv, Whereabouts
<1>5. Waiters' = Waiters \ S
  BY <1>3 DEF Waiters
<1>6. Revived' = Revived \union S
  BY <1>1, <1>2, <1>3, <1>4 DEF Waiters, Revived
<1>7. LockHolder' = LockHolder
  BY <1>1, <1>2 DEF LockHolder, CVInv, CVTypeOK
<1> QED
  BY <1>5, <1>6, <1>7 DEF CV!Revive

LEMMA SignalRefines ==
    ASSUME CVInv, NEW t \in Thread, Signal(t) \/ Broadcast(t)
    PROVE  CV!Signal \/ CV!Broadcast \/ UNCHANGED CV!vars
<1>1. CASE NobodyWaits(t)
  <2>1. UNCHANGED <<holder, waitingEvent, waitingList, at>>
    BY <1>1 DEF NobodyWaits, cvVars, listVars
  <2> QED
    BY <2>1 DEF CV!vars, LockHolder, Waiters, Revived, Waits
<1>2. CASE TakeEvents(t, <<Last(waitingList)>>, Front(waitingList))
  <2> DEFINE e == Last(waitingList)
  <2>1. waitingList # <<>> /\ waitingList \in Seq(1 .. allocationCounter) /\ IsInjective(waitingList)
    BY <1>2 DEF TakeEvents, CVInv, CVTypeOK, EventsApart
  <2>2. /\ e \in 1 .. allocationCounter /\ e \in ToSet(waitingList)
        /\ Front(waitingList) \in Seq(1 .. allocationCounter)
        /\ ToSet(Front(waitingList)) = ToSet(waitingList) \ {e}
    BY <2>1, PoppedFrom
  <2>3. <<e>> \in Seq(1 .. allocationCounter) /\ ToSet(<<e>>) = {e}
    BY <2>2 DEF ToSet
  <2>4. CV!Revive({u \in Waiters : waitingEvent[u] \in ToSet(<<e>>)})
    BY <1>2, <2>2, <2>3, TakeEventsRevives
  <2>5. PICK u \in Thread : waitingEvent[u] = e
    BY <2>2 DEF CVInv, EventsApart
  <2>6. u \in Waiters /\ \A v \in Waiters : waitingEvent[v] = e => v = u
    BY <2>2, <2>5 DEF Waiters, Waits, CVInv, EventsApart
  <2>7. {v \in Waiters : waitingEvent[v] \in ToSet(<<e>>)} = {u}
    BY <2>3, <2>5, <2>6
  <2> QED
    BY <2>4, <2>6, <2>7 DEF CV!Signal
<1>3. CASE TakeEvents(t, waitingList, <<>>)
  <2>1. waitingList \in Seq(1 .. allocationCounter) /\ <<>> \in Seq(1 .. allocationCounter)
    BY DEF CVInv, CVTypeOK
  <2>2. ToSet(<<>>) = ToSet(waitingList) \ ToSet(waitingList)
    BY DEF ToSet
  <2>3. CV!Revive({u \in Waiters : waitingEvent[u] \in ToSet(waitingList)})
    BY <1>3, <2>1, <2>2, TakeEventsRevives
  <2>4. {u \in Waiters : waitingEvent[u] \in ToSet(waitingList)} = Waiters
    BY DEF Waiters, Waits
  <2> QED
    BY <2>3, <2>4 DEF CV!Broadcast
<1> QED
  BY <1>1, <1>2, <1>3 DEF Signal, Broadcast

(* Every step is one that a condition variable may take.                    *)
LEMMA CVStepRefines ==
    ASSUME CVInv, [CVStep]_cvVars
    PROVE  [CV!Next]_CV!vars
<1>1. CASE UNCHANGED cvVars
  BY <1>1 DEF cvVars, listVars, CV!vars, LockHolder, Waiters, Revived, Waits
<1>2. ASSUME NEW t \in Thread, CVStepOf(t)
      PROVE  [CV!Next]_CV!vars
  <2>1. CASE Acquire(t) \/ Release(t) \/ EndWait(t) \/ RecycleEvent(t)
    BY <2>1, AcquireRefines, ReleaseRefines, EndWaitRefines, RecycleEventRefines DEF CV!Next
  <2>2. CASE \E hasTimeout \in BOOLEAN : BeginWait(t, hasTimeout)
    BY <2>2, BeginWaitRefines DEF CV!Next
  <2>3. CASE Signal(t) \/ Broadcast(t)
    BY <2>3, SignalRefines DEF CV!Next
  <2>4. CASE UnlockAndBlock(t) \/ EventFires(t) \/ TimeOut(t) \/ SetNextEvent(t)
    BY <2>4, WaitGoesOn
  <2> QED
    BY <1>2, <2>1, <2>2, <2>3, <2>4 DEF CVStepOf, InsideStep
<1> QED
  BY <1>1, <1>2 DEF CVStep

LEMMA CVInitRefines ==
    ASSUME CVInit
    PROVE  CV!Init
<1>1. Waiters = {} /\ Revived = {}
  BY DEF CVInit, Waiters, Revived, Waits
<1> QED
  BY <1>1 DEF CVInit, CV!Init, LockHolder

-----------------------------------------------------------------------------
(* The watchdog.                                                            *)

(* Why no alarm is early. The start time of an armed watchdog is that of    *)
(* its arming, or moved over breaks that are past.                          *)
Arming ==
    /\ alarmTime # Never <=> thread \in {"alarming", "alarmed"}
    /\ state = "ARMED" =>
         /\ armedFor # Never /\ armedFor <= startTime /\ startTime <= now
         /\ startTime = armedFor \/ startTime < now
         /\ alarmTime # Never => startTime = armedFor

(* Breaks are over when they are known, and do not cross: one is before the *)
(* other, or the watchdog's own contains the other.                         *)
End(b) == b.time + b.delay
BreaksApart ==
    /\ End(lastBreak) <= now /\ End(otherBreak) <= now
    /\ \/ End(otherBreak) <= lastBreak.time
       \/ End(lastBreak) <= otherBreak.time
       \/ lastBreak.time <= otherBreak.time /\ End(otherBreak) <= End(lastBreak)
    /\ alarmTime # Never =>
         alarmTime <= now /\ (End(otherBreak) <= alarmTime \/ alarmTime <= otherBreak.time)

(* A break that the start time has passed was long enough made up for.      *)
MadeUp(b) == armedFor < b.time /\ b.time <= startTime => b.delay <= startTime - armedFor
BreaksMadeUp == state = "ARMED" => MadeUp(lastBreak) /\ MadeUp(otherBreak)

WatchdogInv == WatchdogTypeOK /\ Arming /\ BreaksApart /\ BreaksMadeUp

-----------------------------------------------------------------------------
LEMMA WatchdogInitInv ==
    ASSUME WatchdogInit, thread \in {"none", "starting"}
    PROVE  WatchdogInv
<1> USE WatchdogAssumption DEF WatchdogInit, NoBreak, Never
<1>1. WatchdogTypeOK
  BY DEF WatchdogTypeOK, AfterSignal
<1>2. Arming /\ BreaksApart /\ BreaksMadeUp
  BY DEF Arming, BreaksApart, BreaksMadeUp, MadeUp, End
<1> QED
  BY <1>1, <1>2 DEF WatchdogInv

LEMMA OwnerKeeps ==
    ASSUME WatchdogInv, OwnerCalls \/ OwnerSignals \/ Join
    PROVE  WatchdogInv'
<1> USE WatchdogAssumption DEF WatchdogInv, Never
<1>1. CASE OwnerSignals \/ Join
  <2>1. UNCHANGED <<watchVars, now, breakVars, alarmTime, deadline, thread, armedFor>>
    BY <1>1 DEF OwnerSignals, Join
  <2>2. owner' \in {"idle", "destroying", "notJoinable", "joining", "gone"} \union DOMAIN AfterSignal
    BY <1>1 DEF OwnerSignals, Join, AfterSignal, WatchdogTypeOK
  <2>3. WatchdogTypeOK'
    BY <2>1, <2>2 DEF WatchdogTypeOK, watchVars, breakVars
  <2>4. Arming' /\ BreaksApart' /\ BreaksMadeUp'
    BY <2>1 DEF Arming, BreaksApart, BreaksMadeUp, MadeUp, End, watchVars, breakVars
  <2> QED
    BY <2>3, <2>4
<1>2. CASE OwnerCalls
  <2>1. UNCHANGED <<now, lastBreak, otherBreak, alarmTime, deadline, thread>>
    BY <1>2 DEF OwnerCalls, breakVars
  <2>2. ASSUME NEW start \in 0 .. now, ArmAtStartTime(start)
        PROVE  WatchdogInv'
    <3>1. startTime' = start /\ armedFor' = start /\ state' = "ARMED" /\ owner' = "arming"
      BY <2>2 DEF ArmAtStartTime
    <3>2. WatchdogTypeOK'
      BY <2>1, <3>1 DEF WatchdogTypeOK, AfterSignal
    <3>3. Arming' /\ BreaksApart' /\ BreaksMadeUp'
      BY <2>1, <3>1 DEF WatchdogTypeOK, Arming, BreaksApart, BreaksMadeUp, MadeUp, End
    <3> QED
      BY <3>2, <3>3
  <2>3. CASE Disarm \/ Cleanup
    <3>1. /\ startTime' = startTime /\ armedFor' = Never /\ state' \in {"DISARMED", "SHUTDOWN"}
          /\ owner' = owner \/ owner' \in {"cleaning", "ending"}
      BY <2>3 DEF Disarm, Cleanup
    <3>2. WatchdogTypeOK'
      BY <2>1, <3>1 DEF WatchdogTypeOK, AfterSignal
    <3>3. Arming' /\ BreaksApart' /\ BreaksMadeUp'
      BY <2>1, <3>1 DEF Arming, BreaksApart, BreaksMadeUp, End
    <3> QED
      BY <3>2, <3>3
  <2>4. CASE IsJoinable \/ Destroy
    <3>1. /\ UNCHANGED <<startTime, armedFor, state>>
          /\ owner' \in {"lastSignal", "notJoinable", "destroying"}
      BY <2>4 DEF IsJoinable, Destroy, watchVars
    <3>2. WatchdogTypeOK'
      BY <2>1, <3>1 DEF WatchdogTypeOK, AfterSignal
    <3>3. Arming' /\ BreaksApart' /\ BreaksMadeUp'
      BY <2>1, <3>1 DEF Arming, BreaksApart, BreaksMadeUp, MadeUp, End
    <3> QED
      BY <3>2, <3>3
  <2> QED
    BY <1>2, <2>2, <2>3, <2>4 DEF OwnerCalls
<1> QED
  BY <1>1, <1>2

(* The steps of the thread that leave times and breaks alone.               *)
LEMMA ThreadGoesOnKeeps ==
    ASSUME WatchdogInv,
           ThreadLocks \/ ThreadUnlocks \/ ThreadWaits \/ ThreadExits \/ ThreadSleeps
    PROVE  WatchdogInv'
<1> USE WatchdogAssumption DEF WatchdogInv, Never
<1>1. /\ UNCHANGED <<startTime, now, lastBreak, otherBreak, alarmTime, owner, armedFor>>
      /\ state' = state \/ state' = "JOINABLE"
      /\ thread' \in {"starting", "checking", "continuing", "exited"}
      /\ thread \in {"starting", "checking", "continuing"}
  BY DEF ThreadLocks, ThreadUnlocks, ThreadWaits, ThreadExits, ThreadSleeps, Checking, watchVars,
         breakVars
<1>2. deadline' \in Never .. MaxTime + Duration
  <2>1. CASE ThreadSleeps
    <3>1. state = "ARMED" /\ deadline' = now + (Duration - (now - startTime))
      BY <2>1 DEF ThreadSleeps, Remaining
    <3> QED
      BY <3>1 DEF WatchdogTypeOK
  <2>2. CASE ~ ThreadSleeps
    <3>1. deadline' = deadline \/ deadline' = Never
      BY <2>2 DEF ThreadLocks, ThreadUnlocks, ThreadWaits, ThreadExits
    <3> QED
      BY <3>1 DEF WatchdogTypeOK
  <2> QED
    BY <2>1, <2>2
<1>3. WatchdogTypeOK'
  BY <1>1, <1>2 DEF WatchdogTypeOK
<1>4. Arming' /\ BreaksApart' /\ BreaksMadeUp'
  BY <1>1 DEF Arming, BreaksApart, BreaksMadeUp, MadeUp, End
<1> QED
  BY <1>3, <1>4

LEMMA SkipBreakKeeps ==
    ASSUME WatchdogInv, SkipBreak
    PROVE  WatchdogInv'
<1> USE WatchdogAssumption DEF WatchdogInv, Never
<1>1. /\ thread = "checking" /\ thread' = "continuing" /\ state = "ARMED"
      /\ lastBreak.time > startTime /\ startTime' = startTime + lastBreak.delay
      /\ UNCHANGED <<now, lastBreak, otherBreak, alarmTime, deadline, owner>>
      /\ \/ state' = "DISARMED" /\ armedFor' = Never
         \/ state' = state /\ armedFor' = armedFor /\ lastBreak.time <= startTime'
  <2>1. lastBreak.time \in Int /\ lastBreak.delay \in Nat /\ startTime \in Int
    BY DEF WatchdogTypeOK
  <2> QED
    BY <2>1 DEF SkipBreak, Checking, FalseAlarm, breakVars
<1>2. /\ lastBreak.time \in Int /\ lastBreak.delay \in Nat /\ startTime \in Int
      /\ otherBreak.time \in Int /\ otherBreak.delay \in Nat /\ now \in Nat /\ armedFor \in Int
      /\ now <= MaxTime /\ startTime >= -1
  BY DEF WatchdogTypeOK
<1>3. startTime' < now /\ startTime' \in Never .. MaxTime /\ armedFor' \in Never .. MaxTime
  BY <1>1, <1>2 DEF BreaksApart, End, WatchdogTypeOK
<1>4. WatchdogTypeOK'
  BY <1>1, <1>3 DEF WatchdogTypeOK
<1>5. Arming' /\ BreaksApart'
  BY <1>1, <1>2, <1>3 DEF Arming, BreaksApart, End
<1>6. BreaksMadeUp'
  <2>1. CASE state' = "ARMED"
    <3>1. armedFor' = armedFor /\ armedFor <= startTime
      BY <1>1, <2>1 DEF Arming
    <3>2. MadeUp(lastBreak)'
      BY <1>1, <1>2, <3>1 DEF MadeUp
    <3>3. MadeUp(otherBreak)'
      BY <1>1, <1>2, <2>1, <3>1 DEF MadeUp, BreaksMadeUp, BreaksApart, End
    <3> QED
      BY <3>2, <3>3 DEF BreaksMadeUp
  <2>2. CASE state' # "ARMED"
    BY <2>2 DEF BreaksMadeUp
  <2> QED
    BY <2>1, <2>2
<1> QED
  BY <1>4, <1>5, <1>6

LEMMA AlarmKeeps ==
    ASSUME WatchdogInv, DecideToAlarm \/ Alarm
    PROVE  WatchdogInv'
<1> USE WatchdogAssumption DEF WatchdogInv, Never
<1>1. CASE DecideToAlarm
  <2>1. /\ state' = "DISARMED" /\ armedFor' = Never /\ alarmTime' = now /\ thread' = "alarming"
        /\ UNCHANGED <<startTime, now, lastBreak, otherBreak, deadline, owner>>
    BY <1>1 DEF DecideToAlarm, breakVars
  <2>2. WatchdogTypeOK'
    BY <2>1 DEF WatchdogTypeOK
  <2>3. Arming' /\ BreaksApart' /\ BreaksMadeUp'
    BY <2>1 DEF WatchdogTypeOK, Arming, BreaksApart, BreaksMadeUp, End
  <2> QED
    BY <2>2, <2>3
<1>2. CASE Alarm
  <2>1. /\ thread = "alarming" /\ thread' = "alarmed" /\ now' \in Nat /\ now <= now' /\ now' <= MaxTime
        /\ UNCHANGED <<state, startTime, armedFor, lastBreak, otherBreak, alarmTime, deadline, owner>>
    BY <1>2 DEF Alarm, breakVars, watchVars, WatchdogTypeOK
  <2>2. WatchdogTypeOK'
    BY <2>1 DEF WatchdogTypeOK
  <2>3. Arming' /\ BreaksApart' /\ BreaksMadeUp'
    BY <2>1 DEF WatchdogTypeOK, Arming, BreaksApart, BreaksMadeUp, MadeUp, End
  <2> QED
    BY <2>2, <2>3
<1> QED
  BY <1>1, <1>2

(* A break of the watchdog's own is recorded.                               *)
LEMMA AfterAlarmKeeps ==
    ASSUME WatchdogInv, AfterAlarm
    PROVE  WatchdogInv'
<1> USE WatchdogAssumption DEF WatchdogInv, Never
<1>1. /\ thread = "alarmed" /\ thread' = "continuing" /\ alarmTime' = Never
      /\ lastBreak' = IF now = alarmTime THEN lastBreak
                      ELSE [time |-> alarmTime, delay |-> now - alarmTime]
      /\ UNCHANGED <<state, startTime, armedFor, now, otherBreak, deadline, owner>>
  BY DEF AfterAlarm, watchVars
<1>2. alarmTime # Never /\ alarmTime \in 0 .. now /\ now \in 0 .. MaxTime
  BY <1>1 DEF Arming, BreaksApart, WatchdogTypeOK
<1>3. CASE now = alarmTime
  <2>1. WatchdogTypeOK'
    BY <1>1, <1>3 DEF WatchdogTypeOK
  <2>2. Arming' /\ BreaksApart' /\ BreaksMadeUp'
    BY <1>1, <1>3 DEF Arming, BreaksApart, BreaksMadeUp, MadeUp, End
  <2> QED
    BY <2>1, <2>2
<1>4. CASE now # alarmTime
  <2>1. lastBreak'.time = alarmTime /\ lastBreak'.delay = now - alarmTime
    BY <1>1, <1>4
  <2>2. lastBreak' \in [time : Never .. MaxTime, delay : 0 .. MaxTime]
    BY <1>1, <1>2, <1>4
  <2>3. WatchdogTypeOK'
    BY <1>1, <2>2 DEF WatchdogTypeOK
  <2>4. Arming' /\ BreaksApart'
    BY <1>1, <1>2, <2>1 DEF WatchdogTypeOK, Arming, BreaksApart, End
  <2>5. state = "ARMED" => startTime = armedFor
    BY <1>2 DEF Arming
  <2>6. BreaksMadeUp'
    BY <1>1, <1>2, <2>1, <2>5 DEF WatchdogTypeOK, BreaksMadeUp, MadeUp
  <2> QED
    BY <2>3, <2>4, <2>6
<1> QED
  BY <1>3, <1>4

(* Time passes, and another watchdog breaks and records its break.          *)
LEMMA TimeKeeps ==
    ASSUME WatchdogInv, Clock \/ Breaks
    PROVE  WatchdogInv'
<1> USE WatchdogAssumption DEF WatchdogInv, Never
<1>1. CASE Clock
  <2>1. /\ now' = now + 1 /\ now < MaxTime
        /\ UNCHANGED <<state, startTime, armedFor, lastBreak, otherBreak, alarmTime, deadline, thread, owner>>
    BY <1>1 DEF Clock, breakVars, watchVars
  <2>2. WatchdogTypeOK'
    BY <2>1 DEF WatchdogTypeOK
  <2>3. Arming' /\ BreaksApart' /\ BreaksMadeUp'
    BY <2>1 DEF WatchdogTypeOK, Arming, BreaksApart, BreaksMadeUp, MadeUp, End
  <2> QED
    BY <2>2, <2>3
<1>2. CASE OtherBreaks
  <2>1. PICK time \in 1 .. MaxBreak :
          now + time <= MaxTime /\ now' = now + time /\ otherBreak' = [time |-> now, delay |-> time]
    BY <1>2 DEF OtherBreaks
  <2>2. UNCHANGED <<state, startTime, armedFor, lastBreak, alarmTime, deadline, thread, owner>>
    BY <1>2 DEF OtherBreaks, watchVars
  <2>3. /\ otherBreak'.time = now /\ otherBreak'.delay = time
        /\ otherBreak' \in [time : Never .. MaxTime, delay : 0 .. MaxTime]
    BY <2>1 DEF WatchdogTypeOK
  <2>4. WatchdogTypeOK'
    BY <2>1, <2>2, <2>3 DEF WatchdogTypeOK
  <2>5. Arming' /\ BreaksApart' /\ BreaksMadeUp'
    BY <2>1, <2>2, <2>3 DEF WatchdogTypeOK, Arming, BreaksApart, BreaksMadeUp, MadeUp, End
  <2> QED
    BY <2>4, <2>5
<1>3. CASE OtherRecords
  <2>1. /\ lastBreak' = otherBreak /\ otherBreak' = NoBreak
        /\ UNCHANGED <<state, startTime, armedFor, now, alarmTime, deadline, thread, owner>>
    BY <1>3 DEF OtherRecords, watchVars
  <2>2. otherBreak'.time = -1 /\ otherBreak'.delay = 0
    BY <2>1 DEF NoBreak
  <2>3. WatchdogTypeOK'
    BY <2>1 DEF WatchdogTypeOK, NoBreak
  <2>4. Arming' /\ BreaksApart' /\ BreaksMadeUp'
    BY <2>1, <2>2 DEF WatchdogTypeOK, Arming, BreaksApart, BreaksMadeUp, MadeUp, End
  <2> QED
    BY <2>3, <2>4
<1> QED
  BY <1>1, <1>2, <1>3 DEF Breaks

-----------------------------------------------------------------------------
WatchdogStep ==
    OwnerCalls \/ OwnerSignals \/ Join \/ ThreadStep \/ DeadlinePasses \/ Clock \/ Breaks

LEMMA WatchdogStepInv ==
    ASSUME WatchdogInv, [WatchdogStep]_watchdogVars
    PROVE  WatchdogInv'
<1>1. CASE UNCHANGED watchdogVars \/ DeadlinePasses
  BY <1>1 DEF DeadlinePasses, watchdogVars, watchVars, breakVars, WatchdogInv, WatchdogTypeOK, Arming,
              BreaksApart, BreaksMadeUp, MadeUp, End
<1>2. CASE WatchdogStep /\ ~ DeadlinePasses
  BY <1>2, OwnerKeeps, ThreadGoesOnKeeps, SkipBreakKeeps, AlarmKeeps, AfterAlarmKeeps, TimeKeeps
     DEF WatchdogStep, ThreadStep
<1> QED
  BY <1>1, <1>2

(* Only the decision to alarm begins one, and it is due.                    *)
LEMMA AlarmIsDue ==
    ASSUME WatchdogInv, [WatchdogStep]_watchdogVars, thread' = "alarming", thread # "alarming"
    PROVE  /\ armedFor # Never
           /\ now - armedFor >=
                Duration + (IF lastBreak.time > armedFor THEN lastBreak.delay ELSE 0)
<1> USE WatchdogAssumption DEF WatchdogInv
<1>1. DecideToAlarm
  BY DEF WatchdogStep, watchdogVars, OwnerCalls, OwnerSignals, Join, ThreadStep, ThreadLocks,
         ThreadUnlocks, ThreadWaits, ThreadExits, ThreadSleeps, SkipBreak, Alarm, AfterAlarm,
         DeadlinePasses, Clock, Breaks, OtherBreaks, OtherRecords, Checking
<1>2. state = "ARMED" /\ Duration - (now - startTime) <= 0 /\ ~ (lastBreak.time > startTime)
  BY <1>1 DEF DecideToAlarm, Remaining, FalseAlarm
<1>3. armedFor # Never /\ armedFor <= startTime
  BY <1>2 DEF Arming
<1>4. /\ now \in Int /\ startTime \in Int /\ armedFor \in Int
      /\ lastBreak.time \in Int /\ lastBreak.delay \in Int
  BY DEF WatchdogTypeOK, Never
<1>5. lastBreak.time > armedFor => lastBreak.delay <= startTime - armedFor
  BY <1>2, <1>4 DEF BreaksMadeUp, MadeUp
<1> QED
  BY <1>2, <1>3, <1>4, <1>5
=============================================================================
