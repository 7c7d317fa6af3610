------------------------ MODULE MessageLoopProxyProofs ------------------------
(***************************************************************************)
(* Proofs about MessageLoopProxy: the loop, its pump and the threads that  *)
(* post to it, for any tasks, posters, delays and depth of nesting.        *)
(*                                                                         *)
(* The invariant is a conjunction of TypeOK and nine parts.  Each has a    *)
(* lemma that it is inductive relative to those of the others it needs.    *)
(* DelayInv, at the end, is inductive relative to all of them.             *)
(* Before them stand lemmas that say what each action does to the          *)
(* variables an invariant reads, so that no proof unfolds an action twice. *)
(***************************************************************************)
EXTENDS MessageLoopProxy, SequenceLemmas, WellFoundedInduction, FiniteSetTheorems, TLAPS

(* The tasks that still wait for their first look by DoWork, and all those *)
(* that wait.                                                              *)
InLine == ToSet(incoming) \cup ToSet(work)
Queued == InLine \cup ToSet(deferred) \cup delayed

(* The frames of Run: every Run but the innermost is in a task, no task is *)
(* in two of them, the tasks in them are those with status "running", and  *)
(* a nested Run is in a nestable task.  Nothing runs while the loop dies.  *)
FrameInv ==
    /\ \A i \in DOMAIN frames : frames[i].pc = "Task" <=> frames[i].task # NoTask
    /\ \A i \in DOMAIN frames : i # Len(frames) => frames[i].pc = "Task"
    /\ \A i, j \in DOMAIN frames :
         (frames[i].task = frames[j].task /\ frames[i].task # NoTask) => i = j
    /\ \A t \in Tasks : status[t] = "running" <=> \E i \in DOMAIN frames : frames[i].task = t
    /\ \A i \in DOMAIN frames : (i > 1 /\ frames[i].task # NoTask) => Nestable[frames[i].task]
    /\ frames # <<>> => phase = "alive"

(* The four queues share no task, repeat none and hold those with status   *)
(* "queued"; the delayed queue holds only delayed tasks, the deferred one  *)
(* only non-nestable ones.                                                 *)
QueueInv ==
    /\ IsInjective(incoming) /\ IsInjective(work) /\ IsInjective(deferred)
    /\ ToSet(incoming) \cap ToSet(work) = {}
    /\ InLine \cap ToSet(deferred) = {}
    /\ (InLine \cup ToSet(deferred)) \cap delayed = {}
    /\ Queued = {t \in Tasks : status[t] = "queued"}
    /\ \A t \in delayed : Delay[t] > 0
    /\ \A t \in ToSet(deferred) : ~Nestable[t]

(* A task has a run time exactly when it was posted with a delay; the time *)
(* of a task that started, or was due and deferred, has come, for the      *)
(* cached clock is never ahead of the clock.                               *)
TimeInv ==
    /\ \A t \in Tasks : status[t] \notin {"new", "refused"} => (runTime[t] = Null <=> Delay[t] = 0)
    /\ \A t \in Tasks : Started(t) => runTime[t] <= now
    /\ \A t \in ToSet(deferred) : runTime[t] <= now
    /\ recentTime <= now

(* The work queue, then the incoming queue, are in the order of posting,   *)
(* and a task that has left them was posted before every task in them.     *)
InOrder(s) == \A i, j \in DOMAIN s : i < j => QueuedBefore(s[i], s[j])

FifoInv ==
    /\ IsInjective(posted)
    /\ ToSet(posted) = {t \in Tasks : status[t] \notin {"new", "posting", "refused"}}
    /\ InOrder(work) /\ InOrder(incoming)
    /\ \A x \in ToSet(work), y \in ToSet(incoming) : QueuedBefore(x, y)
    /\ \A x \in InLine, y \in Tasks : QueuedBefore(x, y) => y \in InLine
    /\ FifoOrder

(* Each task being posted is with one thread; a thread that owns the lock  *)
(* of the proxy is in PostTaskHelper(), one without it pushes only on a    *)
(* live loop, one that is to wake the pump holds a reference to it, and    *)
(* the proxy forgets the loop when the loop dies.                          *)
PosterInv ==
    /\ \A p \in Posters :
         posterPc[p] = "push" => posterTask[p] \in Tasks /\ status[posterTask[p]] = "posting"
    /\ \A p, q \in Posters :
         posterPc[p] = "push" /\ posterPc[q] = "push" /\ posterTask[p] = posterTask[q] => p = q
    /\ \A t \in Tasks :
         status[t] = "posting" => \E p \in Posters : posterPc[p] = "push" /\ posterTask[p] = t
    /\ \A p \in Posters : proxyLock = p => posterPc[p] # "idle"
    /\ \A p \in Posters : (DirectPost(p) /\ posterPc[p] = "push") => phase = "alive"
    /\ \A p \in Posters : posterPc[p] = "signal" => p \in pumpRefs
    /\ ~target <=> phase = "dead"

(* Nothing is deleted while the loop lives, and the destructor empties the *)
(* queues one phase after the other.                                       *)
PhaseInv ==
    /\ phase = "alive" => \A t \in Tasks : status[t] # "deleted"
    /\ phase \in {"reload", "deleteAgain", "observers", "dead"} => delayed = {} /\ deferred = <<>>
    /\ phase \in {"reload", "observers", "dead"} => work = <<>>
    /\ phase = "dead" => /\ incoming = <<>> /\ proxyLock = NoPoster
                         /\ \A p \in Posters : posterPc[p] # "push"

(* The rounds of the destructor.  Its first call of DeletePendingTasks()   *)
(* in a round after the first finds nothing; the second deletes what the   *)
(* reload moved, all of it queued since the round before, and a task that  *)
(* then still waits in the incoming queue was queued later than that.      *)
PostedSince == Len(posted) - postedBefore

RoundInv ==
    phase # "alive" =>
      /\ PostedSince >= 0 /\ round <= PostedSince + 1
      /\ (phase \in {"deleteFirst", "reload"} /\ round > 0) =>
           /\ OwnedTasks = {}
           /\ incoming # <<>> => round <= PostedSince
      /\ (phase = "deleteAgain" /\ work # <<>>) =>
           /\ round <= PostedSince
           /\ incoming # <<>> => round + 1 <= PostedSince

(* A nested Run that runs a task was entered with nestable tasks allowed;  *)
(* they are not allowed in a task, nor in a nested Run entered without     *)
(* them.                                                                   *)
AllowInv ==
    /\ \A i \in DOMAIN frames : (i > 1 /\ frames[i].pc = "Task") => frames[i].allower
    /\ (frames # <<>> /\ (Top.pc = "Task" \/ (Depth > 1 /\ ~Top.allower))) => ~nestableAllowed

(* Wherever the innermost Run is on its way to sleep, a task posted behind *)
(* its back leaves the event signalled, a poster about to signal it or a   *)
(* DoWork still to come; what the methods already called were to empty     *)
(* stays empty, and the pump's time-out covers the delayed tasks.          *)
WakeInv ==
    (frames # <<>> /\ nestableAllowed) =>
       /\ incoming # <<>> => \/ event \/ At("DoWork") \/ (At("DoDelayedWork") /\ Top.didWork)
                             \/ \E p \in Posters : posterPc[p] = "signal"
       /\ (At("DoDelayedWork") /\ ~Top.didWork) \/ At("DoIdleWork") \/ At("Sleep") \/ At("Wait")
            => work = <<>>
       /\ At("DoIdleWork") \/ At("Sleep") \/ At("Wait")
            => \A t \in delayed : delayedWorkTime # Null /\ delayedWorkTime <= runTime[t]
       /\ (Depth = 1 /\ (At("Sleep") \/ At("Wait"))) => deferred = <<>>
-----------------------------------------------------------------------------
(* A set of numbers has a least one.                                       *)
LEMMA LeastOf ==
    ASSUME NEW T \in SUBSET Nat, T # {}
    PROVE  \E n \in T : \A m \in T : n <= m
<1>1. PICK n \in T : \A m \in T : ~(<<m, n>> \in OpToRel(<, Nat))
  BY NatLessThanWellFounded, WFMin
<1>2. \A m \in T : m \in Nat /\ n \in Nat
  OBVIOUS
<1>3. \A m \in T : ~(m < n)
  BY <1>1, <1>2 DEF OpToRel
<1> QED
  BY <1>2, <1>3

(* The top of the delayed work queue is one of its tasks, and none of them *)
(* has an earlier run time, however the sequence numbers have wrapped.     *)
LEMMA EarliestIsFirst ==
    ASSUME NEW S \in SUBSET Tasks, S # {}, NEW time \in [Tasks -> Times], NEW number
    PROVE  /\ EarliestOf(S, time, number) \in S
           /\ \A u \in S : time[EarliestOf(S, time, number)] <= time[u]
<1> DEFINE first == {t \in S : \A u \in S : time[t] <= time[u]}
           Leads(t) == \A u \in S \ {t} : RunsBefore(time[t], number[t], time[u], number[u])
<1> MaxTime \in Nat
  BY MaxTimeAssumption
<1>1. first # {}
  <2> DEFINE T == {time[t] : t \in S}
  <2>1. T \in SUBSET Nat /\ T # {}
    BY DEF Times
  <2> HIDE DEF T
  <2>2. PICK n \in T : \A m \in T : n <= m
    BY <2>1, LeastOf
  <2> QED
    BY <2>2 DEF T
<1> DEFINE e == CHOOSE t \in first : (\E u \in first : Leads(u)) => Leads(t)
<1>2. \E t \in first : (\E u \in first : Leads(u)) => Leads(t)
  <2> HIDE DEF first, Leads
  <2> QED
    BY <1>1
<1>3. e \in first
  <2> HIDE DEF first, Leads
  <2> QED
    BY <1>2
<1>4. EarliestOf(S, time, number) = e
  BY DEF EarliestOf
<1> QED
  BY <1>3, <1>4

(* SetToSeq of at most one task.                                           *)
LEMMA SequenceOfOne ==
    /\ SetToSeq({}) = <<>>
    /\ \A t \in Tasks : SetToSeq({t}) = <<t>>
<1>1. SetToSeq({}) = <<>>
  <2>1. Cardinality({}) = 0
    BY FS_EmptySet
  <2>2. \E f \in [1 .. 0 -> {}] : IsInjective(f)
    <3>1. <<>> \in [1 .. 0 -> {}] /\ IsInjective(<<>>)
      BY DEF IsInjective
    <3> QED
      BY <3>1
  <2>3. SetToSeq({}) \in [1 .. 0 -> {}]
    BY <2>1, <2>2 DEF SetToSeq
  <2> QED
    BY <2>3
<1>2. ASSUME NEW t \in Tasks
      PROVE  SetToSeq({t}) = <<t>>
  <2>1. Cardinality({t}) = 1
    BY FS_Singleton
  <2>2. \E f \in [1 .. 1 -> {t}] : IsInjective(f)
    <3>1. [i \in 1 .. 1 |-> t] \in [1 .. 1 -> {t}] /\ IsInjective([i \in 1 .. 1 |-> t])
      BY DEF IsInjective
    <3> QED
      BY <3>1
  <2>3. SetToSeq({t}) \in [1 .. 1 -> {t}]
    BY <2>1, <2>2 DEF SetToSeq
  <2> QED
    BY <2>3
<1> QED
  BY <1>1, <1>2
-----------------------------------------------------------------------------
(* What a step of Run may do to its frames: change the innermost one, ...  *)
LEMMA TopInFrames ==
    ASSUME frames \in Seq(Frames), frames # <<>>
    PROVE  Top \in Frames
  BY DEF Top, Depth

LEMMA TopChanged ==
    ASSUME frames \in Seq(Frames), frames # <<>>, NEW f \in Frames, SetTop(f)
    PROVE  /\ frames' \in Seq(Frames) /\ frames' # <<>>
           /\ Depth \in Nat \ {0} /\ Depth' = Depth
           /\ DOMAIN frames = 1 .. Depth /\ DOMAIN frames' = 1 .. Depth
           /\ frames'[Depth] = f /\ Top' = f
           /\ \A i \in 1 .. Depth : i # Depth => frames'[i] = frames[i]
  BY DEF SetTop, Depth, Top

(* ... leave it, ...                                                       *)
LEMMA FrameLeft ==
    ASSUME frames \in Seq(Frames), frames # <<>>, frames' = Front(frames)
    PROVE  /\ frames' \in Seq(Frames)
           /\ Depth \in Nat \ {0} /\ Depth' = Depth - 1
           /\ DOMAIN frames = 1 .. Depth /\ DOMAIN frames' = 1 .. Depth - 1
           /\ \A i \in 1 .. Depth - 1 : frames'[i] = frames[i]
           /\ frames' # <<>> => Depth > 1 /\ Top' = frames[Depth - 1]
<1>1. /\ Depth \in Nat \ {0} /\ DOMAIN frames = 1 .. Depth /\ Len(frames) = Depth
  BY DEF Depth
<1>2. /\ frames' \in Seq(Frames) /\ Len(frames') = Depth - 1 /\ DOMAIN frames' = 1 .. Depth - 1
      /\ \A i \in 1 .. Depth - 1 : frames'[i] = frames[i]
  BY <1>1 DEF Front
<1>3. Depth' = Depth - 1
  BY <1>2 DEF Depth
<1>4. frames' # <<>> => Depth > 1
  BY <1>1, <1>2
<1>5. frames' # <<>> => Top' = frames[Depth - 1]
  BY <1>1, <1>2, <1>3, <1>4 DEF Top
<1> QED
  BY <1>1, <1>2, <1>3, <1>4, <1>5

(* ... or enter another one.                                               *)
LEMMA FrameEntered ==
    ASSUME frames \in Seq(Frames), NEW f \in Frames, frames' = Append(frames, f)
    PROVE  /\ frames' \in Seq(Frames) /\ frames' # <<>>
           /\ Depth \in Nat /\ Depth' = Depth + 1
           /\ DOMAIN frames = 1 .. Depth /\ DOMAIN frames' = 1 .. Depth + 1
           /\ frames'[Depth + 1] = f /\ Top' = f
           /\ \A i \in 1 .. Depth : frames'[i] = frames[i]
  BY DEF Depth, Top

(* A delegate method that returns has the pump go on in the same Run, or   *)
(* leave it.                                                               *)
GoesOn(stage, did, allowed) ==
    \E f \in Frames : /\ SetTop(f) /\ nestableAllowed' = allowed
                      /\ f.pc = NextStage(stage, did) /\ f.stage = stage /\ f.didWork = did
                      /\ f.task = NoTask /\ f.allower = Top.allower
                      /\ f.pc # "Task" /\ f.pc # "Wait"

LeavesRun(allowed) == frames' = Front(frames) /\ nestableAllowed' = (allowed /\ ~Top.allower)

(* After a method that ran no task.                                        *)
LEMMA Returned ==
    ASSUME frames \in Seq(Frames), frames # <<>>, NEW stage \in Stages, NEW result \in BOOLEAN,
           NEW keep \in BOOLEAN, NEW allowed \in BOOLEAN,
           DelegateReturned(stage, result, keep, allowed)
    PROVE  /\ keepRunning' = TRUE /\ nestableAllowed' \in BOOLEAN /\ frames' \in Seq(Frames)
           /\ \/ GoesOn(stage, result \/ (stage = "DoDelayedWork" /\ Top.didWork), allowed)
              \/ LeavesRun(allowed)
<1> DEFINE did == result \/ (stage = "DoDelayedWork" /\ Top.didWork)
           f == [Top EXCEPT !.pc = NextStage(stage, did), !.stage = stage,
                            !.didWork = did, !.task = NoTask]
<1>1. Top \in Frames
  BY DEF Top, Depth
<1>2. did \in BOOLEAN
  BY <1>1 DEF Frames
<1>3. NextStage(stage, did) \in Stages \cup {"Sleep"}
  <2> HIDE DEF did
  <2> QED
    BY <1>2 DEF NextStage, Stages
<1>4. /\ f \in Frames /\ f.pc = NextStage(stage, did) /\ f.stage = stage /\ f.didWork = did
      /\ f.task = NoTask /\ f.allower = Top.allower
  <2> HIDE DEF did
  <2> QED
    BY <1>1, <1>2, <1>3 DEF Frames
<1>5. f.pc # "Task" /\ f.pc # "Wait"
  BY <1>3, <1>4 DEF Stages
<1>6. keepRunning' = TRUE
  BY DEF DelegateReturned
<1>7. CASE keep
  <2>1. SetTop(f) /\ nestableAllowed' = allowed
    BY <1>7 DEF DelegateReturned
  <2>2. frames' \in Seq(Frames)
    BY <1>4, <2>1, TopChanged
  <2> HIDE DEF f, did
  <2>3. GoesOn(stage, did, allowed)
    BY <1>4, <1>5, <2>1 DEF GoesOn
  <2> QED
    BY <1>6, <2>1, <2>2, <2>3 DEF did
<1>8. CASE ~keep
  <2>1. frames' = Front(frames) /\ nestableAllowed' = (allowed /\ ~Top.allower)
    BY <1>8 DEF DelegateReturned
  <2>2. nestableAllowed' \in BOOLEAN
    BY <2>1
  <2>3. frames' \in Seq(Frames)
    BY <2>1, FrameLeft
  <2> QED
    BY <1>6, <2>1, <2>2, <2>3 DEF LeavesRun
<1> QED
  BY <1>7, <1>8

(* After a method that ran a task, once the task has returned.             *)
LEMMA ReturnedFromTask ==
    ASSUME frames \in Seq(Frames), frames # <<>>, NEW stage \in Stages, keepRunning \in BOOLEAN,
           DelegateReturned(stage, TRUE, keepRunning, TRUE)
    PROVE  /\ keepRunning' = TRUE /\ nestableAllowed' \in BOOLEAN /\ frames' \in Seq(Frames)
           /\ GoesOn(stage, TRUE, TRUE) \/ LeavesRun(TRUE)
<1> DEFINE f == [Top EXCEPT !.pc = NextStage(stage, TRUE), !.stage = stage,
                            !.didWork = TRUE, !.task = NoTask]
<1>1. Top \in Frames
  BY DEF Top, Depth
<1>2. NextStage(stage, TRUE) \in Stages
  BY DEF NextStage, Stages
<1>3. /\ f \in Frames /\ f.pc = NextStage(stage, TRUE) /\ f.stage = stage /\ f.didWork = TRUE
      /\ f.task = NoTask /\ f.allower = Top.allower
  BY <1>1, <1>2 DEF Frames
<1>4. f.pc # "Task" /\ f.pc # "Wait"
  BY <1>2, <1>3 DEF Stages
<1>5. keepRunning' = TRUE
  BY DEF DelegateReturned
<1>6. CASE keepRunning
  <2>1. SetTop(f) /\ nestableAllowed' = TRUE
    BY <1>6 DEF DelegateReturned
  <2> HIDE DEF f
  <2>2. GoesOn(stage, TRUE, TRUE)
    BY <1>3, <1>4, <2>1 DEF GoesOn
  <2> QED
    BY <1>3, <1>5, <2>1, <2>2, TopChanged
<1>7. CASE ~keepRunning
  <2>1. frames' = Front(frames) /\ nestableAllowed' = (TRUE /\ ~Top.allower)
    BY <1>7 DEF DelegateReturned
  <2>2. nestableAllowed' \in BOOLEAN
    BY <2>1
  <2> QED
    BY <1>5, <2>1, <2>2, FrameLeft DEF LeavesRun
<1> QED
  BY <1>6, <1>7

(* RunTask() enters the task.                                              *)
LEMMA TaskEntered ==
    ASSUME frames \in Seq(Frames), frames # <<>>, NEW stage \in Stages, NEW t \in Tasks,
           RunTask(stage, t)
    PROVE  /\ nestableAllowed' = FALSE /\ UNCHANGED keepRunning /\ SetStatus({t}, "running")
           /\ frames' \in Seq(Frames)
           /\ \E f \in Frames : SetTop(f) /\ f.pc = "Task" /\ f.task = t /\ f.stage = stage
                                /\ f.allower = Top.allower
<1> DEFINE f == [Top EXCEPT !.pc = "Task", !.stage = stage, !.task = t]
<1>1. Top \in Frames
  BY DEF Top, Depth
<1>2. f \in Frames /\ f.pc = "Task" /\ f.task = t /\ f.stage = stage /\ f.allower = Top.allower
  BY <1>1 DEF Frames
<1>3. SetTop(f) /\ nestableAllowed' = FALSE /\ UNCHANGED keepRunning /\ SetStatus({t}, "running")
  BY DEF RunTask
<1>4. frames' \in Seq(Frames)
  BY <1>2, <1>3, TopChanged
<1> HIDE DEF f
<1> QED
  BY <1>2, <1>3, <1>4

(* ReloadWorkQueue() swaps the queues when the work queue is empty.        *)
LEMMA ReloadSwaps ==
    /\ work = <<>> => Reloaded.work = incoming /\ Reloaded.incoming = <<>>
    /\ work # <<>> => Reloaded.work = work /\ Reloaded.incoming = incoming
  BY DEF Reloaded

(* The first task of the reloaded work queue.                              *)
LEMMA ReloadedHead ==
    ASSUME TypeOK, Reloaded.work # <<>>
    PROVE  /\ Reloaded.work \in Seq(Tasks) /\ Reloaded.incoming \in Seq(Tasks)
           /\ Head(Reloaded.work) \in Tasks /\ Tail(Reloaded.work) \in Seq(Tasks)
<1>1. Reloaded.work \in Seq(Tasks) /\ Reloaded.incoming \in Seq(Tasks)
  BY ReloadSwaps DEF TypeOK
<1> QED
  BY <1>1

(* SetStatus() of a set of tasks.                                          *)
LEMMA StatusSet ==
    ASSUME status \in [Tasks -> Statuses], NEW S, NEW value \in Statuses, SetStatus(S, value)
    PROVE  /\ status' \in [Tasks -> Statuses]
           /\ \A t \in Tasks : status'[t] = IF t \in S THEN value ELSE status[t]
  BY DEF SetStatus
-----------------------------------------------------------------------------
(* The types hold at first.                                                *)
LEMMA InitTypeOK ==
    ASSUME Init
    PROVE  TypeOK
<1> USE LoopAssumption, SeqModulusAssumption, MaxTimeAssumption, PosterAssumption
<1>1. PumpTypeOK
  <2>1. keepRunning = TRUE /\ event = FALSE /\ delayedWorkTime = 0 /\ now = 1
    BY DEF Init, PumpInit, Null
  <2>2. delayedWorkTime \in Times /\ now \in Times \ {Null}
    BY <2>1, MaxTimeAssumption DEF Times, Null
  <2> QED
    BY <2>1, <2>2 DEF PumpTypeOK
<1>2. /\ incoming \in Seq(Tasks) /\ work \in Seq(Tasks) /\ deferred \in Seq(Tasks)
      /\ posted \in Seq(Tasks) /\ frames \in Seq(Frames) /\ delayed \subseteq Tasks
  BY DEF Init, LoopInit
<1>3. runTime \in [Tasks -> Times] /\ recentTime \in Times
  BY DEF Init, LoopInit, Times, Null
<1>4. seqNum \in [Tasks -> SeqNumbers] /\ nextSeqNum \in SeqNumbers
  BY DEF Init, LoopInit, SeqNumbers
<1>5. /\ nestableAllowed \in BOOLEAN /\ phase \in Phases /\ status \in [Tasks -> Statuses]
      /\ target \in BOOLEAN /\ round \in Nat /\ postedBefore \in Nat
  BY DEF Init, LoopInit, Phases, Statuses
<1>6. /\ proxyLock \in Posters \cup {NoPoster} /\ posterTask \in [Posters -> Tasks \cup {NoTask}]
      /\ posterPc \in [Posters -> {"idle", "push", "signal"}] /\ pumpRefs \subseteq Posters
  BY DEF Init
<1> QED
  BY <1>1, <1>2, <1>3, <1>4, <1>5, <1>6 DEF TypeOK

(* A post gives the task a run time that the clock can reach.              *)
LEMMA RunTimeType ==
    ASSUME TypeOK, NEW t \in Tasks, Representable(t)
    PROVE  /\ CalculateDelayedRuntime(t) \in Times
           /\ CalculateDelayedRuntime(t) = Null <=> Delay[t] = 0
<1> Delay[t] \in Nat /\ now \in Times \ {Null} /\ MaxTime \in Nat
  BY LoopAssumption, MaxTimeAssumption DEF TypeOK, PumpTypeOK
<1> QED
  BY DEF CalculateDelayedRuntime, Representable, Times, Null

(* NextSeqNum() stays an int.                                              *)
LEMMA NextSeqNumType ==
    ASSUME NEW n \in SeqNumbers
    PROVE  NextSeqNum(n) \in SeqNumbers
<1> SeqModulus \in Nat \ {0}
  BY SeqModulusAssumption
<1>1. (n + 1) % SeqModulus \in 0 .. (SeqModulus - 1)
  BY DEF SeqNumbers
<1> QED
  BY <1>1 DEF NextSeqNum, SeqNumbers

(* Every action of the loop keeps every type.                              *)
LEMMA TypeOKInductive ==
    ASSUME TypeOK, PosterInv, [Next]_vars
    PROVE  TypeOK'
<1> USE LoopAssumption, MaxTimeAssumption DEF TypeOK
<1> USE DEF queueVars, numberVars, roundVars, pumpVars, loopVars, proxyVars
<1>1. ASSUME OwnThreadPost, UNCHANGED proxyVars
      PROVE  TypeOK'
  <2>1. PICK t \in Tasks : PostTask(t)
    BY <1>1 DEF OwnThreadPost
  <2>2. runTime' \in [Tasks -> Times]
    BY <2>1, RunTimeType DEF PostTask
  <2>3. incoming' \in Seq(Tasks) /\ posted' \in Seq(Tasks)
    BY <2>1 DEF PostTask
  <2>4. event' = TRUE \/ UNCHANGED event
    BY <2>1 DEF PostTask, ScheduleWork
  <2>5. status' \in [Tasks -> Statuses]
    BY <2>1, StatusSet DEF PostTask, Statuses
  <2> QED
    BY <1>1, <2>2, <2>3, <2>4, <2>5 DEF OwnThreadPost, PumpTypeOK
<1>2. ASSUME DoWorkFindsNothing, UNCHANGED proxyVars
      PROVE  TypeOK'
  <2>1. frames' \in Seq(Frames) /\ nestableAllowed' \in BOOLEAN /\ keepRunning' \in BOOLEAN
    BY <1>2, Returned DEF DoWorkFindsNothing, At, Stages, PumpTypeOK
  <2> QED
    BY <1>2, <2>1 DEF DoWorkFindsNothing, PumpTypeOK
<1>3. ASSUME DoWorkTakesTask, UNCHANGED proxyVars
      PROVE  TypeOK'
  <2> DEFINE t == Head(Reloaded.work)
  <2>1. /\ t \in Tasks /\ incoming' \in Seq(Tasks) /\ work' \in Seq(Tasks)
        /\ UNCHANGED <<runTime, recentTime, phase, roundVars, posted, event, now, proxyVars>>
    BY <1>3, ReloadedHead DEF DoWorkTakesTask
  <2>2. CASE /\ AddToDelayedWorkQueue(t)
             /\ UNCHANGED <<deferred, status, frames, nestableAllowed, keepRunning>>
    <3>1. delayed' \subseteq Tasks
      BY <2>1, <2>2 DEF AddToDelayedWorkQueue
    <3>2. seqNum' \in [Tasks -> SeqNumbers] /\ nextSeqNum' \in SeqNumbers
      BY <2>1, <2>2, NextSeqNumType DEF AddToDelayedWorkQueue
    <3>3. delayedWorkTime' \in Times
      <4>1. delayedWorkTime' \in {runTime[t], delayedWorkTime}
        BY <2>2 DEF AddToDelayedWorkQueue
      <4> QED
        BY <2>1, <4>1 DEF PumpTypeOK
    <3> QED
      BY <2>1, <2>2, <3>1, <3>2, <3>3 DEF PumpTypeOK
  <2>3. CASE /\ DeferOrRunPendingTask("DoWork", t)
             /\ UNCHANGED <<numberVars, delayed, delayedWorkTime>>
    <3>1. CASE RunTask("DoWork", t) /\ UNCHANGED deferred
      <4>1. /\ nestableAllowed' = FALSE /\ UNCHANGED keepRunning /\ frames' \in Seq(Frames)
            /\ SetStatus({t}, "running")
        BY <1>3, <2>1, <3>1, TaskEntered DEF DoWorkTakesTask, At, Stages
      <4>2. status' \in [Tasks -> Statuses]
        BY <4>1, StatusSet DEF Statuses
      <4> QED
        BY <2>1, <2>3, <3>1, <4>1, <4>2 DEF PumpTypeOK
    <3>2. CASE /\ deferred' = Append(deferred, t)
               /\ UNCHANGED <<status, frames, nestableAllowed, keepRunning>>
      BY <2>1, <2>3, <3>2 DEF PumpTypeOK
    <3> QED
      BY <2>3, <3>1, <3>2 DEF DeferOrRunPendingTask
  <2> QED
    BY <1>3, <2>2, <2>3 DEF DoWorkTakesTask
<1>4. ASSUME DoDelayedWorkFindsNothing, UNCHANGED proxyVars
      PROVE  TypeOK'
  <2>1. frames' \in Seq(Frames) /\ nestableAllowed' \in BOOLEAN /\ keepRunning' \in BOOLEAN
    BY <1>4, Returned DEF DoDelayedWorkFindsNothing, At, Stages, PumpTypeOK
  <2>2. Null \in Times
    BY DEF Times, Null
  <2> QED
    BY <1>4, <2>1, <2>2 DEF DoDelayedWorkFindsNothing, PumpTypeOK
<1>5. ASSUME DoDelayedWorkNotDue, UNCHANGED proxyVars
      PROVE  TypeOK'
  <2>1. frames' \in Seq(Frames) /\ nestableAllowed' \in BOOLEAN /\ keepRunning' \in BOOLEAN
    BY <1>5, Returned DEF DoDelayedWorkNotDue, At, Stages, PumpTypeOK
  <2>2. Earliest \in Tasks
    BY <1>5, EarliestIsFirst DEF DoDelayedWorkNotDue, Earliest
  <2> QED
    BY <1>5, <2>1, <2>2 DEF DoDelayedWorkNotDue, PumpTypeOK
<1>6. ASSUME DoDelayedWorkTakesTask, UNCHANGED proxyVars
      PROVE  TypeOK'
  <2> DEFINE t == Earliest
  <2>1. t \in Tasks
    BY <1>6, EarliestIsFirst DEF DoDelayedWorkTakesTask, Earliest
  <2>2. /\ delayed' = delayed \ {t} /\ recentTime' \in {recentTime, now}
        /\ DeferOrRunPendingTask("DoDelayedWork", t)
        /\ UNCHANGED <<incoming, work, runTime, numberVars, phase, roundVars, posted, event, now, proxyVars>>
    BY <1>6 DEF DoDelayedWorkTakesTask
  <2>3. recentTime' \in Times /\ delayed' \subseteq Tasks
    BY <2>2 DEF PumpTypeOK
  <2>4. delayedWorkTime' \in Times
    <3>1. CASE delayed' = {}
      BY <1>6, <3>1 DEF DoDelayedWorkTakesTask, PumpTypeOK
    <3>2. CASE delayed' # {}
      <4>1. delayedWorkTime' = runTime[EarliestOf(delayed', runTime, seqNum)]
        BY <1>6, <3>2 DEF DoDelayedWorkTakesTask
      <4>2. EarliestOf(delayed', runTime, seqNum) \in delayed'
        BY <2>3, <3>2, EarliestIsFirst
      <4> QED
        BY <2>3, <4>1, <4>2
    <3> QED
      BY <3>1, <3>2
  <2> HIDE DEF t
  <2>5. CASE RunTask("DoDelayedWork", t) /\ UNCHANGED deferred
    <3>1. /\ nestableAllowed' = FALSE /\ UNCHANGED keepRunning /\ frames' \in Seq(Frames)
          /\ SetStatus({t}, "running")
      BY <1>6, <2>1, <2>5, TaskEntered DEF DoDelayedWorkTakesTask, At, Stages
    <3>2. status' \in [Tasks -> Statuses]
      BY <3>1, StatusSet DEF Statuses
    <3> QED
      BY <2>2, <2>3, <2>4, <2>5, <3>1, <3>2 DEF PumpTypeOK
  <2>6. CASE /\ deferred' = Append(deferred, t) /\ UNCHANGED status
             /\ DelegateReturned("DoDelayedWork", FALSE, keepRunning, nestableAllowed)
    <3>1. frames' \in Seq(Frames) /\ nestableAllowed' \in BOOLEAN /\ keepRunning' \in BOOLEAN
      BY <1>6, <2>6, Returned DEF DoDelayedWorkTakesTask, At, Stages, PumpTypeOK
    <3>2. deferred' \in Seq(Tasks)
      BY <2>1, <2>6
    <3> QED
      BY <2>2, <2>3, <2>4, <2>6, <3>1, <3>2 DEF PumpTypeOK
  <2> QED
    BY <2>2, <2>5, <2>6 DEF DeferOrRunPendingTask
<1>7. ASSUME DoIdleWorkTakesTask, UNCHANGED proxyVars
      PROVE  TypeOK'
  <2>1. Head(deferred) \in Tasks /\ deferred' \in Seq(Tasks)
    BY <1>7 DEF DoIdleWorkTakesTask, HasDeferredTask
  <2>2. /\ nestableAllowed' = FALSE /\ UNCHANGED keepRunning /\ frames' \in Seq(Frames)
        /\ SetStatus({Head(deferred)}, "running")
    BY <1>7, <2>1, TaskEntered DEF DoIdleWorkTakesTask, At, Stages
  <2>3. status' \in [Tasks -> Statuses]
    BY <2>2, StatusSet DEF Statuses
  <2> QED
    BY <1>7, <2>1, <2>2, <2>3 DEF DoIdleWorkTakesTask, PumpTypeOK
<1>8. ASSUME DoIdleWorkFindsNothing, UNCHANGED proxyVars
      PROVE  TypeOK'
  <2>1. (keepRunning /\ ~Top.quitReceived) \in BOOLEAN
    OBVIOUS
  <2>2. frames' \in Seq(Frames) /\ nestableAllowed' \in BOOLEAN /\ keepRunning' \in BOOLEAN
    BY <1>8, <2>1, Returned DEF DoIdleWorkFindsNothing, At, Stages, PumpTypeOK
  <2> QED
    BY <1>8, <2>2 DEF DoIdleWorkFindsNothing, PumpTypeOK
<1>9. ASSUME PrepareToSleep \/ WakeUp \/ Quit, UNCHANGED proxyVars
      PROVE  TypeOK'
  <2>1. frames # <<>> /\ Top \in Frames
    BY <1>9 DEF PrepareToSleep, WakeUp, Quit, InTask, At, Top, Depth
  <2>2. \E f \in {[Top EXCEPT !.pc = "DoWork"], [Top EXCEPT !.pc = "Wait"],
                  [Top EXCEPT !.quitReceived = TRUE]} : SetTop(f)
    BY <1>9 DEF PrepareToSleep, WakeUp, Quit
  <2>3. frames' \in Seq(Frames)
    <3>1. PICK f \in Frames : SetTop(f)
      BY <2>1, <2>2 DEF Frames, Stages
    <3> QED
      BY <2>1, <3>1, TopChanged
  <2>4. /\ delayedWorkTime' \in {delayedWorkTime, Null} /\ event' \in {event, FALSE}
        /\ UNCHANGED <<queueVars, runTime, numberVars, recentTime, nestableAllowed, phase, roundVars, status,
                       posted, keepRunning, now, proxyVars>>
    BY <1>9 DEF PrepareToSleep, WakeUp, Quit
  <2>5. Null \in Times
    BY DEF Times, Null
  <2> QED
    BY <2>3, <2>4, <2>5 DEF PumpTypeOK
<1>10. ASSUME Run \/ RunNested, UNCHANGED proxyVars
       PROVE  TypeOK'
  <2>1. \A allPending, allower \in BOOLEAN : NewFrame(allPending, allower) \in Frames
    BY DEF NewFrame, Frames, Stages
  <2>2. frames' \in Seq(Frames)
    <3>1. PICK f \in Frames : frames' = <<f>> \/ frames' = Append(frames, f)
      BY <1>10, <2>1 DEF Run, RunNested
    <3>2. <<f>> \in Seq(Frames) /\ Append(frames, f) \in Seq(Frames)
      OBVIOUS
    <3> QED
      BY <3>1, <3>2
  <2>3. /\ nestableAllowed' \in BOOLEAN /\ event' \in BOOLEAN
        /\ UNCHANGED <<queueVars, runTime, numberVars, recentTime, phase, roundVars, status, posted,
                       keepRunning, delayedWorkTime, now, proxyVars>>
    BY <1>10 DEF Run, RunNested, PumpTypeOK
  <2> QED
    BY <2>2, <2>3 DEF PumpTypeOK
<1>11. ASSUME QuitNow, UNCHANGED proxyVars
       PROVE  TypeOK'
  BY <1>11 DEF QuitNow, PumpQuit, PumpTypeOK
<1>12. ASSUME FinishTask, UNCHANGED proxyVars
       PROVE  TypeOK'
  <2>1. frames # <<>> /\ DelegateReturned(Top.stage, TRUE, keepRunning, TRUE)
    BY <1>12 DEF FinishTask, InTask, At
  <2>2. Top.stage \in Stages
    BY <2>1, TopInFrames DEF Frames
  <2>3. frames' \in Seq(Frames) /\ nestableAllowed' \in BOOLEAN /\ keepRunning' = TRUE
    <3>1. PICK stage \in Stages : stage = Top.stage
      BY <2>2
    <3>2. keepRunning \in BOOLEAN /\ DelegateReturned(stage, TRUE, keepRunning, TRUE)
      BY <2>1, <3>1 DEF PumpTypeOK
    <3> QED
      BY <2>1, <3>2, ReturnedFromTask
  <2>4. status' \in [Tasks -> Statuses]
    BY <1>12, StatusSet DEF FinishTask, Statuses
  <2> QED
    BY <1>12, <2>3, <2>4 DEF FinishTask, PumpTypeOK
<1>13. ASSUME BeginDestruction \/ ReloadWorkQueue, UNCHANGED proxyVars
       PROVE  TypeOK'
  <2>1. phase' \in Phases /\ round' \in Nat /\ postedBefore' \in Nat
    BY <1>13 DEF BeginDestruction, ReloadWorkQueue, Phases
  <2>2. incoming' \in Seq(Tasks) /\ work' \in Seq(Tasks)
    BY <1>13, ReloadSwaps DEF BeginDestruction, ReloadWorkQueue
  <2>3. UNCHANGED <<deferred, delayed, runTime, numberVars, recentTime, nestableAllowed, frames,
                    status, posted, pumpVars, now, proxyVars>>
    BY <1>13 DEF BeginDestruction, ReloadWorkQueue
  <2> QED
    BY <2>1, <2>2, <2>3 DEF PumpTypeOK
<1>14. ASSUME DeletePendingTasks, UNCHANGED proxyVars
       PROVE  TypeOK'
  <2>1. PICK more \in {{}} \cup {{t} : t \in Fresh} :
          /\ incoming' = incoming \o SetToSeq(more)
          /\ posted' = posted \o SetToSeq(more)
          /\ status' = [t \in Tasks |-> IF t \in OwnedTasks THEN "deleted"
                                        ELSE IF t \in more THEN "queued" ELSE status[t]]
          /\ \A t \in more : Representable(t)
          /\ runTime' = [t \in Tasks |-> IF t \in more THEN CalculateDelayedRuntime(t)
                                         ELSE runTime[t]]
          /\ event' = (event \/ (more # {} /\ incoming = <<>>))
    BY <1>14 DEF DeletePendingTasks
  <2>2. SetToSeq(more) \in Seq(Tasks)
    <3>1. CASE more = {}
      <4>1. SetToSeq(more) = <<>>
        BY <3>1, SequenceOfOne, Zenon
      <4> QED
        BY <4>1
    <3>2. CASE more # {}
      <4>1. PICK t \in Tasks : more = {t}
        BY <3>2 DEF Fresh
      <4>2. SetToSeq(more) = <<t>>
        BY <4>1, SequenceOfOne
      <4> QED
        BY <4>2
    <3> QED
      BY <3>1, <3>2
  <2>3. incoming' \in Seq(Tasks) /\ posted' \in Seq(Tasks)
    BY <2>1, <2>2
  <2>4. status' \in [Tasks -> Statuses]
    BY <2>1 DEF Statuses
  <2>5. runTime' \in [Tasks -> Times]
    BY <2>1, RunTimeType
  <2>6. event' \in BOOLEAN
    BY <2>1 DEF PumpTypeOK
  <2>7. /\ phase' \in Phases /\ round' \in Nat /\ work' \in Seq(Tasks) /\ deferred' \in Seq(Tasks)
        /\ delayed' \subseteq Tasks
        /\ UNCHANGED <<numberVars, recentTime, nestableAllowed, frames, postedBefore, keepRunning,
                       delayedWorkTime, now, proxyVars>>
    <3>1. phase' \in Phases /\ round' \in Nat
      BY <1>14 DEF DeletePendingTasks, Phases
    <3> QED
      BY <1>14, <3>1 DEF DeletePendingTasks
  <2> QED
    BY <2>3, <2>4, <2>5, <2>6, <2>7 DEF PumpTypeOK
<1>15. ASSUME WillDestroyCurrentMessageLoop
       PROVE  TypeOK'
  <2>1. /\ phase' = "dead" /\ incoming' = <<>> /\ target' = FALSE
        /\ SetStatus(ToSet(incoming), "deleted")
        /\ UNCHANGED <<work, deferred, delayed, runTime, numberVars, recentTime, nestableAllowed,
                       frames, roundVars, posted, pumpVars, now, proxyLock, posterPc, posterTask,
                       pumpRefs>>
    BY <1>15 DEF WillDestroyCurrentMessageLoop, EndDestruction
  <2>2. status' \in [Tasks -> Statuses]
    BY <2>1, StatusSet DEF Statuses
  <2>3. phase' \in Phases /\ incoming' \in Seq(Tasks)
    BY <2>1 DEF Phases
  <2> QED
    BY <2>1, <2>2, <2>3 DEF PumpTypeOK
<1>16. ASSUME NEW p \in Posters, PostRefused(p)
       PROVE  TypeOK'
  <2>1. status' \in [Tasks -> Statuses]
    BY <1>16, StatusSet DEF PostRefused, Statuses
  <2> QED
    BY <1>16, <2>1 DEF PostRefused, PumpTypeOK
<1>17. ASSUME NEW p \in Posters, PostBegins(p)
       PROVE  TypeOK'
  <2>1. PICK t \in Fresh : /\ Representable(t)
                           /\ runTime' = [runTime EXCEPT ![t] = CalculateDelayedRuntime(t)]
                           /\ SetStatus({t}, "posting")
                           /\ posterTask' = [posterTask EXCEPT ![p] = t]
    BY <1>17 DEF PostBegins
  <2>2. t \in Tasks
    BY DEF Fresh
  <2>3. runTime' \in [Tasks -> Times] /\ posterTask' \in [Posters -> Tasks \cup {NoTask}]
    BY <2>1, <2>2, RunTimeType
  <2>4. status' \in [Tasks -> Statuses]
    BY <2>1, StatusSet DEF Statuses
  <2>5. /\ proxyLock' \in Posters \cup {NoPoster}
        /\ posterPc' \in [Posters -> {"idle", "push", "signal"}]
        /\ UNCHANGED <<queueVars, numberVars, recentTime, nestableAllowed, frames, phase, roundVars,
                       posted, pumpVars, now, target, pumpRefs>>
    BY <1>17 DEF PostBegins
  <2> QED
    BY <2>3, <2>4, <2>5 DEF PumpTypeOK
<1>18. ASSUME NEW p \in Posters, PostPushes(p)
       PROVE  TypeOK'
  <2>0. posterTask[p] \in Tasks
    BY <1>18 DEF PostPushes, PosterInv
  <2>1. incoming' \in Seq(Tasks) /\ posted' \in Seq(Tasks)
    BY <1>18, <2>0 DEF PostPushes
  <2>2. status' \in [Tasks -> Statuses]
    BY <1>18, <2>0, StatusSet DEF PostPushes, Statuses
  <2>3. /\ proxyLock' \in Posters \cup {NoPoster}
        /\ posterPc' \in [Posters -> {"idle", "push", "signal"}]
        /\ posterTask' \in [Posters -> Tasks \cup {NoTask}]
        /\ pumpRefs' \subseteq Posters
    BY <1>18 DEF PostPushes, PostReturns, RefsWith
  <2>4. UNCHANGED <<work, deferred, delayed, runTime, numberVars, recentTime, nestableAllowed,
                    frames, phase, roundVars, pumpVars, now, target>>
    BY <1>18 DEF PostPushes
  <2> QED
    BY <2>1, <2>2, <2>3, <2>4 DEF PumpTypeOK
<1>19. ASSUME NEW p \in Posters, PostSignals(p)
       PROVE  TypeOK'
  BY <1>19 DEF PostSignals, PostReturns, ScheduleWork, PumpTypeOK
<1>20. ASSUME TimePasses
       PROVE  TypeOK'
  BY <1>20 DEF TimePasses, Tick, PumpTypeOK, Times, Null
<1>21. CASE UNCHANGED vars
  BY <1>21 DEF vars, PumpTypeOK
<1> QED
  BY <1>1, <1>2, <1>3, <1>4, <1>5, <1>6, <1>7, <1>8, <1>9, <1>10, <1>11, <1>12, <1>13, <1>14, <1>15,
     <1>16, <1>17, <1>18, <1>19, <1>20, <1>21
     DEF Next, LoopStep, PumpStep, ProgramStep, DestructorStep, PosterStep
-----------------------------------------------------------------------------
(* The frames of Run.  A step that leaves them alone: the tasks that run   *)
(* are the same.                                                           *)
RunningIsSame == \A t \in Tasks : status'[t] = "running" <=> status[t] = "running"

LEMMA FramesUnchanged ==
    ASSUME FrameInv, UNCHANGED frames, RunningIsSame, frames # <<>> => phase' = "alive"
    PROVE  FrameInv'
  BY DEF FrameInv, RunningIsSame

(* A step in which the innermost Run goes on or ends, and its task, if it  *)
(* runs one, with it.                                                      *)
LEMMA TaskLeavesFrames ==
    ASSUME frames \in Seq(Frames), FrameInv, frames # <<>>, NEW f \in Frames,
           frames' = Front(frames) \/ (SetTop(f) /\ f.task = NoTask /\ f.pc # "Task"),
           \A t \in Tasks : status'[t] = "running" <=> status[t] = "running" /\ t # Top.task,
           UNCHANGED phase
    PROVE  FrameInv'
<1> NoTask \notin Tasks
  BY LoopAssumption
<1>1. /\ Depth \in Nat \ {0} /\ DOMAIN frames = 1 .. Depth /\ Top = frames[Depth]
      /\ Len(frames) = Depth /\ \A i \in 1 .. Depth : frames[i] \in Frames
  BY DEF Depth, Top
<1>2. PICK d \in {Depth, Depth - 1} :
        /\ DOMAIN frames' = 1 .. d /\ Len(frames') = d
        /\ \A i \in 1 .. d : i # Depth => frames'[i] = frames[i]
        /\ d = Depth => frames'[Depth] = f /\ f.task = NoTask /\ f.pc # "Task"
  <2>1. CASE frames' = Front(frames)
    <3>1. /\ DOMAIN frames' = 1 .. Depth - 1 /\ Len(frames') = Depth - 1
          /\ \A i \in 1 .. Depth - 1 : frames'[i] = frames[i]
      BY <1>1, <2>1, FrameLeft DEF Depth
    <3> QED
      BY <1>1, <3>1
  <2>2. CASE SetTop(f) /\ f.task = NoTask /\ f.pc # "Task"
    <3>1. /\ DOMAIN frames' = 1 .. Depth /\ Len(frames') = Depth /\ frames'[Depth] = f
          /\ \A i \in 1 .. Depth : i # Depth => frames'[i] = frames[i]
      BY <1>1, <2>2, TopChanged DEF Depth
    <3> QED
      BY <1>1, <2>2, <3>1
  <2> QED
    BY <2>1, <2>2
<1>3. \A i \in 1 .. d : i \in 1 .. Depth
  BY <1>1, <1>2
<1>4. \A i \in DOMAIN frames' : frames'[i].pc = "Task" <=> frames'[i].task # NoTask
  BY <1>1, <1>2, <1>3 DEF FrameInv
<1>5. \A i \in DOMAIN frames' : i # Len(frames') => frames'[i].pc = "Task"
  BY <1>1, <1>2, <1>3 DEF FrameInv
<1>6. \A i, j \in DOMAIN frames' :
        (frames'[i].task = frames'[j].task /\ frames'[i].task # NoTask) => i = j
  BY <1>1, <1>2, <1>3 DEF FrameInv
<1>7. \A t \in Tasks : status'[t] = "running" <=> \E i \in DOMAIN frames' : frames'[i].task = t
  <2> TAKE t \in Tasks
  <2>1. ASSUME status'[t] = "running"
        PROVE  \E i \in DOMAIN frames' : frames'[i].task = t
    <3>1. PICK i \in DOMAIN frames : frames[i].task = t /\ t # Top.task
      BY <2>1 DEF FrameInv
    <3>2. i # Depth /\ i \in 1 .. d
      BY <1>1, <1>2, <3>1
    <3> QED
      BY <1>2, <3>1, <3>2
  <2>2. ASSUME NEW i \in DOMAIN frames', frames'[i].task = t
        PROVE  status'[t] = "running"
    <3>1. i # Depth /\ i \in 1 .. Depth
      BY <1>2, <1>3, <2>2
    <3>2. frames[i].task = t /\ t # NoTask
      BY <1>2, <2>2, <3>1
    <3>3. status[t] = "running" /\ t # Top.task
      BY <1>1, <3>1, <3>2 DEF FrameInv
    <3> QED
      BY <3>3
  <2> QED
    BY <2>1, <2>2
<1>8. \A i \in DOMAIN frames' : (i > 1 /\ frames'[i].task # NoTask) => Nestable[frames'[i].task]
  BY <1>1, <1>2, <1>3 DEF FrameInv
<1>9. frames' # <<>> => phase' = "alive"
  BY DEF FrameInv
<1> QED
  BY <1>4, <1>5, <1>6, <1>7, <1>8, <1>9 DEF FrameInv

(* A step of the innermost Run that neither starts nor ends a task.        *)
LEMMA TaskStaysInFrames ==
    ASSUME frames \in Seq(Frames), FrameInv, frames # <<>>, NEW f \in Frames, SetTop(f), f.task = Top.task,
           f.pc = "Task" <=> Top.pc = "Task", RunningIsSame, UNCHANGED phase
    PROVE  FrameInv'
<1> NoTask \notin Tasks
  BY LoopAssumption
<1>1. /\ Depth \in Nat \ {0} /\ DOMAIN frames = 1 .. Depth /\ Top = frames[Depth]
      /\ Len(frames) = Depth /\ DOMAIN frames' = 1 .. Depth /\ Len(frames') = Depth
      /\ \A i \in 1 .. Depth : frames'[i].task = frames[i].task
      /\ \A i \in 1 .. Depth : frames'[i].pc = "Task" <=> frames[i].pc = "Task"
  BY TopChanged DEF Depth, Top
<1> QED
  BY <1>1 DEF FrameInv, RunningIsSame

(* A step that starts a task.                                              *)
LEMMA TaskEntersFrames ==
    ASSUME frames \in Seq(Frames), FrameInv, frames # <<>>, NEW f \in Frames, NEW t \in Tasks, SetTop(f),
           f.task = t, f.pc = "Task", Top.pc # "Task", status[t] # "running", MayRun(t),
           \A u \in Tasks : status'[u] = IF u = t THEN "running" ELSE status[u],
           UNCHANGED phase
    PROVE  FrameInv'
<1> NoTask \notin Tasks
  BY LoopAssumption
<1>1. /\ Depth \in Nat \ {0} /\ DOMAIN frames = 1 .. Depth /\ Top = frames[Depth]
      /\ Len(frames) = Depth /\ DOMAIN frames' = 1 .. Depth /\ Len(frames') = Depth
      /\ frames'[Depth] = f /\ \A i \in 1 .. Depth : i # Depth => frames'[i] = frames[i]
  BY TopChanged DEF Depth, Top
<1>2. Top.task = NoTask /\ t # NoTask /\ \A i \in 1 .. Depth : frames[i].task # t
  BY <1>1 DEF FrameInv
<1>3. \A i \in DOMAIN frames' : frames'[i].pc = "Task" <=> frames'[i].task # NoTask
  BY <1>1, <1>2 DEF FrameInv
<1>4. \A i \in DOMAIN frames' : i # Len(frames') => frames'[i].pc = "Task"
  BY <1>1 DEF FrameInv
<1>5. \A i, j \in DOMAIN frames' :
        (frames'[i].task = frames'[j].task /\ frames'[i].task # NoTask) => i = j
  BY <1>1, <1>2 DEF FrameInv
<1>6. \A u \in Tasks : status'[u] = "running" <=> \E i \in DOMAIN frames' : frames'[i].task = u
  BY <1>1, <1>2 DEF FrameInv
<1>7. \A i \in DOMAIN frames' : (i > 1 /\ frames'[i].task # NoTask) => Nestable[frames'[i].task]
  BY <1>1 DEF FrameInv, MayRun
<1>8. frames' # <<>> => phase' = "alive"
  BY DEF FrameInv
<1> QED
  BY <1>3, <1>4, <1>5, <1>6, <1>7, <1>8 DEF FrameInv

(* A Run begins, outside any or in a task.                                 *)
LEMMA RunEntersFrames ==
    ASSUME frames \in Seq(Frames), FrameInv, NEW f \in Frames, frames' = Append(frames, f),
           f.task = NoTask, f.pc # "Task", frames # <<>> => Top.pc = "Task",
           RunningIsSame, phase' = "alive"
    PROVE  FrameInv'
<1> NoTask \notin Tasks
  BY LoopAssumption
<1>1. /\ Depth \in Nat /\ DOMAIN frames = 1 .. Depth /\ Len(frames) = Depth
      /\ DOMAIN frames' = 1 .. Depth + 1 /\ Len(frames') = Depth + 1
      /\ frames'[Depth + 1] = f /\ \A i \in 1 .. Depth : frames'[i] = frames[i]
  BY FrameEntered DEF Depth
<1>2. \A i \in 1 .. Depth : frames[i].pc = "Task"
  <2>1. frames # <<>> => Top = frames[Depth]
    BY DEF Top
  <2> QED
    BY <1>1, <2>1 DEF FrameInv
<1>3. \A i \in DOMAIN frames' : frames'[i].pc = "Task" <=> frames'[i].task # NoTask
  BY <1>1 DEF FrameInv
<1>4. \A i \in DOMAIN frames' : i # Len(frames') => frames'[i].pc = "Task"
  BY <1>1, <1>2
<1>5. \A i, j \in DOMAIN frames' :
        (frames'[i].task = frames'[j].task /\ frames'[i].task # NoTask) => i = j
  BY <1>1 DEF FrameInv
<1>6. \A u \in Tasks : status'[u] = "running" <=> \E i \in DOMAIN frames' : frames'[i].task = u
  BY <1>1 DEF FrameInv, RunningIsSame
<1>7. \A i \in DOMAIN frames' : (i > 1 /\ frames'[i].task # NoTask) => Nestable[frames'[i].task]
  BY <1>1 DEF FrameInv
<1> QED
  BY <1>3, <1>4, <1>5, <1>6, <1>7 DEF FrameInv
-----------------------------------------------------------------------------
(* The queues after ReloadWorkQueue() hold what they held.                 *)
LEMMA ReloadKeepsQueues ==
    ASSUME incoming \in Seq(Tasks), work \in Seq(Tasks), IsInjective(incoming), IsInjective(work),
           ToSet(incoming) \cap ToSet(work) = {}
    PROVE  /\ Reloaded.work \in Seq(Tasks) /\ Reloaded.incoming \in Seq(Tasks)
           /\ IsInjective(Reloaded.work) /\ IsInjective(Reloaded.incoming)
           /\ ToSet(Reloaded.incoming) \cap ToSet(Reloaded.work) = {}
           /\ ToSet(Reloaded.incoming) \cup ToSet(Reloaded.work) = InLine
<1>1. <<>> \in Seq(Tasks) /\ ToSet(<<>>) = {} /\ IsInjective(<<>>)
  BY DEF ToSet, IsInjective
<1>2. CASE work = <<>>
  BY <1>1, <1>2, ReloadSwaps DEF InLine
<1>3. CASE work # <<>>
  BY <1>3, ReloadSwaps DEF InLine
<1> QED
  BY <1>2, <1>3

(* The task that DoWork() takes was in line, and leaves the line.          *)
LEMMA HeadTaken ==
    ASSUME incoming \in Seq(Tasks), work \in Seq(Tasks), IsInjective(incoming), IsInjective(work),
           ToSet(incoming) \cap ToSet(work) = {}, Reloaded.work # <<>>
    PROVE  /\ Head(Reloaded.work) \in InLine /\ Head(Reloaded.work) \in Tasks
           /\ Tail(Reloaded.work) \in Seq(Tasks) /\ IsInjective(Tail(Reloaded.work))
           /\ Reloaded.incoming \in Seq(Tasks) /\ IsInjective(Reloaded.incoming)
           /\ ToSet(Reloaded.incoming) \cap ToSet(Tail(Reloaded.work)) = {}
           /\ ToSet(Reloaded.incoming) \cup ToSet(Tail(Reloaded.work))
                = InLine \ {Head(Reloaded.work)}
<1>1. /\ Reloaded.work \in Seq(Tasks) /\ Reloaded.incoming \in Seq(Tasks)
      /\ IsInjective(Reloaded.work) /\ IsInjective(Reloaded.incoming)
      /\ ToSet(Reloaded.incoming) \cap ToSet(Reloaded.work) = {}
      /\ ToSet(Reloaded.incoming) \cup ToSet(Reloaded.work) = InLine
  BY ReloadKeepsQueues
<1> DEFINE w == Reloaded.work
           c == Reloaded.incoming
<1> HIDE DEF w, c
<1>2. /\ Head(w) \in Tasks /\ Tail(w) \in Seq(Tasks) /\ IsInjective(Tail(w))
      /\ ToSet(w) = {Head(w)} \cup ToSet(Tail(w)) /\ Head(w) \notin ToSet(Tail(w))
  <2>1. w \in Seq(Tasks) /\ w # <<>> /\ IsInjective(w)
    BY <1>1 DEF w
  <2> QED
    BY <2>1, TakenOff
<1>3. ToSet(c) \cap ToSet(w) = {} /\ ToSet(c) \cup ToSet(w) = InLine
  BY <1>1 DEF w, c
<1>4. /\ Head(w) \in InLine /\ ToSet(c) \cap ToSet(Tail(w)) = {}
      /\ ToSet(c) \cup ToSet(Tail(w)) = InLine \ {Head(w)}
  BY <1>2, <1>3
<1> QED
  BY <1>1, <1>2, <1>4 DEF w, c

(* The elements of the queues are tasks.                                   *)
LEMMA QueuedAreTasks ==
    ASSUME TypeOK
    PROVE  InLine \subseteq Tasks /\ ToSet(deferred) \subseteq Tasks /\ Queued \subseteq Tasks
<1>1. \A s \in Seq(Tasks) : ToSet(s) \subseteq Tasks
  BY DEF ToSet
<1> QED
  BY <1>1 DEF TypeOK, InLine, Queued

(* An empty queue holds nothing.                                           *)
LEMMA EmptyQueue == ToSet(<<>>) = {} /\ IsInjective(<<>>)
  BY DEF ToSet, IsInjective
-----------------------------------------------------------------------------
QueuedIsSame == \A t \in Tasks : status'[t] = "queued" <=> status[t] = "queued"

(* What a step may do to the queues: nothing, ...                          *)
LEMMA QueuesUnchanged ==
    ASSUME QueueInv, UNCHANGED queueVars, QueuedIsSame
    PROVE  QueueInv'
  BY DEF QueueInv, InLine, Queued, queueVars, QueuedIsSame

(* ... push a task into the incoming queue, ...                            *)
LEMMA QueuesGrow ==
    ASSUME TypeOK, QueueInv, NEW t \in Tasks, status[t] # "queued",
           incoming' = Append(incoming, t), UNCHANGED <<work, deferred, delayed>>,
           \A u \in Tasks : status'[u] = "queued" <=> (status[u] = "queued" \/ u = t)
    PROVE  QueueInv'
<1>1. t \notin Queued /\ Queued = {u \in Tasks : status[u] = "queued"}
  BY DEF QueueInv
<1>2. /\ IsInjective(incoming) /\ IsInjective(work) /\ IsInjective(deferred)
      /\ ToSet(incoming) \cap ToSet(work) = {} /\ InLine \cap ToSet(deferred) = {}
      /\ (InLine \cup ToSet(deferred)) \cap delayed = {}
  BY DEF QueueInv
<1>3. ToSet(incoming)' = ToSet(incoming) \cup {t} /\ IsInjective(incoming)'
  <2>1. incoming \in Seq(Tasks) /\ t \notin ToSet(incoming)
    BY <1>1 DEF TypeOK, Queued, InLine
  <2>2. /\ ToSet(Append(incoming, t)) = ToSet(incoming) \cup {t}
        /\ IsInjective(Append(incoming, t))
    BY <1>2, <2>1, PushedOnto
  <2> QED
    BY <2>2
<1>4. UNCHANGED <<ToSet(work), ToSet(deferred), IsInjective(work), IsInjective(deferred)>>
  OBVIOUS
<1>5. InLine' = InLine \cup {t}
  BY <1>3, <1>4 DEF InLine
<1>6. Queued' = Queued \cup {t}
  BY <1>4, <1>5 DEF Queued
<1>7. /\ ToSet(incoming)' \cap ToSet(work)' = {} /\ InLine' \cap ToSet(deferred)' = {}
      /\ (InLine' \cup ToSet(deferred)') \cap delayed' = {}
  BY <1>1, <1>2, <1>3, <1>4, <1>5 DEF Queued, InLine
<1>8. Queued' = {u \in Tasks : status'[u] = "queued"}
  BY <1>1, <1>6
<1>9. (\A u \in delayed' : Delay[u] > 0) /\ (\A u \in ToSet(deferred)' : ~Nestable[u])
  BY <1>4 DEF QueueInv
<1> QED
  BY <1>2, <1>3, <1>4, <1>7, <1>8, <1>9 DEF QueueInv

(* ... take one out of the line, to the delayed tasks, ...                 *)
LEMMA QueuesDelay ==
    ASSUME TypeOK, QueueInv, NEW t \in InLine, Delay[t] > 0,
           IsInjective(incoming'), IsInjective(work'), ToSet(incoming') \cap ToSet(work') = {},
           InLine' = InLine \ {t}, delayed' = delayed \cup {t}, UNCHANGED <<deferred, status>>
    PROVE  QueueInv'
<1>1. Queued' = Queued
  BY DEF Queued
<1> QED
  BY <1>1 DEF QueueInv

(* ... or to the deferred ones, ...                                        *)
LEMMA QueuesDefer ==
    ASSUME TypeOK, QueueInv, NEW t \in Tasks, t \in InLine \/ t \in delayed, ~Nestable[t],
           IsInjective(incoming'), IsInjective(work'), ToSet(incoming') \cap ToSet(work') = {},
           InLine' = InLine \ {t}, delayed' = delayed \ {t}, deferred' = Append(deferred, t),
           UNCHANGED status
    PROVE  QueueInv'
<1>1. t \notin ToSet(deferred)
  BY DEF QueueInv
<1>2. ToSet(deferred)' = ToSet(deferred) \cup {t} /\ IsInjective(deferred')
  <2>1. deferred \in Seq(Tasks) /\ IsInjective(deferred)
    BY DEF TypeOK, QueueInv
  <2>2. /\ ToSet(Append(deferred, t)) = ToSet(deferred) \cup {t}
        /\ IsInjective(Append(deferred, t))
    BY <1>1, <2>1, PushedOnto
  <2> QED
    BY <2>2
<1>3. Queued' = Queued
  BY <1>2 DEF Queued
<1>4. /\ InLine' \cap ToSet(deferred)' = {}
      /\ (InLine' \cup ToSet(deferred)') \cap delayed' = {}
  BY <1>2 DEF QueueInv
<1>5. (\A u \in delayed' : Delay[u] > 0) /\ (\A u \in ToSet(deferred)' : ~Nestable[u])
  BY <1>2 DEF QueueInv
<1> QED
  BY <1>2, <1>3, <1>4, <1>5 DEF QueueInv

(* ... or to run, ...                                                      *)
LEMMA QueuesShrink ==
    ASSUME TypeOK, QueueInv, NEW t \in Tasks,
           IsInjective(incoming'), IsInjective(work'), ToSet(incoming') \cap ToSet(work') = {},
           InLine' = InLine \ {t}, delayed' = delayed \ {t},
           IsInjective(deferred'), ToSet(deferred') = ToSet(deferred) \ {t},
           \A u \in Tasks : status'[u] = "queued" <=> (status[u] = "queued" /\ u # t)
    PROVE  QueueInv'
<1>1. Queued' = Queued \ {t}
  BY DEF Queued
<1>2. Queued' = {u \in Tasks : status'[u] = "queued"}
  BY <1>1 DEF QueueInv
<1>3. /\ InLine' \cap ToSet(deferred)' = {}
      /\ (InLine' \cup ToSet(deferred)') \cap delayed' = {}
  BY DEF QueueInv
<1>4. (\A u \in delayed' : Delay[u] > 0) /\ (\A u \in ToSet(deferred)' : ~Nestable[u])
  BY DEF QueueInv
<1> QED
  BY <1>2, <1>3, <1>4 DEF QueueInv

(* ... or have nothing left but what is incoming.                          *)
LEMMA QueuesEmptied ==
    ASSUME TypeOK, QueueInv, work' = <<>>, deferred' = <<>>, delayed' = {}, IsInjective(incoming'),
           ToSet(incoming') = {u \in Tasks : status'[u] = "queued"}
    PROVE  QueueInv'
<1>1. ToSet(work)' = {} /\ ToSet(deferred)' = {} /\ IsInjective(work)' /\ IsInjective(deferred)'
  BY EmptyQueue
<1>2. InLine' = ToSet(incoming)'
  BY <1>1 DEF InLine
<1>3. Queued' = ToSet(incoming)'
  BY <1>1, <1>2 DEF Queued
<1> QED
  BY <1>1, <1>2, <1>3 DEF QueueInv
-----------------------------------------------------------------------------
(* A frame that waits for no task has none.                                *)
LEMMA NoTaskOnTop ==
    ASSUME frames \in Seq(Frames), FrameInv, frames # <<>>, Top.pc # "Task"
    PROVE  Top.task = NoTask
<1>1. Depth \in DOMAIN frames /\ Top = frames[Depth]
  BY DEF Depth, Top
<1> QED
  BY <1>1 DEF FrameInv

(* A delegate method that ran no task leaves the tasks that run.           *)
LEMMA ReturnedKeepsFrames ==
    ASSUME frames \in Seq(Frames), FrameInv, frames # <<>>, Top.pc # "Task",
           NEW stage, NEW did, NEW allowed, GoesOn(stage, did, allowed) \/ LeavesRun(allowed),
           UNCHANGED <<status, phase>>
    PROVE  FrameInv'
<1>1. Top.task = NoTask /\ NoTask \notin Tasks
  BY NoTaskOnTop, LoopAssumption
<1>2. \A t \in Tasks : status'[t] = "running" <=> status[t] = "running" /\ t # Top.task
  BY <1>1
<1>3. CASE GoesOn(stage, did, allowed)
  BY <1>2, <1>3, TaskLeavesFrames DEF GoesOn
<1>4. CASE LeavesRun(allowed)
  <2>1. Top \in Frames /\ frames' = Front(frames)
    BY <1>4, TopInFrames DEF LeavesRun
  <2> QED
    BY <1>2, <2>1, TaskLeavesFrames
<1> QED
  BY <1>3, <1>4

(* What the methods of the delegate make of the frames, by their guards.   *)
LEMMA NothingFound ==
    ASSUME TypeOK,
           \/ DoWorkFindsNothing \/ DoDelayedWorkFindsNothing \/ DoDelayedWorkNotDue
           \/ DoIdleWorkFindsNothing
    PROVE  /\ frames # <<>> /\ Top.pc # "Task" /\ UNCHANGED <<status, phase>>
           /\ \E stage \in Stages :
                /\ At(stage)
                /\ \/ GoesOn(stage, stage = "DoDelayedWork" /\ Top.didWork, nestableAllowed)
                   \/ LeavesRun(nestableAllowed)
<1>1. /\ frames \in Seq(Frames) /\ nestableAllowed \in BOOLEAN
      /\ keepRunning \in BOOLEAN /\ (keepRunning /\ ~Top.quitReceived) \in BOOLEAN
  BY DEF TypeOK, PumpTypeOK
<1>2. "DoWork" \in Stages /\ "DoDelayedWork" \in Stages /\ "DoIdleWork" \in Stages
  BY DEF Stages
<1>3. CASE DoWorkFindsNothing
  <2>1. frames # <<>> /\ Top.pc = "DoWork" /\ UNCHANGED <<status, phase>>
    BY <1>3 DEF DoWorkFindsNothing, At
  <2>2. DelegateReturned("DoWork", FALSE, keepRunning, nestableAllowed)
    BY <1>3 DEF DoWorkFindsNothing
  <2>3. \/ GoesOn("DoWork", FALSE \/ ("DoWork" = "DoDelayedWork" /\ Top.didWork), nestableAllowed)
        \/ LeavesRun(nestableAllowed)
    BY <1>1, <1>2, <2>1, <2>2, Returned
  <2>4. GoesOn("DoWork", FALSE \/ ("DoWork" = "DoDelayedWork" /\ Top.didWork), nestableAllowed)
          => GoesOn("DoWork", "DoWork" = "DoDelayedWork" /\ Top.didWork, nestableAllowed)
    BY DEF GoesOn
  <2> QED
    BY <1>2, <2>1, <2>3, <2>4 DEF At
<1>4. CASE DoDelayedWorkFindsNothing \/ DoDelayedWorkNotDue
  <2>1. frames # <<>> /\ Top.pc = "DoDelayedWork" /\ UNCHANGED <<status, phase>>
    BY <1>4 DEF DoDelayedWorkFindsNothing, DoDelayedWorkNotDue, At
  <2>2. DelegateReturned("DoDelayedWork", FALSE, keepRunning, nestableAllowed)
    BY <1>4 DEF DoDelayedWorkFindsNothing, DoDelayedWorkNotDue
  <2>3. \/ GoesOn("DoDelayedWork", FALSE \/ ("DoDelayedWork" = "DoDelayedWork" /\ Top.didWork),
                  nestableAllowed)
        \/ LeavesRun(nestableAllowed)
    BY <1>1, <1>2, <2>1, <2>2, Returned
  <2>4. GoesOn("DoDelayedWork", FALSE \/ ("DoDelayedWork" = "DoDelayedWork" /\ Top.didWork),
               nestableAllowed)
          => GoesOn("DoDelayedWork", "DoDelayedWork" = "DoDelayedWork" /\ Top.didWork,
                    nestableAllowed)
    BY DEF GoesOn
  <2> QED
    BY <1>2, <2>1, <2>3, <2>4 DEF At
<1>5. CASE DoIdleWorkFindsNothing
  <2>1. frames # <<>> /\ Top.pc = "DoIdleWork" /\ UNCHANGED <<status, phase>>
    BY <1>5 DEF DoIdleWorkFindsNothing, At
  <2>2. DelegateReturned("DoIdleWork", FALSE, keepRunning /\ ~Top.quitReceived, nestableAllowed)
    BY <1>5 DEF DoIdleWorkFindsNothing
  <2>3. \/ GoesOn("DoIdleWork", FALSE \/ ("DoIdleWork" = "DoDelayedWork" /\ Top.didWork),
                  nestableAllowed)
        \/ LeavesRun(nestableAllowed)
    BY <1>1, <1>2, <2>1, <2>2, Returned
  <2>4. GoesOn("DoIdleWork", FALSE \/ ("DoIdleWork" = "DoDelayedWork" /\ Top.didWork),
               nestableAllowed)
          => GoesOn("DoIdleWork", "DoIdleWork" = "DoDelayedWork" /\ Top.didWork, nestableAllowed)
    BY DEF GoesOn
  <2> QED
    BY <1>2, <2>1, <2>3, <2>4 DEF At
<1> QED
  BY <1>3, <1>4, <1>5

(* A task starts in the innermost Run.                                     *)
StartsTask(t) ==
    /\ MayRun(t) /\ nestableAllowed' = FALSE /\ keepRunning' = keepRunning
    /\ \E f \in Frames : SetTop(f) /\ f.pc = "Task" /\ f.task = t /\ f.allower = Top.allower
    /\ \A u \in Tasks : status'[u] = IF u = t THEN "running" ELSE status[u]

LEMMA TaskStarted ==
    ASSUME TypeOK, frames # <<>>, NEW stage \in Stages, NEW t \in Tasks, MayRun(t), RunTask(stage, t)
    PROVE  StartsTask(t)
<1>1. frames \in Seq(Frames) /\ status \in [Tasks -> Statuses] /\ "running" \in Statuses
  BY DEF TypeOK, Statuses
<1>2. /\ nestableAllowed' = FALSE /\ UNCHANGED keepRunning /\ SetStatus({t}, "running")
      /\ \E f \in Frames : SetTop(f) /\ f.pc = "Task" /\ f.task = t /\ f.stage = stage
                           /\ f.allower = Top.allower
  BY <1>1, TaskEntered
<1>3. \A u \in Tasks : status'[u] = IF u \in {t} THEN "running" ELSE status[u]
  BY <1>1, <1>2, StatusSet
<1> QED
  BY <1>2, <1>3 DEF StartsTask

(* DoWork() delays, starts or defers the first task of its queue, ...      *)
LEMMA WorkTaken ==
    ASSUME TypeOK, DoWorkTakesTask
    PROVE  LET t == Head(Reloaded.work)
           IN  /\ frames # <<>> /\ Top.pc = "DoWork" /\ nestableAllowed /\ Reloaded.work # <<>>
               /\ t \in Tasks /\ incoming' = Reloaded.incoming /\ work' = Tail(Reloaded.work)
               /\ UNCHANGED <<runTime, recentTime, phase, posted, event, now>>
               /\ \/ /\ ~Immediate(t) /\ delayed' = delayed \cup {t}
                     /\ UNCHANGED <<deferred, status, frames, nestableAllowed>>
                  \/ /\ Immediate(t) /\ StartsTask(t)
                     /\ UNCHANGED <<deferred, delayed, delayedWorkTime>>
                  \/ /\ Immediate(t) /\ ~MayRun(t) /\ deferred' = Append(deferred, t)
                     /\ UNCHANGED <<status, frames, nestableAllowed, delayed, delayedWorkTime>>
<1> DEFINE t == Head(Reloaded.work)
<1>1. /\ frames # <<>> /\ Top.pc = "DoWork" /\ nestableAllowed /\ Reloaded.work # <<>>
      /\ t \in Tasks /\ incoming' = Reloaded.incoming /\ work' = Tail(Reloaded.work)
      /\ UNCHANGED <<runTime, recentTime, phase, posted, event, now>>
  BY ReloadedHead DEF DoWorkTakesTask, At
<1>2. CASE /\ ~Immediate(t) /\ AddToDelayedWorkQueue(t)
           /\ UNCHANGED <<deferred, status, frames, nestableAllowed, keepRunning>>
  BY <1>1, <1>2 DEF AddToDelayedWorkQueue
<1>3. CASE /\ Immediate(t) /\ DeferOrRunPendingTask("DoWork", t)
           /\ UNCHANGED <<numberVars, delayed, delayedWorkTime>>
  <2> HIDE DEF t
  <2>1. CASE MayRun(t) /\ RunTask("DoWork", t) /\ UNCHANGED deferred
    <3>1. StartsTask(t)
      BY <1>1, <2>1, TaskStarted DEF Stages
    <3> QED
      BY <1>1, <1>3, <2>1, <3>1 DEF t
  <2>2. CASE /\ ~MayRun(t) /\ deferred' = Append(deferred, t)
             /\ UNCHANGED <<status, frames, nestableAllowed, keepRunning>>
    BY <1>1, <1>3, <2>2 DEF t
  <2> QED
    BY <1>3, <2>1, <2>2 DEF DeferOrRunPendingTask
<1> QED
  BY <1>2, <1>3 DEF DoWorkTakesTask

(* ... DoDelayedWork() starts or defers the earliest delayed task that is  *)
(* due, ...                                                                *)
LEMMA DelayedTaken ==
    ASSUME TypeOK, DoDelayedWorkTakesTask
    PROVE  /\ frames # <<>> /\ Top.pc = "DoDelayedWork" /\ nestableAllowed
           /\ UNCHANGED <<incoming, work, runTime, phase, posted, event, now>>
           /\ \E t \in delayed :
                /\ delayed' = delayed \ {t} /\ \A u \in delayed : runTime[t] <= runTime[u]
                /\ runTime[t] <= recentTime' /\ recentTime' \in {recentTime, now}
                /\ delayed' # {} =>
                     \E e \in delayed' : delayedWorkTime' = runTime[e]
                                         /\ \A u \in delayed' : runTime[e] <= runTime[u]
                /\ \/ StartsTask(t) /\ UNCHANGED deferred
                   \/ /\ ~MayRun(t) /\ deferred' = Append(deferred, t) /\ UNCHANGED status
                      /\ \/ GoesOn("DoDelayedWork", Top.didWork, nestableAllowed)
                         \/ LeavesRun(nestableAllowed)
<1> DEFINE t == Earliest
<1>1. /\ t \in delayed /\ t \in Tasks /\ \A u \in delayed : runTime[t] <= runTime[u]
  BY EarliestIsFirst DEF DoDelayedWorkTakesTask, Earliest, TypeOK
<1>2. /\ frames # <<>> /\ Top.pc = "DoDelayedWork" /\ nestableAllowed
      /\ UNCHANGED <<incoming, work, runTime, phase, posted, event, now>>
      /\ delayed' = delayed \ {t}
      /\ DeferOrRunPendingTask("DoDelayedWork", t)
  BY DEF DoDelayedWorkTakesTask, At
<1>3. runTime[t] <= recentTime' /\ recentTime' \in {recentTime, now}
  <2>1. recentTime' = IF runTime[t] <= recentTime THEN recentTime ELSE now
    BY DEF DoDelayedWorkTakesTask
  <2>2. runTime[t] <= recentTime \/ runTime[t] <= now
    BY DEF DoDelayedWorkTakesTask, Due
  <2> HIDE DEF t
  <2> QED
    BY <2>1, <2>2
<1>4. ASSUME delayed' # {}
      PROVE  \E e \in delayed' : delayedWorkTime' = runTime[e]
                                 /\ \A u \in delayed' : runTime[e] <= runTime[u]
  <2>1. delayedWorkTime' = runTime[EarliestOf(delayed', runTime, seqNum)]
    BY <1>4 DEF DoDelayedWorkTakesTask
  <2>2. delayed' \in SUBSET Tasks /\ runTime \in [Tasks -> Times]
    BY <1>2 DEF TypeOK
  <2>3. /\ EarliestOf(delayed', runTime, seqNum) \in delayed'
        /\ \A u \in delayed' : runTime[EarliestOf(delayed', runTime, seqNum)] <= runTime[u]
    BY <1>4, <2>2, EarliestIsFirst
  <2> QED
    BY <2>1, <2>3
<1> HIDE DEF t
<1>5. "DoDelayedWork" \in Stages
  BY DEF Stages
<1>6. CASE MayRun(t) /\ RunTask("DoDelayedWork", t) /\ UNCHANGED deferred
  <2>1. StartsTask(t)
    BY <1>1, <1>2, <1>5, <1>6, TaskStarted
  <2> QED
    BY <1>1, <1>2, <1>3, <1>6, <1>4, <2>1
<1>7. CASE /\ ~MayRun(t) /\ deferred' = Append(deferred, t) /\ UNCHANGED status
           /\ DelegateReturned("DoDelayedWork", FALSE, keepRunning, nestableAllowed)
  <2>1. frames \in Seq(Frames) /\ nestableAllowed \in BOOLEAN /\ keepRunning \in BOOLEAN
    BY DEF TypeOK, PumpTypeOK
  <2>2. \/ GoesOn("DoDelayedWork", FALSE \/ ("DoDelayedWork" = "DoDelayedWork" /\ Top.didWork),
                  nestableAllowed)
        \/ LeavesRun(nestableAllowed)
    BY <1>2, <1>5, <1>7, <2>1, Returned
  <2>3. GoesOn("DoDelayedWork", FALSE \/ ("DoDelayedWork" = "DoDelayedWork" /\ Top.didWork),
               nestableAllowed)
          => GoesOn("DoDelayedWork", Top.didWork, nestableAllowed)
    <3>1. Top.didWork \in BOOLEAN
      BY <1>2, <2>1, TopInFrames DEF Frames
    <3> QED
      BY <3>1 DEF GoesOn
  <2> QED
    BY <1>1, <1>2, <1>3, <1>7, <1>4, <2>2, <2>3
<1> QED
  BY <1>2, <1>6, <1>7 DEF DeferOrRunPendingTask

(* ... DoIdleWork() starts the first deferred task outermost, ...          *)
LEMMA DeferredTaken ==
    ASSUME TypeOK, DoIdleWorkTakesTask
    PROVE  /\ frames # <<>> /\ Top.pc = "DoIdleWork" /\ Depth = 1 /\ deferred # <<>>
           /\ Head(deferred) \in Tasks /\ deferred' = Tail(deferred)
           /\ StartsTask(Head(deferred))
           /\ UNCHANGED <<incoming, work, delayed, runTime, numberVars, recentTime, phase, posted,
                          event, delayedWorkTime, now>>
<1>1. /\ frames # <<>> /\ Top.pc = "DoIdleWork" /\ Depth = 1 /\ deferred # <<>>
      /\ deferred' = Tail(deferred) /\ RunTask("DoIdleWork", Head(deferred))
      /\ UNCHANGED <<incoming, work, delayed, runTime, numberVars, recentTime, phase, posted,
                     event, delayedWorkTime, now>>
  BY DEF DoIdleWorkTakesTask, HasDeferredTask, At
<1>2. Head(deferred) \in Tasks
  BY <1>1 DEF TypeOK
<1>3. StartsTask(Head(deferred))
  BY <1>1, <1>2, TaskStarted DEF MayRun, Stages
<1> QED
  BY <1>1, <1>2, <1>3

(* ... and a task that returns leaves its Run to go on, or to end.         *)
LEMMA TaskFinished ==
    ASSUME TypeOK, FrameInv, FinishTask
    PROVE  /\ frames # <<>> /\ Top.pc = "Task" /\ Top.task \in Tasks /\ status[Top.task] = "running"
           /\ \A u \in Tasks : status'[u] = IF u = Top.task THEN "ran" ELSE status[u]
           /\ \E stage \in Stages : GoesOn(stage, TRUE, TRUE) \/ LeavesRun(TRUE)
           /\ UNCHANGED <<queueVars, runTime, numberVars, recentTime, phase, posted,
                          event, delayedWorkTime, now>>
<1>1. /\ frames # <<>> /\ Top.pc = "Task" /\ SetStatus({Top.task}, "ran")
      /\ DelegateReturned(Top.stage, TRUE, keepRunning, TRUE)
      /\ UNCHANGED <<queueVars, runTime, numberVars, recentTime, phase, posted,
                     event, delayedWorkTime, now>>
  BY DEF FinishTask, InTask, At
<1>2. /\ frames \in Seq(Frames) /\ keepRunning \in BOOLEAN /\ status \in [Tasks -> Statuses]
      /\ "ran" \in Statuses
  BY DEF TypeOK, PumpTypeOK, Statuses
<1>3. Top \in Frames /\ Depth \in DOMAIN frames /\ Top = frames[Depth]
  BY <1>1, <1>2, TopInFrames DEF Top, Depth
<1>4. Top.stage \in Stages /\ Top.task \in Tasks /\ status[Top.task] = "running"
  BY <1>1, <1>3 DEF FrameInv, Frames
<1>5. GoesOn(Top.stage, TRUE, TRUE) \/ LeavesRun(TRUE)
  BY <1>1, <1>2, <1>4, ReturnedFromTask
<1>6. \A u \in Tasks : status'[u] = IF u \in {Top.task} THEN "ran" ELSE status[u]
  BY <1>1, <1>2, StatusSet
<1> QED
  BY <1>1, <1>4, <1>5, <1>6

(* A post on the loop's own thread, outside DeletePendingTasks(), ...      *)
LEMMA TaskPosted ==
    ASSUME TypeOK, OwnThreadPost
    PROVE  /\ InTask \/ Outside \/ phase = "observers"
           /\ UNCHANGED <<work, deferred, delayed, numberVars, recentTime, nestableAllowed,
                          frames, phase, roundVars, keepRunning, delayedWorkTime, now>>
           /\ \E t \in Tasks :
                /\ status[t] = "new" /\ incoming' = Append(incoming, t) /\ posted' = Append(posted, t)
                /\ runTime' = [runTime EXCEPT ![t] = CalculateDelayedRuntime(t)]
                /\ CalculateDelayedRuntime(t) \in Times
                /\ CalculateDelayedRuntime(t) = Null <=> Delay[t] = 0
                /\ \A u \in Tasks : status'[u] = IF u = t THEN "queued" ELSE status[u]
                /\ IF incoming = <<>> THEN event' = TRUE ELSE UNCHANGED event
<1>1. PICK t \in Tasks : PostTask(t)
  BY DEF OwnThreadPost
<1>2. \A u \in Tasks : status'[u] = IF u \in {t} THEN "queued" ELSE status[u]
  BY <1>1, StatusSet DEF PostTask, TypeOK, Statuses
<1>3. /\ CalculateDelayedRuntime(t) \in Times
      /\ CalculateDelayedRuntime(t) = Null <=> Delay[t] = 0
  BY <1>1, RunTimeType DEF PostTask
<1>4. /\ status[t] = "new" /\ incoming' = Append(incoming, t) /\ posted' = Append(posted, t)
      /\ runTime' = [runTime EXCEPT ![t] = CalculateDelayedRuntime(t)]
      /\ IF incoming = <<>> THEN event' = TRUE ELSE UNCHANGED event
  BY <1>1 DEF PostTask, Fresh, ScheduleWork
<1> QED
  BY <1>2, <1>3, <1>4 DEF OwnThreadPost

(* ... and inside it, where there is at most one.                          *)
LEMMA PendingDeleted ==
    ASSUME TypeOK, DeletePendingTasks
    PROVE  /\ phase \in {"deleteFirst", "deleteAgain"}
           /\ phase = "deleteFirst" => phase' = "reload"
           /\ phase = "deleteAgain" =>
                phase' = IF OwnedTasks = {} \/ LastRound THEN "observers" ELSE "deleteFirst"
           /\ round' = IF phase = "deleteAgain" /\ OwnedTasks # {} THEN round + 1 ELSE round
           /\ UNCHANGED postedBefore
           /\ work' = <<>> /\ deferred' = <<>> /\ delayed' = {}
           /\ UNCHANGED <<numberVars, recentTime, nestableAllowed, frames,
                          keepRunning, delayedWorkTime, now>>
           /\ \/ /\ UNCHANGED <<incoming, posted, runTime>>
                 /\ \A u \in Tasks : status'[u] = IF u \in OwnedTasks THEN "deleted" ELSE status[u]
              \/ \E t \in Tasks :
                   /\ status[t] = "new" /\ OwnedTasks # {}
                   /\ incoming' = Append(incoming, t) /\ posted' = Append(posted, t)
                   /\ runTime' = [runTime EXCEPT ![t] = CalculateDelayedRuntime(t)]
                   /\ CalculateDelayedRuntime(t) \in Times
                   /\ CalculateDelayedRuntime(t) = Null <=> Delay[t] = 0
                   /\ \A u \in Tasks : status'[u] = IF u \in OwnedTasks THEN "deleted"
                                                    ELSE IF u = t THEN "queued" ELSE status[u]
<1>1. /\ phase \in {"deleteFirst", "deleteAgain"}
      /\ work' = <<>> /\ deferred' = <<>> /\ delayed' = {}
      /\ UNCHANGED <<numberVars, recentTime, nestableAllowed, frames,
                     keepRunning, delayedWorkTime, now>>
  BY DEF DeletePendingTasks
<1>2. /\ phase = "deleteFirst" => phase' = "reload"
      /\ phase = "deleteAgain" =>
           phase' = IF OwnedTasks = {} \/ LastRound THEN "observers" ELSE "deleteFirst"
      /\ round' = IF phase = "deleteAgain" /\ OwnedTasks # {} THEN round + 1 ELSE round
      /\ UNCHANGED postedBefore
  BY DEF DeletePendingTasks
<1>3. PICK more \in {{}} \cup {{t} : t \in Fresh} :
        /\ more # {} => OwnedTasks # {}
        /\ incoming' = incoming \o SetToSeq(more)
        /\ posted' = posted \o SetToSeq(more)
        /\ status' = [t \in Tasks |-> IF t \in OwnedTasks THEN "deleted"
                                      ELSE IF t \in more THEN "queued" ELSE status[t]]
        /\ \A t \in more : Representable(t)
        /\ runTime' = [t \in Tasks |-> IF t \in more THEN CalculateDelayedRuntime(t)
                                       ELSE runTime[t]]
  BY DEF DeletePendingTasks
<1>4. incoming \in Seq(Tasks) /\ posted \in Seq(Tasks) /\ runTime \in [Tasks -> Times]
  BY DEF TypeOK
<1>5. CASE more = {}
  <2>1. SetToSeq(more) = <<>>
    BY <1>5, SequenceOfOne, Zenon
  <2>2. UNCHANGED <<incoming, posted>>
    BY <1>3, <1>4, <2>1
  <2>3. UNCHANGED runTime
    BY <1>3, <1>4, <1>5
  <2>4. \A u \in Tasks : status'[u] = IF u \in OwnedTasks THEN "deleted" ELSE status[u]
    BY <1>3, <1>5
  <2> QED
    BY <1>1, <1>2, <2>2, <2>3, <2>4
<1>6. CASE more # {}
  <2>1. PICK t \in Tasks : more = {t} /\ status[t] = "new"
    BY <1>6 DEF Fresh
  <2>2. SetToSeq(more) = <<t>>
    BY <2>1, SequenceOfOne
  <2>3. incoming' = Append(incoming, t) /\ posted' = Append(posted, t)
    BY <1>3, <1>4, <2>2
  <2>4. runTime' = [runTime EXCEPT ![t] = CalculateDelayedRuntime(t)]
    BY <1>3, <1>4, <2>1
  <2>5. /\ CalculateDelayedRuntime(t) \in Times
        /\ CalculateDelayedRuntime(t) = Null <=> Delay[t] = 0
    BY <1>3, <2>1, RunTimeType
  <2>6. \A u \in Tasks : status'[u] = IF u \in OwnedTasks THEN "deleted"
                                      ELSE IF u = t THEN "queued" ELSE status[u]
    BY <1>3, <2>1
  <2>7. OwnedTasks # {}
    BY <1>3, <1>6
  <2> QED
    BY <1>1, <1>2, <2>1, <2>3, <2>4, <2>5, <2>6, <2>7
<1> QED
  BY <1>5, <1>6

(* What is left goes with the loop.                                        *)
LEMMA LoopGone ==
    ASSUME TypeOK, WillDestroyCurrentMessageLoop
    PROVE  /\ phase = "observers" /\ phase' = "dead" /\ incoming' = <<>> /\ target' = FALSE
           /\ proxyLock = NoPoster
           /\ \A u \in Tasks : status'[u] = IF u \in ToSet(incoming) THEN "deleted" ELSE status[u]
           /\ UNCHANGED <<work, deferred, delayed, runTime, numberVars, recentTime,
                          nestableAllowed, frames, roundVars, posted, pumpVars, now, proxyLock,
                          posterPc, posterTask, pumpRefs>>
<1>1. SetStatus(ToSet(incoming), "deleted")
  BY DEF WillDestroyCurrentMessageLoop, EndDestruction
<1>2. \A u \in Tasks : status'[u] = IF u \in ToSet(incoming) THEN "deleted" ELSE status[u]
  BY <1>1, StatusSet DEF TypeOK, Statuses
<1> QED
  BY <1>2 DEF WillDestroyCurrentMessageLoop, EndDestruction

(* The four steps of a poster.                                             *)
LEMMA RefusedSteps ==
    ASSUME TypeOK, NEW p \in Posters, PostRefused(p)
    PROVE  /\ ~target
           /\ \E t \in Tasks : /\ status[t] = "new"
                               /\ \A u \in Tasks : status'[u] = IF u = t THEN "refused" ELSE status[u]
           /\ UNCHANGED <<queueVars, runTime, numberVars, recentTime, nestableAllowed, frames, phase,
                          roundVars, posted, pumpVars, now, proxyVars>>
<1>1. PICK t \in Fresh : SetStatus({t}, "refused")
  BY DEF PostRefused
<1>2. \A u \in Tasks : status'[u] = IF u \in {t} THEN "refused" ELSE status[u]
  BY <1>1, StatusSet DEF TypeOK, Statuses
<1> QED
  BY <1>2 DEF PostRefused, Fresh

LEMMA BeginSteps ==
    ASSUME TypeOK, NEW p \in Posters, PostBegins(p)
    PROVE  /\ posterPc[p] = "idle" /\ posterPc' = [posterPc EXCEPT ![p] = "push"]
           /\ \/ proxyLock = NoPoster /\ target /\ proxyLock' = p
              \/ phase = "alive" /\ UNCHANGED proxyLock
           /\ \E t \in Tasks :
                /\ status[t] = "new" /\ posterTask' = [posterTask EXCEPT ![p] = t]
                /\ runTime' = [runTime EXCEPT ![t] = CalculateDelayedRuntime(t)]
                /\ CalculateDelayedRuntime(t) \in Times
                /\ CalculateDelayedRuntime(t) = Null <=> Delay[t] = 0
                /\ \A u \in Tasks : status'[u] = IF u = t THEN "posting" ELSE status[u]
           /\ UNCHANGED <<queueVars, numberVars, recentTime, nestableAllowed, frames, phase, roundVars,
                          posted, pumpVars, now, target, pumpRefs>>
<1>1. PICK t \in Fresh : /\ Representable(t)
                         /\ runTime' = [runTime EXCEPT ![t] = CalculateDelayedRuntime(t)]
                         /\ SetStatus({t}, "posting")
                         /\ posterTask' = [posterTask EXCEPT ![p] = t]
  BY DEF PostBegins
<1>2. t \in Tasks /\ status[t] = "new"
  BY DEF Fresh
<1>3. \A u \in Tasks : status'[u] = IF u \in {t} THEN "posting" ELSE status[u]
  BY <1>1, StatusSet DEF TypeOK, Statuses
<1>4. /\ CalculateDelayedRuntime(t) \in Times
      /\ CalculateDelayedRuntime(t) = Null <=> Delay[t] = 0
  BY <1>1, <1>2, RunTimeType
<1> QED
  BY <1>1, <1>2, <1>3, <1>4 DEF PostBegins

LEMMA PushSteps ==
    ASSUME TypeOK, PosterInv, NEW p \in Posters, PostPushes(p)
    PROVE  /\ posterPc[p] = "push" /\ posterTask[p] \in Tasks /\ status[posterTask[p]] = "posting"
           /\ incoming' = Append(incoming, posterTask[p]) /\ posted' = Append(posted, posterTask[p])
           /\ \A u \in Tasks : status'[u] = IF u = posterTask[p] THEN "queued" ELSE status[u]
           /\ \/ /\ incoming = <<>> /\ posterPc' = [posterPc EXCEPT ![p] = "signal"]
                 /\ pumpRefs' = RefsWith(p) /\ UNCHANGED <<proxyLock, posterTask>>
              \/ incoming # <<>> /\ PostReturns(p)
           /\ UNCHANGED <<work, deferred, delayed, runTime, numberVars, recentTime,
                          nestableAllowed, frames, phase, roundVars, pumpVars, now, target>>
<1>1. /\ posterPc[p] = "push" /\ posterTask[p] \in Tasks /\ status[posterTask[p]] = "posting"
      /\ SetStatus({posterTask[p]}, "queued")
  BY DEF PostPushes, PosterInv
<1>2. \A u \in Tasks : status'[u] = IF u \in {posterTask[p]} THEN "queued" ELSE status[u]
  BY <1>1, StatusSet DEF TypeOK, Statuses
<1> QED
  BY <1>1, <1>2 DEF PostPushes
-----------------------------------------------------------------------------
(* A task starts only if it was queued, and only in the innermost Run,     *)
(* which runs none; only a task enters a Run, and it waits for it.         *)
LEMMA FrameInvInductive ==
    ASSUME TypeOK, FrameInv, QueueInv, PosterInv, [Next]_vars
    PROVE  FrameInv'
<1> USE DEF queueVars, loopVars
<1>0. /\ frames \in Seq(Frames) /\ NoTask \notin Tasks
      /\ frames # <<>> => phase = "alive"
      /\ \A t \in Queued : t \in Tasks /\ status[t] = "queued"
  BY LoopAssumption DEF TypeOK, FrameInv, QueueInv
<1>1. ASSUME NEW t \in Tasks, StartsTask(t), status[t] = "queued", frames # <<>>, Top.pc # "Task",
             UNCHANGED phase
      PROVE  FrameInv'
  BY <1>0, <1>1, TaskEntersFrames DEF StartsTask
<1>2. CASE OwnThreadPost
  <2>1. RunningIsSame /\ UNCHANGED <<frames, phase>>
    BY <1>2, TaskPosted DEF RunningIsSame
  <2> QED
    BY <1>0, <2>1, FramesUnchanged
<1>3. CASE \/ DoWorkFindsNothing \/ DoDelayedWorkFindsNothing \/ DoDelayedWorkNotDue
           \/ DoIdleWorkFindsNothing
  BY <1>0, <1>3, NothingFound, ReturnedKeepsFrames
<1>4. CASE DoWorkTakesTask
  <2> DEFINE t == Head(Reloaded.work)
  <2>1. t \in Tasks /\ status[t] = "queued"
    <3>1. Reloaded.work # <<>> /\ incoming \in Seq(Tasks) /\ work \in Seq(Tasks)
      BY <1>4 DEF DoWorkTakesTask, TypeOK
    <3>2. t \in InLine
      BY <3>1, HeadTaken DEF QueueInv
    <3> QED
      BY <1>0, <3>2 DEF Queued
  <2>2. /\ frames # <<>> /\ Top.pc = "DoWork" /\ UNCHANGED phase
        /\ StartsTask(t) \/ UNCHANGED <<status, frames>>
    BY <1>4, WorkTaken
  <2> HIDE DEF t
  <2>3. CASE StartsTask(t)
    BY <1>1, <2>1, <2>2, <2>3
  <2>4. CASE UNCHANGED <<status, frames>>
    BY <1>0, <2>2, <2>4, FramesUnchanged DEF RunningIsSame
  <2> QED
    BY <2>2, <2>3, <2>4
<1>5. CASE DoDelayedWorkTakesTask
  <2>1. PICK t \in delayed :
          \/ StartsTask(t)
          \/ /\ UNCHANGED status
             /\ \/ GoesOn("DoDelayedWork", Top.didWork, nestableAllowed)
                \/ LeavesRun(nestableAllowed)
    BY <1>5, DelayedTaken
  <2>2. frames # <<>> /\ Top.pc = "DoDelayedWork" /\ UNCHANGED phase
    BY <1>5, DelayedTaken
  <2>3. t \in Tasks /\ status[t] = "queued"
    BY <1>0 DEF Queued
  <2>4. CASE StartsTask(t)
    BY <1>1, <2>2, <2>3, <2>4
  <2>5. CASE /\ UNCHANGED status
             /\ \/ GoesOn("DoDelayedWork", Top.didWork, nestableAllowed)
                \/ LeavesRun(nestableAllowed)
    BY <1>0, <2>2, <2>5, ReturnedKeepsFrames
  <2> QED
    BY <2>1, <2>4, <2>5
<1>6. CASE DoIdleWorkTakesTask
  <2>1. /\ frames # <<>> /\ Top.pc = "DoIdleWork" /\ StartsTask(Head(deferred)) /\ UNCHANGED phase
        /\ Head(deferred) \in Tasks /\ deferred # <<>> /\ deferred \in Seq(Tasks)
    BY <1>6, DeferredTaken DEF TypeOK
  <2>2. Head(deferred) \in ToSet(deferred)
    BY <2>1, TakenOff
  <2>3. status[Head(deferred)] = "queued"
    BY <1>0, <2>2 DEF Queued
  <2> QED
    BY <1>1, <2>1, <2>3
<1>7. CASE PrepareToSleep \/ WakeUp \/ Quit
  <2>1. frames # <<>> /\ UNCHANGED <<status, phase>>
    BY <1>7 DEF PrepareToSleep, WakeUp, Quit, InTask, At
  <2>2. Top \in Frames
    BY <1>0, <2>1, TopInFrames
  <2>3. \E f \in Frames : SetTop(f) /\ f.task = Top.task /\ (f.pc = "Task" <=> Top.pc = "Task")
    <3>1. CASE SetTop([Top EXCEPT !.pc = "DoWork"]) /\ Top.pc # "Task"
      BY <2>2, <3>1 DEF Frames, Stages
    <3>2. CASE SetTop([Top EXCEPT !.pc = "Wait"]) /\ Top.pc # "Task"
      BY <2>2, <3>2 DEF Frames, Stages
    <3>3. CASE SetTop([Top EXCEPT !.quitReceived = TRUE])
      <4> DEFINE f == [Top EXCEPT !.quitReceived = TRUE]
      <4>1. f \in Frames /\ f.task = Top.task /\ f.pc = Top.pc
        BY <2>2 DEF Frames
      <4> HIDE DEF f
      <4> QED
        BY <3>3, <4>1 DEF f
    <3> QED
      BY <1>7, <3>1, <3>2, <3>3 DEF PrepareToSleep, WakeUp, Quit, InTask, At
  <2> QED
    BY <1>0, <2>1, <2>3, TaskStaysInFrames DEF RunningIsSame
<1>8. CASE Run \/ RunNested
  <2>1. PICK allPending \in BOOLEAN, allower \in BOOLEAN :
          frames' = Append(frames, NewFrame(allPending, allower))
    <3>1. CASE Run
      <4>1. PICK allPending \in BOOLEAN : frames' = <<NewFrame(allPending, FALSE)>>
        BY <3>1 DEF Run
      <4>2. frames = <<>>
        BY <3>1 DEF Run, Outside
      <4>3. frames' = Append(frames, NewFrame(allPending, FALSE))
        BY <4>1, <4>2
      <4> QED
        BY <4>3
    <3>2. CASE RunNested
      BY <3>2 DEF RunNested
    <3> QED
      BY <1>8, <3>1, <3>2
  <2>2. /\ NewFrame(allPending, allower) \in Frames
        /\ NewFrame(allPending, allower).task = NoTask
        /\ NewFrame(allPending, allower).pc # "Task"
    BY DEF NewFrame, Frames, Stages
  <2>3. /\ frames # <<>> => Top.pc = "Task"
        /\ UNCHANGED status /\ phase' = "alive"
    BY <1>0, <1>8 DEF Run, RunNested, Outside, InTask, At
  <2> QED
    BY <1>0, <2>1, <2>2, <2>3, RunEntersFrames DEF RunningIsSame
<1>9. CASE QuitNow \/ TimePasses \/ UNCHANGED vars \/ (\E p \in Posters : PostSignals(p))
  <2>1. UNCHANGED <<status, frames, phase>>
    BY <1>9 DEF QuitNow, TimePasses, vars, PostSignals
  <2> QED
    BY <1>0, <2>1, FramesUnchanged DEF RunningIsSame
<1>10. CASE FinishTask
  <2>1. /\ frames # <<>> /\ Top.task \in Tasks /\ UNCHANGED phase
        /\ \A u \in Tasks : status'[u] = IF u = Top.task THEN "ran" ELSE status[u]
        /\ \E stage \in Stages : GoesOn(stage, TRUE, TRUE) \/ LeavesRun(TRUE)
    BY <1>10, TaskFinished
  <2>2. \A u \in Tasks : status'[u] = "running" <=> status[u] = "running" /\ u # Top.task
    BY <2>1
  <2>3. \E f \in Frames : frames' = Front(frames) \/ (SetTop(f) /\ f.task = NoTask /\ f.pc # "Task")
    <3>1. Top \in Frames
      BY <1>0, <2>1, TopInFrames
    <3> QED
      BY <2>1, <3>1 DEF GoesOn, LeavesRun
  <2> QED
    BY <1>0, <2>1, <2>2, <2>3, TaskLeavesFrames
<1>11. CASE BeginDestruction \/ ReloadWorkQueue
  <2>1. UNCHANGED <<status, frames>> /\ frames = <<>>
    BY <1>0, <1>11 DEF BeginDestruction, ReloadWorkQueue, Outside
  <2> QED
    BY <2>1, FramesUnchanged DEF RunningIsSame
<1>12. CASE DeletePendingTasks
  <2>1. \A t \in OwnedTasks : status[t] = "queued"
    BY <1>0 DEF OwnedTasks, Queued, InLine
  <2>2. RunningIsSame
    <3>1. \/ \A u \in Tasks : status'[u] = IF u \in OwnedTasks THEN "deleted" ELSE status[u]
          \/ \E t \in Tasks :
               /\ status[t] = "new"
               /\ \A u \in Tasks : status'[u] = IF u \in OwnedTasks THEN "deleted"
                                                ELSE IF u = t THEN "queued" ELSE status[u]
      BY <1>12, PendingDeleted
    <3> QED
      BY <2>1, <3>1 DEF RunningIsSame
  <2>3. UNCHANGED frames /\ frames = <<>>
    BY <1>0, <1>12, PendingDeleted
  <2> QED
    BY <2>2, <2>3, FramesUnchanged
<1>13. CASE WillDestroyCurrentMessageLoop
  <2>1. /\ \A u \in Tasks : status'[u] = IF u \in ToSet(incoming) THEN "deleted" ELSE status[u]
        /\ UNCHANGED frames /\ frames = <<>>
    BY <1>0, <1>13, LoopGone
  <2>2. RunningIsSame
    BY <1>0, <2>1 DEF RunningIsSame, Queued, InLine
  <2> QED
    BY <2>1, <2>2, FramesUnchanged
<1>14. ASSUME NEW p \in Posters, PostRefused(p) \/ PostBegins(p) \/ PostPushes(p)
       PROVE  FrameInv'
  <2>1. UNCHANGED <<frames, phase>>
    BY <1>14 DEF PostRefused, PostBegins, PostPushes
  <2>2. CASE PostRefused(p)
    BY <1>0, <2>1, <2>2, RefusedSteps, FramesUnchanged DEF RunningIsSame
  <2>3. CASE PostBegins(p)
    BY <1>0, <2>1, <2>3, BeginSteps, FramesUnchanged DEF RunningIsSame
  <2>4. CASE PostPushes(p)
    BY <1>0, <2>1, <2>4, PushSteps, FramesUnchanged DEF RunningIsSame
  <2> QED
    BY <1>14, <2>2, <2>3, <2>4
<1> QED
  BY <1>2, <1>3, <1>4, <1>5, <1>6, <1>7, <1>8, <1>9, <1>10, <1>11, <1>12, <1>13, <1>14
     DEF Next, LoopStep, PumpStep, ProgramStep, DestructorStep, PosterStep

(* A task enters a queue from none, or leaves the one it is in.            *)
LEMMA QueueInvInductive ==
    ASSUME TypeOK, FrameInv, QueueInv, TimeInv, PosterInv, PhaseInv, [Next]_vars
    PROVE  QueueInv'
<1> USE DEF queueVars, loopVars
<1>0. /\ incoming \in Seq(Tasks) /\ work \in Seq(Tasks) /\ deferred \in Seq(Tasks)
      /\ IsInjective(incoming) /\ IsInjective(work) /\ IsInjective(deferred)
      /\ ToSet(incoming) \cap ToSet(work) = {}
      /\ InLine \cap ToSet(deferred) = {}
      /\ (InLine \cup ToSet(deferred)) \cap delayed = {}
  BY DEF TypeOK, QueueInv
<1>1. \A t \in Tasks : t \in Queued <=> status[t] = "queued"
  BY DEF QueueInv
<1>2. CASE OwnThreadPost
  <2>1. PICK t \in Tasks :
          /\ status[t] = "new" /\ incoming' = Append(incoming, t)
          /\ \A u \in Tasks : status'[u] = IF u = t THEN "queued" ELSE status[u]
    BY <1>2, TaskPosted
  <2>2. UNCHANGED <<work, deferred, delayed>>
    BY <1>2, TaskPosted
  <2> QED
    BY <2>1, <2>2, QueuesGrow
<1>3. CASE \/ DoWorkFindsNothing \/ DoDelayedWorkFindsNothing \/ DoDelayedWorkNotDue
           \/ DoIdleWorkFindsNothing \/ PrepareToSleep \/ WakeUp \/ Quit \/ Run \/ RunNested
           \/ QuitNow \/ TimePasses \/ BeginDestruction \/ UNCHANGED vars
           \/ (\E p \in Posters : PostSignals(p))
  <2>1. UNCHANGED <<queueVars, status>>
    BY <1>3 DEF DoWorkFindsNothing, DoDelayedWorkFindsNothing, DoDelayedWorkNotDue,
         DoIdleWorkFindsNothing, PrepareToSleep, WakeUp, Quit, Run, RunNested, QuitNow,
         TimePasses, BeginDestruction, vars, PostSignals
  <2> QED
    BY <2>1, QueuesUnchanged DEF QueuedIsSame
<1>4. CASE DoWorkTakesTask
  <2> DEFINE t == Head(Reloaded.work)
  <2>1. Reloaded.work # <<>> /\ incoming' = Reloaded.incoming /\ work' = Tail(Reloaded.work)
    BY <1>4, WorkTaken
  <2>2. /\ t \in InLine /\ t \in Tasks
        /\ IsInjective(incoming') /\ IsInjective(work') /\ ToSet(incoming') \cap ToSet(work') = {}
        /\ ToSet(incoming') \cup ToSet(work') = InLine \ {t}
    BY <1>0, <2>1, HeadTaken
  <2>3. InLine' = InLine \ {t}
    BY <2>2 DEF InLine
  <2>4. \/ /\ ~Immediate(t) /\ delayed' = delayed \cup {t}
           /\ UNCHANGED <<deferred, status, frames, nestableAllowed>>
        \/ /\ Immediate(t) /\ StartsTask(t)
           /\ UNCHANGED <<deferred, delayed, delayedWorkTime>>
        \/ /\ Immediate(t) /\ ~MayRun(t) /\ deferred' = Append(deferred, t)
           /\ UNCHANGED <<status, frames, nestableAllowed, delayed, delayedWorkTime>>
    BY <1>4, WorkTaken
  <2> HIDE DEF t
  <2>5. status[t] = "queued" /\ t \notin delayed /\ t \notin ToSet(deferred)
    BY <1>0, <1>1, <2>2 DEF Queued
  <2>6. CASE /\ ~Immediate(t) /\ delayed' = delayed \cup {t}
             /\ UNCHANGED <<deferred, status, frames, nestableAllowed>>
    <3>1. Delay[t] > 0
      <4>1. runTime[t] # Null /\ Delay[t] \in Nat
        BY <2>2, <2>6, LoopAssumption DEF Immediate
      <4>2. Delay[t] # 0
        BY <2>2, <2>5, <4>1 DEF TimeInv
      <4> QED
        BY <4>1, <4>2
    <3> QED
      BY <2>2, <2>3, <2>6, <3>1, QueuesDelay
  <2>7. CASE StartsTask(t) /\ UNCHANGED <<deferred, delayed>>
    <3>1. \A u \in Tasks : status'[u] = "queued" <=> (status[u] = "queued" /\ u # t)
      BY <2>7 DEF StartsTask
    <3>2. delayed' = delayed \ {t} /\ IsInjective(deferred') /\ ToSet(deferred') = ToSet(deferred) \ {t}
      BY <1>0, <2>5, <2>7
    <3> QED
      BY <2>2, <2>3, <3>1, <3>2, QueuesShrink
  <2>8. CASE ~MayRun(t) /\ deferred' = Append(deferred, t) /\ UNCHANGED <<status, delayed>>
    <3>1. ~Nestable[t] /\ delayed' = delayed \ {t}
      BY <2>5, <2>8 DEF MayRun
    <3> QED
      BY <2>2, <2>3, <2>8, <3>1, QueuesDefer
  <2> QED
    BY <2>4, <2>6, <2>7, <2>8
<1>5. CASE DoDelayedWorkTakesTask
  <2>1. PICK t \in delayed :
          /\ delayed' = delayed \ {t}
          /\ \/ StartsTask(t) /\ UNCHANGED deferred
             \/ ~MayRun(t) /\ deferred' = Append(deferred, t) /\ UNCHANGED status
    BY <1>5, DelayedTaken
  <2>2. UNCHANGED <<incoming, work>>
    BY <1>5, DelayedTaken
  <2>3. t \in Tasks /\ t \notin InLine /\ t \notin ToSet(deferred)
    BY <1>0 DEF TypeOK
  <2>4. /\ IsInjective(incoming') /\ IsInjective(work') /\ ToSet(incoming') \cap ToSet(work') = {}
        /\ InLine' = InLine \ {t}
    BY <1>0, <2>2, <2>3 DEF InLine
  <2>5. CASE StartsTask(t) /\ UNCHANGED deferred
    <3>1. \A u \in Tasks : status'[u] = "queued" <=> (status[u] = "queued" /\ u # t)
      BY <2>5 DEF StartsTask
    <3>2. IsInjective(deferred') /\ ToSet(deferred') = ToSet(deferred) \ {t}
      BY <1>0, <2>3, <2>5
    <3> QED
      BY <2>1, <2>3, <2>4, <3>1, <3>2, QueuesShrink
  <2>6. CASE ~MayRun(t) /\ deferred' = Append(deferred, t) /\ UNCHANGED status
    <3>1. ~Nestable[t]
      BY <2>6 DEF MayRun
    <3> QED
      BY <2>1, <2>3, <2>4, <2>6, <3>1, QueuesDefer
  <2> QED
    BY <2>1, <2>5, <2>6
<1>6. CASE DoIdleWorkTakesTask
  <2> DEFINE t == Head(deferred)
  <2>1. /\ deferred # <<>> /\ t \in Tasks /\ deferred' = Tail(deferred) /\ StartsTask(t)
        /\ UNCHANGED <<incoming, work, delayed>>
    BY <1>6, DeferredTaken
  <2>2. /\ ToSet(deferred) = {t} \cup ToSet(deferred') /\ t \notin ToSet(deferred')
        /\ IsInjective(deferred')
    BY <1>0, <2>1, TakenOff
  <2> HIDE DEF t
  <2>3. t \notin InLine /\ t \notin delayed
    BY <1>0, <2>2
  <2>4. /\ IsInjective(incoming') /\ IsInjective(work') /\ ToSet(incoming') \cap ToSet(work') = {}
        /\ InLine' = InLine \ {t}
    BY <1>0, <2>1, <2>3 DEF InLine
  <2>5. \A u \in Tasks : status'[u] = "queued" <=> (status[u] = "queued" /\ u # t)
    BY <2>1 DEF StartsTask
  <2>6. delayed' = delayed \ {t} /\ ToSet(deferred') = ToSet(deferred) \ {t}
    BY <2>1, <2>2, <2>3
  <2> QED
    BY <2>1, <2>2, <2>4, <2>5, <2>6, QueuesShrink
<1>7. CASE FinishTask
  <2>1. /\ Top.task \in Tasks /\ status[Top.task] = "running" /\ UNCHANGED queueVars
        /\ \A u \in Tasks : status'[u] = IF u = Top.task THEN "ran" ELSE status[u]
    BY <1>7, TaskFinished
  <2> QED
    BY <2>1, QueuesUnchanged DEF QueuedIsSame
<1>8. CASE ReloadWorkQueue
  <2>1. /\ incoming' = Reloaded.incoming /\ work' = Reloaded.work
        /\ UNCHANGED <<deferred, delayed, status>>
    BY <1>8 DEF ReloadWorkQueue
  <2>2. /\ IsInjective(incoming') /\ IsInjective(work') /\ ToSet(incoming') \cap ToSet(work') = {}
        /\ ToSet(incoming') \cup ToSet(work') = InLine
    BY <1>0, <2>1, ReloadKeepsQueues
  <2>3. InLine' = InLine
    BY <2>2 DEF InLine
  <2>4. Queued' = Queued
    BY <2>1, <2>3 DEF Queued
  <2> QED
    BY <2>1, <2>2, <2>3, <2>4 DEF QueueInv
<1>9. CASE DeletePendingTasks
  <2>1. work' = <<>> /\ deferred' = <<>> /\ delayed' = {}
    BY <1>9, PendingDeleted
  <2>2. Queued = ToSet(incoming) \cup OwnedTasks /\ ToSet(incoming) \cap OwnedTasks = {}
    BY <1>0 DEF Queued, InLine, OwnedTasks
  <2>3. ToSet(incoming) \subseteq Tasks
    BY QueuedAreTasks DEF InLine
  <2>4. CASE /\ UNCHANGED incoming
             /\ \A u \in Tasks : status'[u] = IF u \in OwnedTasks THEN "deleted" ELSE status[u]
    <3>1. ToSet(incoming') = {u \in Tasks : status'[u] = "queued"}
      BY <1>1, <2>2, <2>3, <2>4
    <3> QED
      BY <1>0, <2>1, <2>4, <3>1, QueuesEmptied
  <2>5. ASSUME NEW t \in Tasks, status[t] = "new", incoming' = Append(incoming, t),
               \A u \in Tasks : status'[u] = IF u \in OwnedTasks THEN "deleted"
                                             ELSE IF u = t THEN "queued" ELSE status[u]
        PROVE  QueueInv'
    <3>1. t \notin Queued
      BY <1>1, <2>5
    <3>2. ToSet(incoming') = ToSet(incoming) \cup {t} /\ IsInjective(incoming')
      <4>1. t \notin ToSet(incoming)
        BY <2>2, <3>1
      <4>2. /\ ToSet(Append(incoming, t)) = ToSet(incoming) \cup {t}
            /\ IsInjective(Append(incoming, t))
        BY <1>0, <4>1, PushedOnto
      <4> QED
        BY <2>5, <4>2
    <3>3. ToSet(incoming') = {u \in Tasks : status'[u] = "queued"}
      BY <1>1, <2>2, <2>3, <2>5, <3>1, <3>2
    <3> QED
      BY <2>1, <3>2, <3>3, QueuesEmptied
  <2> QED
    BY <1>9, <2>4, <2>5, PendingDeleted
<1>10. CASE WillDestroyCurrentMessageLoop
  <2>1. /\ \A u \in Tasks : status'[u] = IF u \in ToSet(incoming) THEN "deleted" ELSE status[u]
        /\ incoming' = <<>> /\ phase = "observers" /\ UNCHANGED <<work, deferred, delayed>>
    BY <1>10, LoopGone
  <2>2. work = <<>> /\ deferred = <<>> /\ delayed = {}
    BY <2>1 DEF PhaseInv
  <2>3. Queued = ToSet(incoming)
    BY <2>2, EmptyQueue DEF Queued, InLine
  <2>4. ToSet(incoming') = {u \in Tasks : status'[u] = "queued"} /\ IsInjective(incoming')
    BY <1>1, <2>1, <2>3, EmptyQueue
  <2> QED
    BY <2>1, <2>2, <2>4, QueuesEmptied
<1>11. ASSUME NEW p \in Posters, PostRefused(p) \/ PostBegins(p)
       PROVE  QueueInv'
  <2>1. UNCHANGED queueVars
    BY <1>11 DEF PostRefused, PostBegins
  <2>2. \E t \in Tasks, value \in {"refused", "posting"} :
          /\ status[t] = "new"
          /\ \A u \in Tasks : status'[u] = IF u = t THEN value ELSE status[u]
    BY <1>11, RefusedSteps, BeginSteps
  <2> QED
    BY <2>1, <2>2, QueuesUnchanged DEF QueuedIsSame
<1>12. ASSUME NEW p \in Posters, PostPushes(p)
       PROVE  QueueInv'
  <2>1. /\ posterTask[p] \in Tasks /\ status[posterTask[p]] = "posting"
        /\ incoming' = Append(incoming, posterTask[p])
        /\ \A u \in Tasks : status'[u] = IF u = posterTask[p] THEN "queued" ELSE status[u]
        /\ UNCHANGED <<work, deferred, delayed>>
    BY <1>12, PushSteps
  <2> QED
    BY <2>1, QueuesGrow
<1> QED
  BY <1>2, <1>3, <1>4, <1>5, <1>6, <1>7, <1>8, <1>9, <1>10, <1>11, <1>12
     DEF Next, LoopStep, PumpStep, ProgramStep, DestructorStep, PosterStep
-----------------------------------------------------------------------------
(* A step that gives no task a run time: what starts or is deferred was    *)
(* due.                                                                    *)
LEMMA TimesUnchanged ==
    ASSUME TypeOK, TimeInv, UNCHANGED runTime, now' \in Nat, now <= now',
           recentTime' \in {recentTime, Null, now},
           \A u \in Tasks : status[u] \in {"new", "refused"} => status'[u] \in {"new", "refused"},
           \A u \in Tasks : Started(u)' => Started(u) \/ runTime[u] <= now,
           \A u \in ToSet(deferred') : u \in ToSet(deferred) \/ (u \in Tasks /\ runTime[u] <= now)
    PROVE  TimeInv'
<1>1. /\ now \in Nat /\ recentTime \in Nat /\ \A u \in Tasks : runTime[u] \in Nat
      /\ ToSet(deferred) \subseteq Tasks
  BY QueuedAreTasks, MaxTimeAssumption DEF TypeOK, PumpTypeOK, Times
<1>2. recentTime' <= now'
  BY <1>1 DEF TimeInv, Null
<1>3. \A u \in Tasks : status'[u] \notin {"new", "refused"} => (runTime'[u] = Null <=> Delay[u] = 0)
  BY DEF TimeInv
<1>4. \A u \in Tasks : Started(u)' => runTime'[u] <= now'
  <2>1. \A u \in Tasks : Started(u)' => runTime[u] <= now
    BY DEF TimeInv
  <2> QED
    BY <1>1, <2>1
<1>5. \A u \in ToSet(deferred') : runTime'[u] <= now'
  <2>1. \A u \in ToSet(deferred') : u \in Tasks /\ runTime[u] <= now
    BY <1>1 DEF TimeInv
  <2> QED
    BY <1>1, <2>1
<1> QED
  BY <1>2, <1>3, <1>4, <1>5 DEF TimeInv

(* A post gives a run time to a task that is new.                          *)
LEMMA TimeGiven ==
    ASSUME TypeOK, TimeInv, QueueInv, NEW t \in Tasks, status[t] = "new",
           runTime' = [runTime EXCEPT ![t] = CalculateDelayedRuntime(t)],
           CalculateDelayedRuntime(t) = Null <=> Delay[t] = 0,
           UNCHANGED <<now, recentTime>>, ToSet(deferred') \subseteq ToSet(deferred),
           status'[t] \in {"queued", "posting"},
           \A u \in Tasks : u # t => status'[u] \in {status[u], "deleted"},
           \A u \in Tasks : status'[u] = "deleted" => status[u] \in {"queued", "deleted"}
    PROVE  TimeInv'
<1>1. \A u \in Tasks : u # t => runTime'[u] = runTime[u]
  BY DEF TypeOK
<1>2. runTime'[t] = CalculateDelayedRuntime(t)
  BY DEF TypeOK
<1>3. \A u \in Tasks : status'[u] \notin {"new", "refused"} => (runTime'[u] = Null <=> Delay[u] = 0)
  <2> TAKE u \in Tasks
  <2>1. CASE u = t
    BY <1>2, <2>1
  <2>2. CASE u # t
    BY <1>1, <2>2 DEF TimeInv
  <2> QED
    BY <2>1, <2>2
<1>4. \A u \in Tasks : Started(u)' => runTime'[u] <= now'
  BY <1>1 DEF TimeInv, Started
<1>5. \A u \in ToSet(deferred') : runTime'[u] <= now'
  <2>1. \A u \in ToSet(deferred') : u \in ToSet(deferred) /\ u \in Tasks /\ u # t
    BY QueuedAreTasks DEF QueueInv, Queued
  <2> QED
    BY <1>1, <2>1 DEF TimeInv
<1>6. recentTime' <= now'
  BY DEF TimeInv
<1> QED
  BY <1>3, <1>4, <1>5, <1>6 DEF TimeInv

(* A task that starts or is deferred was due, by the clock or by the       *)
(* cached one, and the clock never goes back.                              *)
LEMMA TimeInvInductive ==
    ASSUME TypeOK, FrameInv, QueueInv, TimeInv, PosterInv, [Next]_vars
    PROVE  TimeInv'
<1> USE DEF queueVars, loopVars
<1>0. /\ now \in Nat /\ recentTime \in Nat /\ now <= now
      /\ ToSet(deferred) \subseteq Tasks
      /\ \A u \in Tasks : runTime[u] \in Nat
      /\ \A u \in Queued : u \in Tasks /\ status[u] = "queued"
  BY QueuedAreTasks, MaxTimeAssumption DEF TypeOK, PumpTypeOK, Times, QueueInv
<1>1. ASSUME UNCHANGED <<runTime, now>>, recentTime' \in {recentTime, Null, now},
             ToSet(deferred') \subseteq ToSet(deferred),
             \A u \in Tasks : status'[u] \in {status[u], "deleted", "refused"}
                              \/ (status[u] = "running" /\ status'[u] = "ran")
                              \/ (status[u] = "posting" /\ status'[u] = "queued"),
             \A u \in Tasks : status'[u] = "deleted" => status[u] \notin {"new", "refused"}
      PROVE  TimeInv'
  <2>1. \A u \in Tasks : Started(u)' => Started(u) \/ runTime[u] <= now
    BY <1>1 DEF Started
  <2>2. \A u \in Tasks : status[u] \in {"new", "refused"} => status'[u] \in {"new", "refused"}
    BY <1>1
  <2>3. \A u \in ToSet(deferred') : u \in ToSet(deferred) \/ (u \in Tasks /\ runTime[u] <= now)
    BY <1>1
  <2> QED
    BY <1>0, <1>1, <2>1, <2>2, <2>3, TimesUnchanged
<1>2. ASSUME NEW t \in Tasks, status[t] = "queued", runTime[t] <= now, StartsTask(t),
             UNCHANGED <<runTime, now>>, recentTime' \in {recentTime, now},
             ToSet(deferred') \subseteq ToSet(deferred)
      PROVE  TimeInv'
  <2>1. \A u \in Tasks : Started(u)' => Started(u) \/ runTime[u] <= now
    BY <1>2 DEF Started, StartsTask
  <2>2. \A u \in Tasks : status[u] \in {"new", "refused"} => status'[u] \in {"new", "refused"}
    BY <1>2 DEF StartsTask
  <2>3. \A u \in ToSet(deferred') : u \in ToSet(deferred) \/ (u \in Tasks /\ runTime[u] <= now)
    BY <1>2
  <2> QED
    BY <1>0, <1>2, <2>1, <2>2, <2>3, TimesUnchanged
<1>3. ASSUME NEW t \in Tasks, runTime[t] <= now, deferred' = Append(deferred, t),
             UNCHANGED <<runTime, now, status>>, recentTime' \in {recentTime, now}
      PROVE  TimeInv'
  <2>1. ToSet(deferred') = ToSet(deferred) \cup {t}
    <3>1. deferred \in Seq(Tasks)
      BY DEF TypeOK
    <3>2. ToSet(Append(deferred, t)) = ToSet(deferred) \cup {t}
      BY <3>1, PushedOnto
    <3> QED
      BY <1>3, <3>2
  <2>2. \A u \in Tasks : Started(u)' => Started(u) \/ runTime[u] <= now
    BY <1>3 DEF Started
  <2>3. \A u \in ToSet(deferred') : u \in ToSet(deferred) \/ (u \in Tasks /\ runTime[u] <= now)
    BY <1>3, <2>1
  <2> QED
    BY <1>0, <1>3, <2>2, <2>3, TimesUnchanged
<1>4. CASE OwnThreadPost
  <2>1. PICK t \in Tasks :
          /\ status[t] = "new" /\ runTime' = [runTime EXCEPT ![t] = CalculateDelayedRuntime(t)]
          /\ CalculateDelayedRuntime(t) = Null <=> Delay[t] = 0
          /\ \A u \in Tasks : status'[u] = IF u = t THEN "queued" ELSE status[u]
    BY <1>4, TaskPosted
  <2>2. UNCHANGED <<now, recentTime, deferred>>
    BY <1>4, TaskPosted
  <2>3. /\ status'[t] \in {"queued", "posting"}
        /\ \A u \in Tasks : u # t => status'[u] \in {status[u], "deleted"}
        /\ \A u \in Tasks : status'[u] = "deleted" => status[u] \in {"queued", "deleted"}
    BY <2>1
  <2> QED
    BY <2>1, <2>2, <2>3, TimeGiven
<1>5. CASE \/ DoWorkFindsNothing \/ DoIdleWorkFindsNothing \/ PrepareToSleep \/ WakeUp \/ Quit
           \/ Run \/ RunNested \/ QuitNow \/ BeginDestruction \/ ReloadWorkQueue
           \/ UNCHANGED vars \/ (\E p \in Posters : PostSignals(p))
  <2>1. UNCHANGED <<runTime, now, recentTime, deferred, status>>
    BY <1>5 DEF DoWorkFindsNothing, DoIdleWorkFindsNothing, PrepareToSleep, WakeUp, Quit, Run,
         RunNested, QuitNow, BeginDestruction, ReloadWorkQueue, vars, PostSignals
  <2> QED
    BY <1>1, <2>1
<1>6. CASE DoDelayedWorkFindsNothing \/ DoDelayedWorkNotDue
  <2>1. UNCHANGED <<runTime, now, deferred, status>> /\ recentTime' \in {Null, now}
    BY <1>6 DEF DoDelayedWorkFindsNothing, DoDelayedWorkNotDue
  <2> QED
    BY <1>1, <2>1
<1>7. CASE DoWorkTakesTask
  <2> DEFINE t == Head(Reloaded.work)
  <2>1. /\ t \in Tasks /\ Reloaded.work # <<>> /\ UNCHANGED <<runTime, recentTime, now>>
        /\ \/ UNCHANGED <<deferred, status>>
           \/ Immediate(t) /\ StartsTask(t) /\ UNCHANGED deferred
           \/ Immediate(t) /\ deferred' = Append(deferred, t) /\ UNCHANGED status
    BY <1>7, WorkTaken
  <2>2. status[t] = "queued"
    <3>1. t \in InLine
      BY <2>1, HeadTaken DEF QueueInv, TypeOK
    <3> QED
      BY <1>0, <3>1 DEF Queued
  <2> HIDE DEF t
  <2>3. Immediate(t) => runTime[t] <= now
    BY <1>0 DEF Immediate, Null
  <2>4. CASE UNCHANGED <<deferred, status>>
    BY <1>1, <2>1, <2>4
  <2>5. CASE Immediate(t) /\ StartsTask(t) /\ UNCHANGED deferred
    BY <1>2, <2>1, <2>2, <2>3, <2>5
  <2>6. CASE Immediate(t) /\ deferred' = Append(deferred, t) /\ UNCHANGED status
    BY <1>3, <2>1, <2>3, <2>6
  <2> QED
    BY <2>1, <2>4, <2>5, <2>6
<1>8. CASE DoDelayedWorkTakesTask
  <2>1. PICK t \in delayed :
          /\ runTime[t] <= recentTime' /\ recentTime' \in {recentTime, now}
          /\ \/ StartsTask(t) /\ UNCHANGED deferred
             \/ deferred' = Append(deferred, t) /\ UNCHANGED status
    BY <1>8, DelayedTaken
  <2>2. UNCHANGED <<runTime, now>>
    BY <1>8, DelayedTaken
  <2>3. t \in Tasks /\ status[t] = "queued"
    BY <1>0 DEF Queued
  <2>4. runTime[t] <= now
    BY <1>0, <2>1, <2>3 DEF TimeInv
  <2>5. CASE StartsTask(t) /\ UNCHANGED deferred
    BY <1>2, <2>1, <2>2, <2>3, <2>4, <2>5
  <2>6. CASE deferred' = Append(deferred, t) /\ UNCHANGED status
    BY <1>3, <2>1, <2>2, <2>3, <2>4, <2>6
  <2> QED
    BY <2>1, <2>5, <2>6
<1>9. CASE DoIdleWorkTakesTask
  <2> DEFINE t == Head(deferred)
  <2>1. /\ deferred # <<>> /\ t \in Tasks /\ deferred' = Tail(deferred) /\ StartsTask(t)
        /\ UNCHANGED <<runTime, now, recentTime>>
    BY <1>9, DeferredTaken
  <2>2. ToSet(deferred) = {t} \cup ToSet(deferred')
    BY <2>1, TakenOff DEF TypeOK
  <2> HIDE DEF t
  <2>3. status[t] = "queued" /\ runTime[t] <= now
    BY <1>0, <2>2 DEF Queued, TimeInv
  <2> QED
    BY <1>2, <2>1, <2>2, <2>3
<1>10. CASE FinishTask
  <2>1. /\ status[Top.task] = "running" /\ UNCHANGED <<runTime, now, recentTime, deferred>>
        /\ \A u \in Tasks : status'[u] = IF u = Top.task THEN "ran" ELSE status[u]
    BY <1>10, TaskFinished
  <2> QED
    BY <1>1, <2>1
<1>11. CASE DeletePendingTasks
  <2>1. UNCHANGED <<now, recentTime>> /\ ToSet(deferred') \subseteq ToSet(deferred)
    BY <1>11, PendingDeleted, EmptyQueue
  <2>2. \A u \in OwnedTasks : status[u] = "queued"
    BY <1>0 DEF OwnedTasks, Queued, InLine
  <2>3. CASE /\ UNCHANGED runTime
             /\ \A u \in Tasks : status'[u] = IF u \in OwnedTasks THEN "deleted" ELSE status[u]
    BY <1>1, <2>1, <2>2, <2>3
  <2>4. ASSUME NEW t \in Tasks, status[t] = "new",
               runTime' = [runTime EXCEPT ![t] = CalculateDelayedRuntime(t)],
               CalculateDelayedRuntime(t) = Null <=> Delay[t] = 0,
               \A u \in Tasks : status'[u] = IF u \in OwnedTasks THEN "deleted"
                                             ELSE IF u = t THEN "queued" ELSE status[u]
        PROVE  TimeInv'
    <3>1. /\ status'[t] \in {"queued", "posting"}
          /\ \A u \in Tasks : u # t => status'[u] \in {status[u], "deleted"}
          /\ \A u \in Tasks : status'[u] = "deleted" => status[u] \in {"queued", "deleted"}
      BY <2>2, <2>4
    <3> QED
      BY <2>1, <2>4, <3>1, TimeGiven
  <2> QED
    BY <1>11, <2>3, <2>4, PendingDeleted
<1>12. CASE WillDestroyCurrentMessageLoop
  <2>1. /\ \A u \in Tasks : status'[u] = IF u \in ToSet(incoming) THEN "deleted" ELSE status[u]
        /\ UNCHANGED <<runTime, now, recentTime, deferred>>
    BY <1>12, LoopGone DEF pumpVars
  <2>2. \A u \in ToSet(incoming) : status[u] = "queued"
    BY <1>0 DEF Queued, InLine
  <2> QED
    BY <1>1, <2>1, <2>2
<1>13. ASSUME NEW p \in Posters, PostRefused(p)
       PROVE  TimeInv'
  <2>1. UNCHANGED <<runTime, now, recentTime, deferred>>
    BY <1>13 DEF PostRefused
  <2>2. \A u \in Tasks : status'[u] \in {status[u], "refused"}
    BY <1>13, RefusedSteps
  <2> QED
    BY <1>1, <2>1, <2>2
<1>14. ASSUME NEW p \in Posters, PostBegins(p)
       PROVE  TimeInv'
  <2>1. PICK t \in Tasks :
          /\ status[t] = "new" /\ runTime' = [runTime EXCEPT ![t] = CalculateDelayedRuntime(t)]
          /\ CalculateDelayedRuntime(t) = Null <=> Delay[t] = 0
          /\ \A u \in Tasks : status'[u] = IF u = t THEN "posting" ELSE status[u]
    BY <1>14, BeginSteps
  <2>2. UNCHANGED <<now, recentTime, deferred>>
    BY <1>14, BeginSteps
  <2>3. /\ status'[t] \in {"queued", "posting"}
        /\ \A u \in Tasks : u # t => status'[u] \in {status[u], "deleted"}
        /\ \A u \in Tasks : status'[u] = "deleted" => status[u] \in {"queued", "deleted"}
    BY <2>1
  <2> QED
    BY <2>1, <2>2, <2>3, TimeGiven
<1>15. ASSUME NEW p \in Posters, PostPushes(p)
       PROVE  TimeInv'
  <2>1. /\ status[posterTask[p]] = "posting" /\ UNCHANGED <<runTime, now, recentTime, deferred>>
        /\ \A u \in Tasks : status'[u] = IF u = posterTask[p] THEN "queued" ELSE status[u]
    BY <1>15, PushSteps
  <2> QED
    BY <1>1, <2>1
<1>16. CASE TimePasses
  <2>1. /\ UNCHANGED <<runTime, recentTime, deferred, status>> /\ now' = now + 1
    BY <1>16 DEF TimePasses, Tick
  <2>2. \A u \in Tasks : Started(u)' => Started(u)
    BY <2>1 DEF Started
  <2>3. now' \in Nat /\ now <= now'
    BY <1>0, <2>1
  <2> QED
    BY <2>1, <2>2, <2>3, TimesUnchanged
<1> QED
  BY <1>4, <1>5, <1>6, <1>7, <1>8, <1>9, <1>10, <1>11, <1>12, <1>13, <1>14, <1>15, <1>16
     DEF Next, LoopStep, PumpStep, ProgramStep, DestructorStep, PosterStep
-----------------------------------------------------------------------------
(* The loop's own steps leave the posters alone.                           *)
LEMMA PostersUnchanged ==
    ASSUME PosterInv, UNCHANGED <<posterPc, posterTask, proxyLock, target, pumpRefs>>,
           \A u \in Tasks : status'[u] = "posting" <=> status[u] = "posting",
           phase' = "dead" <=> phase = "dead",
           phase = "alive" => phase' = "alive" \/ MayDestroy
    PROVE  PosterInv'
<1>1. \A p \in Posters : (DirectPost(p) /\ posterPc[p] = "push")' => phase' = "alive"
  BY DEF PosterInv, DirectPost, MayDestroy
<1> QED
  BY <1>1 DEF PosterInv

(* A poster keeps the lock until it returns, and its reference to the pump *)
(* as well; the destructor of the proxy waits for the lock, and the owner  *)
(* of the loop for the push of every direct call.                          *)
LEMMA PosterInvInductive ==
    ASSUME TypeOK, FrameInv, QueueInv, PosterInv, PhaseInv, [Next]_vars
    PROVE  PosterInv'
<1> USE DEF queueVars, loopVars, proxyVars
<1>0. /\ \A u \in Queued : u \in Tasks /\ status[u] = "queued"
      /\ frames # <<>> => phase = "alive"
      /\ \A p \in Posters : p # NoPoster
      /\ posterPc \in [Posters -> {"idle", "push", "signal"}]
      /\ posterTask \in [Posters -> Tasks \cup {NoTask}]
  BY PosterAssumption DEF QueueInv, FrameInv, TypeOK
<1>1. ASSUME UNCHANGED proxyVars, UNCHANGED phase,
             \A u \in Tasks : status'[u] = "posting" <=> status[u] = "posting"
      PROVE  PosterInv'
  BY <1>1, PostersUnchanged
<1>2. CASE OwnThreadPost /\ UNCHANGED proxyVars
  BY <1>1, <1>2, TaskPosted
<1>3. CASE /\ \/ DoWorkFindsNothing \/ DoDelayedWorkFindsNothing \/ DoDelayedWorkNotDue
              \/ DoIdleWorkFindsNothing \/ PrepareToSleep \/ WakeUp \/ Quit \/ Run \/ RunNested
              \/ QuitNow
           /\ UNCHANGED proxyVars
  <2>1. UNCHANGED <<phase, status>>
    BY <1>3 DEF DoWorkFindsNothing, DoDelayedWorkFindsNothing, DoDelayedWorkNotDue,
         DoIdleWorkFindsNothing, PrepareToSleep, WakeUp, Quit, Run, RunNested, QuitNow
  <2> QED
    BY <1>1, <1>3, <2>1
<1>4. CASE TimePasses \/ UNCHANGED vars
  <2>1. UNCHANGED <<phase, status, proxyVars>>
    BY <1>4 DEF TimePasses, vars
  <2> QED
    BY <1>1, <2>1
<1>5. ASSUME NEW t \in Tasks, status[t] = "queued", StartsTask(t) \/ UNCHANGED status,
             UNCHANGED <<proxyVars, phase>>
      PROVE  PosterInv'
  <2>1. \A u \in Tasks : status'[u] = "posting" <=> status[u] = "posting"
    BY <1>5 DEF StartsTask
  <2> QED
    BY <1>1, <1>5, <2>1
<1>6. CASE DoWorkTakesTask /\ UNCHANGED proxyVars
  <2> DEFINE t == Head(Reloaded.work)
  <2>1. /\ t \in Tasks /\ Reloaded.work # <<>> /\ UNCHANGED phase
        /\ StartsTask(t) \/ UNCHANGED status
    BY <1>6, WorkTaken
  <2>2. t \in InLine
    BY <2>1, HeadTaken DEF QueueInv, TypeOK
  <2> HIDE DEF t
  <2>3. status[t] = "queued"
    BY <1>0, <2>2 DEF Queued
  <2> QED
    BY <1>5, <1>6, <2>1, <2>3
<1>7. CASE DoDelayedWorkTakesTask /\ UNCHANGED proxyVars
  <2>1. PICK t \in delayed : StartsTask(t) \/ UNCHANGED status
    BY <1>7, DelayedTaken
  <2>2. UNCHANGED phase
    BY <1>7, DelayedTaken
  <2>3. t \in Tasks /\ status[t] = "queued"
    BY <1>0 DEF Queued
  <2> QED
    BY <1>5, <1>7, <2>1, <2>2, <2>3
<1>8. CASE DoIdleWorkTakesTask /\ UNCHANGED proxyVars
  <2> DEFINE t == Head(deferred)
  <2>1. deferred # <<>> /\ t \in Tasks /\ StartsTask(t) /\ UNCHANGED phase
    BY <1>8, DeferredTaken
  <2>2. ToSet(deferred) = {t} \cup ToSet(Tail(deferred))
    BY <2>1, TakenOff DEF TypeOK
  <2> HIDE DEF t
  <2>3. status[t] = "queued"
    BY <1>0, <2>2 DEF Queued
  <2> QED
    BY <1>5, <1>8, <2>1, <2>3
<1>9. CASE FinishTask /\ UNCHANGED proxyVars
  <2>1. /\ Top.task \in Tasks /\ status[Top.task] = "running" /\ UNCHANGED phase
        /\ \A u \in Tasks : status'[u] = IF u = Top.task THEN "ran" ELSE status[u]
    BY <1>9, TaskFinished
  <2> QED
    BY <1>1, <1>9, <2>1
<1>10. CASE /\ (MayDestroy /\ BeginDestruction) \/ ReloadWorkQueue
            /\ UNCHANGED proxyVars
  <2>1. /\ UNCHANGED status /\ phase' = "dead" <=> phase = "dead"
    BY <1>10 DEF BeginDestruction, ReloadWorkQueue, Outside
  <2>2. phase = "alive" => MayDestroy
    BY <1>10 DEF ReloadWorkQueue
  <2> QED
    BY <1>10, <2>1, <2>2, PostersUnchanged DEF BeginDestruction, ReloadWorkQueue, Outside
<1>11. CASE DeletePendingTasks /\ UNCHANGED proxyVars
  <2>1. /\ phase \in {"deleteFirst", "deleteAgain"}
        /\ phase' \in {"reload", "observers", "deleteFirst"}
    BY <1>11, PendingDeleted
  <2>2. \A u \in OwnedTasks : status[u] = "queued"
    BY <1>0 DEF OwnedTasks, Queued, InLine
  <2>3. \A u \in Tasks : status'[u] = "posting" <=> status[u] = "posting"
    <3>1. \/ \A u \in Tasks : status'[u] = IF u \in OwnedTasks THEN "deleted" ELSE status[u]
          \/ \E t \in Tasks :
               /\ status[t] = "new"
               /\ \A u \in Tasks : status'[u] = IF u \in OwnedTasks THEN "deleted"
                                                ELSE IF u = t THEN "queued" ELSE status[u]
      BY <1>11, PendingDeleted
    <3> QED
      BY <2>2, <3>1
  <2> QED
    BY <1>11, <2>1, <2>3, PostersUnchanged
<1>12. CASE WillDestroyCurrentMessageLoop
  <2>1. /\ \A u \in Tasks : status'[u] = IF u \in ToSet(incoming) THEN "deleted" ELSE status[u]
        /\ phase = "observers" /\ phase' = "dead" /\ target' = FALSE
        /\ UNCHANGED <<proxyLock, posterPc, posterTask, pumpRefs>>
    BY <1>12, LoopGone
  <2>2. \A u \in Tasks : status'[u] = "posting" <=> status[u] = "posting"
    BY <1>0, <2>1 DEF Queued, InLine
  <2>3. \A p \in Posters : ~(DirectPost(p) /\ posterPc[p] = "push")'
    BY <2>1 DEF PosterInv, DirectPost
  <2> QED
    BY <2>1, <2>2, <2>3 DEF PosterInv
<1>13. ASSUME NEW p \in Posters, PostRefused(p)
       PROVE  PosterInv'
  <2>1. UNCHANGED <<proxyVars, phase>>
    BY <1>13 DEF PostRefused
  <2>2. \A u \in Tasks : status'[u] = "posting" <=> status[u] = "posting"
    BY <1>13, RefusedSteps
  <2> QED
    BY <1>1, <2>1, <2>2
<1>14. ASSUME NEW p \in Posters, PostBegins(p)
       PROVE  PosterInv'
  <2>1. PICK t \in Tasks :
          /\ status[t] = "new" /\ posterTask' = [posterTask EXCEPT ![p] = t]
          /\ \A u \in Tasks : status'[u] = IF u = t THEN "posting" ELSE status[u]
    BY <1>14, BeginSteps
  <2>2. /\ posterPc[p] = "idle" /\ posterPc' = [posterPc EXCEPT ![p] = "push"]
        /\ UNCHANGED <<target, phase, pumpRefs>>
    BY <1>14, BeginSteps
  <2>3. \/ proxyLock = NoPoster /\ target /\ proxyLock' = p
        \/ phase = "alive" /\ UNCHANGED proxyLock
    BY <1>14, BeginSteps
  <2>4. /\ posterPc'[p] = "push" /\ posterTask'[p] = t
        /\ \A q \in Posters : q # p => posterPc'[q] = posterPc[q] /\ posterTask'[q] = posterTask[q]
    BY <1>0, <2>1, <2>2
  <2>5. \A q \in Posters :
          posterPc'[q] = "push" => posterTask'[q] \in Tasks /\ status'[posterTask'[q]] = "posting"
    BY <2>1, <2>4 DEF PosterInv
  <2>6. \A q, r \in Posters :
          posterPc'[q] = "push" /\ posterPc'[r] = "push" /\ posterTask'[q] = posterTask'[r] => q = r
    <3>1. \A q \in Posters : q # p /\ posterPc'[q] = "push" => posterTask'[q] # t
      BY <2>1, <2>4 DEF PosterInv
    <3> QED
      BY <2>4, <3>1 DEF PosterInv
  <2>7. \A u \in Tasks :
          status'[u] = "posting" => \E q \in Posters : posterPc'[q] = "push" /\ posterTask'[q] = u
    <3> TAKE u \in Tasks
    <3>1. CASE u = t
      BY <2>4, <3>1
    <3>2. CASE u # t
      <4>1. ASSUME status'[u] = "posting"
            PROVE  \E q \in Posters : posterPc'[q] = "push" /\ posterTask'[q] = u
        <5>1. PICK q \in Posters : posterPc[q] = "push" /\ posterTask[q] = u
          BY <2>1, <3>2, <4>1 DEF PosterInv
        <5> QED
          BY <2>2, <2>4, <5>1
      <4> QED
        BY <4>1
    <3> QED
      BY <3>1, <3>2
  <2>8. \A q \in Posters : proxyLock' = q => posterPc'[q] # "idle"
    BY <1>0, <2>3, <2>4 DEF PosterInv
  <2>9. \A q \in Posters : (DirectPost(q) /\ posterPc[q] = "push")' => phase' = "alive"
    BY <1>0, <2>2, <2>3, <2>4 DEF PosterInv, DirectPost
  <2>10. \A q \in Posters : posterPc'[q] = "signal" => q \in pumpRefs'
    BY <2>2, <2>4 DEF PosterInv
  <2> QED
    BY <2>2, <2>5, <2>6, <2>7, <2>8, <2>9, <2>10 DEF PosterInv
<1>15. ASSUME NEW p \in Posters, posterPc[p] # "idle", posterPc'[p] # "push",
              \A q \in Posters : q # p => posterPc'[q] = posterPc[q] /\ posterTask'[q] = posterTask[q],
              \/ posterPc'[p] # "idle" /\ UNCHANGED proxyLock
              \/ /\ posterPc'[p] = "idle"
                 /\ proxyLock' = IF proxyLock = p THEN NoPoster ELSE proxyLock,
              posterPc'[p] = "idle" => proxyLock' # p,
              posterPc'[p] = "signal" => p \in pumpRefs',
              \A q \in Posters : q # p /\ q \in pumpRefs => q \in pumpRefs',
              \A u \in Tasks : status'[u] = "posting"
                <=> (status[u] = "posting" /\ ~(posterPc[p] = "push" /\ posterTask[p] = u)),
              UNCHANGED <<phase, target>>
       PROVE  PosterInv'
  <2>1. \A q \in Posters :
          posterPc'[q] = "push" => posterTask'[q] \in Tasks /\ status'[posterTask'[q]] = "posting"
    BY <1>15 DEF PosterInv
  <2>2. \A q, r \in Posters :
          posterPc'[q] = "push" /\ posterPc'[r] = "push" /\ posterTask'[q] = posterTask'[r] => q = r
    BY <1>15 DEF PosterInv
  <2>3. \A u \in Tasks :
          status'[u] = "posting" => \E q \in Posters : posterPc'[q] = "push" /\ posterTask'[q] = u
    <3> TAKE u \in Tasks
    <3>1. ASSUME status'[u] = "posting"
          PROVE  \E q \in Posters : posterPc'[q] = "push" /\ posterTask'[q] = u
      <4>1. PICK q \in Posters : posterPc[q] = "push" /\ posterTask[q] = u
        BY <1>15, <3>1 DEF PosterInv
      <4> QED
        BY <1>15, <3>1, <4>1
    <3> QED
      BY <3>1
  <2>4. \A q \in Posters : proxyLock' = q => posterPc'[q] # "idle"
    BY <1>0, <1>15 DEF PosterInv
  <2>5. \A q \in Posters : (DirectPost(q) /\ posterPc[q] = "push")' => phase' = "alive"
    BY <1>15 DEF PosterInv, DirectPost
  <2>6. \A q \in Posters : posterPc'[q] = "signal" => q \in pumpRefs'
    BY <1>15 DEF PosterInv
  <2> QED
    BY <1>15, <2>1, <2>2, <2>3, <2>4, <2>5, <2>6 DEF PosterInv
<1>16. ASSUME NEW p \in Posters, PostReturns(p)
       PROVE  /\ posterPc'[p] = "idle" /\ proxyLock' # p
              /\ proxyLock' = IF proxyLock = p THEN NoPoster ELSE proxyLock
              /\ \A q \in Posters : q # p => posterPc'[q] = posterPc[q] /\ posterTask'[q] = posterTask[q]
              /\ \A q \in Posters : q # p /\ q \in pumpRefs => q \in pumpRefs'
  BY <1>0, <1>16 DEF PostReturns
<1>17. ASSUME NEW p \in Posters, PostPushes(p)
       PROVE  PosterInv'
  <2>1. /\ posterPc[p] = "push" /\ posterTask[p] \in Tasks /\ status[posterTask[p]] = "posting"
        /\ \A u \in Tasks : status'[u] = IF u = posterTask[p] THEN "queued" ELSE status[u]
        /\ UNCHANGED <<phase, target>>
    BY <1>17, PushSteps
  <2>2. \A u \in Tasks : status'[u] = "posting"
          <=> (status[u] = "posting" /\ ~(posterPc[p] = "push" /\ posterTask[p] = u))
    BY <2>1
  <2>3. CASE /\ posterPc' = [posterPc EXCEPT ![p] = "signal"] /\ pumpRefs' = RefsWith(p)
             /\ UNCHANGED <<proxyLock, posterTask>>
    <3>1. /\ posterPc'[p] = "signal" /\ p \in pumpRefs' /\ \A q \in pumpRefs : q \in pumpRefs'
          /\ \A q \in Posters : q # p => posterPc'[q] = posterPc[q] /\ posterTask'[q] = posterTask[q]
      BY <1>0, <2>3 DEF RefsWith
    <3> QED
      BY <1>15, <2>1, <2>2, <2>3, <3>1
  <2>4. CASE PostReturns(p)
    BY <1>15, <1>16, <2>1, <2>2, <2>4
  <2> QED
    BY <1>17, <2>3, <2>4, PushSteps
<1>18. ASSUME NEW p \in Posters, PostSignals(p)
       PROVE  PosterInv'
  <2>1. posterPc[p] = "signal" /\ PostReturns(p) /\ UNCHANGED <<phase, target, status>>
    BY <1>18 DEF PostSignals
  <2> QED
    BY <1>15, <1>16, <2>1
<1> QED
  BY <1>2, <1>3, <1>4, <1>6, <1>7, <1>8, <1>9, <1>10, <1>11, <1>12, <1>13, <1>14, <1>17, <1>18
     DEF Next, LoopStep, PumpStep, ProgramStep, DestructorStep, PosterStep
-----------------------------------------------------------------------------
(* The destructor empties the queues in the order of its phases.           *)
LEMMA PhaseInvInductive ==
    ASSUME TypeOK, FrameInv, QueueInv, PosterInv, PhaseInv, [Next]_vars
    PROVE  PhaseInv'
<1> USE DEF queueVars, loopVars, proxyVars
<1>0. frames # <<>> => phase = "alive"
  BY DEF FrameInv
<1>1. ASSUME phase = "alive", phase' = "alive", \A u \in Tasks : status'[u] = "deleted" => status[u] = "deleted"
      PROVE  PhaseInv'
  BY <1>1 DEF PhaseInv
<1>2. CASE OwnThreadPost /\ UNCHANGED proxyVars
  <2>1. /\ phase \in {"alive", "observers"} /\ UNCHANGED <<work, deferred, delayed, phase>>
        /\ \E t \in Tasks : \A u \in Tasks : status'[u] = IF u = t THEN "queued" ELSE status[u]
    BY <1>0, <1>2, TaskPosted DEF InTask, Outside, At
  <2> QED
    BY <2>1 DEF PhaseInv
<1>3. CASE \/ DoWorkFindsNothing \/ DoDelayedWorkFindsNothing \/ DoDelayedWorkNotDue
           \/ DoIdleWorkFindsNothing \/ PrepareToSleep \/ WakeUp \/ Quit \/ Run \/ RunNested
           \/ QuitNow
  <2>1. UNCHANGED <<phase, status>> /\ phase = "alive"
    BY <1>0, <1>3 DEF DoWorkFindsNothing, DoDelayedWorkFindsNothing, DoDelayedWorkNotDue,
         DoIdleWorkFindsNothing, PrepareToSleep, WakeUp, Quit, Run, RunNested, QuitNow, At, InTask,
         Outside
  <2> QED
    BY <1>1, <2>1
<1>4. CASE TimePasses \/ UNCHANGED vars
  <2>1. UNCHANGED <<phase, status, queueVars, posterPc, proxyLock>>
    BY <1>4 DEF TimePasses, vars
  <2> QED
    BY <2>1 DEF PhaseInv
<1>5. CASE DoWorkTakesTask
  <2> DEFINE t == Head(Reloaded.work)
  <2>1. frames # <<>> /\ UNCHANGED phase /\ (StartsTask(t) \/ UNCHANGED status)
    BY <1>5, WorkTaken
  <2> HIDE DEF t
  <2>2. \A u \in Tasks : status'[u] = "deleted" => status[u] = "deleted"
    BY <2>1 DEF StartsTask
  <2> QED
    BY <1>0, <1>1, <2>1, <2>2
<1>6. CASE DoDelayedWorkTakesTask
  <2>1. frames # <<>> /\ UNCHANGED phase /\ \E t \in delayed : StartsTask(t) \/ UNCHANGED status
    BY <1>6, DelayedTaken
  <2>2. \A u \in Tasks : status'[u] = "deleted" => status[u] = "deleted"
    BY <2>1 DEF StartsTask
  <2> QED
    BY <1>0, <1>1, <2>1, <2>2
<1>7. CASE DoIdleWorkTakesTask
  <2>1. frames # <<>> /\ UNCHANGED phase /\ StartsTask(Head(deferred))
    BY <1>7, DeferredTaken
  <2>2. \A u \in Tasks : status'[u] = "deleted" => status[u] = "deleted"
    BY <2>1 DEF StartsTask
  <2> QED
    BY <1>0, <1>1, <2>1, <2>2
<1>8. CASE FinishTask
  <2>1. /\ frames # <<>> /\ UNCHANGED phase
        /\ \A u \in Tasks : status'[u] = IF u = Top.task THEN "ran" ELSE status[u]
    BY <1>8, TaskFinished
  <2> QED
    BY <1>0, <1>1, <2>1
<1>9. CASE BeginDestruction
  <2>1. phase' = "deleteFirst"
    BY <1>9 DEF BeginDestruction
  <2> QED
    BY <2>1 DEF PhaseInv
<1>10. CASE ReloadWorkQueue
  <2>1. phase = "reload" /\ phase' = "deleteAgain" /\ UNCHANGED <<deferred, delayed>>
    BY <1>10 DEF ReloadWorkQueue
  <2> QED
    BY <2>1 DEF PhaseInv
<1>11. CASE DeletePendingTasks
  <2>1. /\ phase' \in {"reload", "observers", "deleteFirst"}
        /\ work' = <<>> /\ deferred' = <<>> /\ delayed' = {}
    BY <1>11, PendingDeleted
  <2> QED
    BY <2>1 DEF PhaseInv
<1>12. CASE WillDestroyCurrentMessageLoop
  <2>1. /\ phase = "observers" /\ phase' = "dead" /\ incoming' = <<>> /\ proxyLock = NoPoster
        /\ UNCHANGED <<work, deferred, delayed, posterPc, proxyLock>>
    BY <1>12, LoopGone
  <2>2. \A p \in Posters : posterPc[p] # "push"
    BY <2>1, PosterAssumption DEF PosterInv, DirectPost
  <2> QED
    BY <2>1, <2>2 DEF PhaseInv
<1>13. ASSUME NEW p \in Posters, PostRefused(p)
       PROVE  PhaseInv'
  <2>1. UNCHANGED <<queueVars, phase, posterPc, proxyLock>>
    BY <1>13 DEF PostRefused
  <2>2. \A u \in Tasks : status'[u] = "deleted" => status[u] = "deleted"
    BY <1>13, RefusedSteps
  <2> QED
    BY <2>1, <2>2 DEF PhaseInv
<1>14. ASSUME NEW p \in Posters, PostBegins(p)
       PROVE  PhaseInv'
  <2>1. UNCHANGED <<queueVars, phase>> /\ phase # "dead"
    BY <1>14, BeginSteps DEF PosterInv
  <2>2. \A u \in Tasks : status'[u] = "deleted" => status[u] = "deleted"
    BY <1>14, BeginSteps
  <2> QED
    BY <2>1, <2>2 DEF PhaseInv
<1>15. ASSUME NEW p \in Posters, PostPushes(p)
       PROVE  PhaseInv'
  <2>1. UNCHANGED <<work, deferred, delayed, phase>> /\ posterPc[p] = "push"
    BY <1>15, PushSteps
  <2>2. \A u \in Tasks : status'[u] = "deleted" => status[u] = "deleted"
    BY <1>15, PushSteps
  <2> QED
    BY <2>1, <2>2 DEF PhaseInv
<1>16. ASSUME NEW p \in Posters, PostSignals(p)
       PROVE  PhaseInv'
  <2>1. UNCHANGED <<queueVars, phase, status>> /\ PostReturns(p)
    BY <1>16 DEF PostSignals
  <2>2. /\ \A q \in Posters : posterPc'[q] # "push" \/ posterPc[q] = "push"
        /\ proxyLock = NoPoster => proxyLock' = NoPoster
    BY <2>1, PosterAssumption DEF PostReturns, TypeOK
  <2> QED
    BY <2>1, <2>2 DEF PhaseInv
<1> QED
  BY <1>2, <1>3, <1>4, <1>5, <1>6, <1>7, <1>8, <1>9, <1>10, <1>11, <1>12, <1>13, <1>14, <1>15, <1>16
     DEF Next, LoopStep, PumpStep, ProgramStep, DestructorStep, PosterStep
-----------------------------------------------------------------------------
(* The rounds of the destructor: a step that leaves them and the queues    *)
(* alone, and a post.                                                      *)
LEMMA RoundsUnchanged ==
    ASSUME RoundInv, UNCHANGED <<phase, roundVars, queueVars, posted>>
    PROVE  RoundInv'
  BY DEF RoundInv, roundVars, queueVars, PostedSince, OwnedTasks

LEMMA RoundsWithPost ==
    ASSUME TypeOK, RoundInv, NEW t \in Tasks, posted' = Append(posted, t),
           UNCHANGED <<phase, roundVars, work, deferred, delayed>>
    PROVE  RoundInv'
<1>1. PostedSince \in Int /\ PostedSince' = PostedSince + 1 /\ round \in Nat
  BY DEF TypeOK, roundVars, PostedSince
<1>2. UNCHANGED <<phase, round, work, OwnedTasks>>
  BY DEF roundVars, OwnedTasks
<1> QED
  BY <1>1, <1>2 DEF RoundInv

(* A round after the first deletes only what was queued since the last.    *)
LEMMA RoundInvInductive ==
    ASSUME TypeOK, FrameInv, PosterInv, PhaseInv, RoundInv, [Next]_vars
    PROVE  RoundInv'
<1>0. /\ frames # <<>> => phase = "alive"
      /\ round \in Nat /\ postedBefore \in Nat /\ PostedSince \in Int /\ posted \in Seq(Tasks)
  BY DEF FrameInv, TypeOK, PostedSince
<1>1. ASSUME phase' = "alive"
      PROVE  RoundInv'
  BY <1>1 DEF RoundInv
<1>2. CASE OwnThreadPost
  <2>1. /\ UNCHANGED <<phase, roundVars, work, deferred, delayed>>
        /\ \E t \in Tasks : posted' = Append(posted, t)
    BY <1>2, TaskPosted
  <2> QED
    BY <2>1, RoundsWithPost
<1>3. CASE \/ DoWorkFindsNothing \/ DoDelayedWorkFindsNothing \/ DoDelayedWorkNotDue
           \/ DoIdleWorkFindsNothing \/ PrepareToSleep \/ WakeUp \/ Quit \/ Run \/ RunNested
           \/ QuitNow
  <2>1. UNCHANGED phase /\ phase = "alive"
    BY <1>0, <1>3 DEF DoWorkFindsNothing, DoDelayedWorkFindsNothing, DoDelayedWorkNotDue,
         DoIdleWorkFindsNothing, PrepareToSleep, WakeUp, Quit, Run, RunNested, QuitNow, At, InTask,
         Outside, loopVars
  <2> QED
    BY <1>1, <2>1
<1>4. CASE TimePasses \/ UNCHANGED vars
  <2>1. UNCHANGED <<phase, roundVars, queueVars, posted>>
    BY <1>4 DEF TimePasses, vars, loopVars
  <2> QED
    BY <2>1, RoundsUnchanged
<1>5. CASE DoWorkTakesTask \/ DoDelayedWorkTakesTask \/ DoIdleWorkTakesTask \/ FinishTask
  <2>1. frames # <<>> /\ UNCHANGED phase
    BY <1>5, WorkTaken, DelayedTaken, DeferredTaken, TaskFinished
  <2> QED
    BY <1>0, <1>1, <2>1
<1>6. CASE BeginDestruction
  <2>1. /\ phase' = "deleteFirst" /\ round' = 0 /\ postedBefore' = Len(posted)
        /\ UNCHANGED posted
    BY <1>6 DEF BeginDestruction
  <2>2. PostedSince' = 0
    BY <1>0, <2>1 DEF PostedSince
  <2> QED
    BY <2>1, <2>2 DEF RoundInv
<1>7. CASE DeletePendingTasks
  <2> DEFINE found == phase = "deleteAgain" /\ OwnedTasks # {}
  <2>1. /\ phase \in {"deleteFirst", "deleteAgain"}
        /\ phase = "deleteFirst" => phase' = "reload"
        /\ phase = "deleteAgain" => phase' \in {"observers", "deleteFirst"}
        /\ work' = <<>> /\ deferred' = <<>> /\ delayed' = {}
        /\ round' = IF found THEN round + 1 ELSE round
        /\ UNCHANGED postedBefore
    BY <1>7, PendingDeleted
  <2>2. \/ UNCHANGED <<incoming, posted>>
        \/ OwnedTasks # {} /\ \E t \in Tasks : posted' = Append(posted, t)
    BY <1>7, PendingDeleted
  <2>3. OwnedTasks' = {}
    BY <2>1, EmptyQueue DEF OwnedTasks
  <2>4. phase = "deleteAgain" => (OwnedTasks # {} <=> work # <<>>)
    <3>1. work \in Seq(Tasks)
      BY DEF TypeOK
    <3>2. work # <<>> => ToSet(work) # {}
      BY <3>1 DEF ToSet
    <3> QED
      BY <3>2, EmptyQueue DEF OwnedTasks, PhaseInv
  <2>5. \/ UNCHANGED <<incoming, PostedSince>>
        \/ OwnedTasks # {} /\ PostedSince' = PostedSince + 1
    BY <1>0, <2>1, <2>2 DEF PostedSince
  <2> HIDE DEF PostedSince
  <2>6. CASE phase = "deleteFirst"
    BY <1>0, <2>1, <2>3, <2>5, <2>6 DEF RoundInv
  <2>7. CASE phase = "deleteAgain"
    <3>1. CASE work = <<>>
      <4>1. UNCHANGED <<incoming, PostedSince, round>> /\ phase' = "observers"
        BY <1>7, <2>1, <2>4, <2>5, <2>7, <3>1, PendingDeleted
      <4> QED
        BY <2>7, <4>1 DEF RoundInv
    <3>2. CASE work # <<>>
      <4>1. round' = round + 1
        BY <2>1, <2>4, <2>7, <3>2
      <4>2. /\ PostedSince >= 0 /\ round <= PostedSince
            /\ incoming # <<>> => round + 1 <= PostedSince
        BY <2>7, <3>2 DEF RoundInv
      <4> QED
        BY <1>0, <2>1, <2>3, <2>5, <2>7, <4>1, <4>2 DEF RoundInv
    <3> QED
      BY <3>1, <3>2
  <2> QED
    BY <2>1, <2>6, <2>7
<1>8. CASE ReloadWorkQueue
  <2>1. /\ phase = "reload" /\ phase' = "deleteAgain"
        /\ incoming' = Reloaded.incoming /\ work' = Reloaded.work
        /\ UNCHANGED <<round, PostedSince>>
    BY <1>8 DEF ReloadWorkQueue, roundVars, PostedSince
  <2>2. work' = incoming /\ incoming' = <<>>
    BY <2>1, ReloadSwaps DEF PhaseInv
  <2> QED
    BY <1>0, <2>1, <2>2 DEF RoundInv
<1>9. CASE WillDestroyCurrentMessageLoop
  <2>1. phase = "observers" /\ phase' = "dead" /\ UNCHANGED <<round, PostedSince>>
    BY <1>9, LoopGone DEF roundVars, PostedSince
  <2> QED
    BY <2>1 DEF RoundInv
<1>10. ASSUME NEW p \in Posters, PostRefused(p) \/ PostBegins(p) \/ PostSignals(p)
       PROVE  RoundInv'
  <2>1. UNCHANGED <<phase, roundVars, queueVars, posted>>
    BY <1>10 DEF PostRefused, PostBegins, PostSignals, loopVars
  <2> QED
    BY <2>1, RoundsUnchanged
<1>11. ASSUME NEW p \in Posters, PostPushes(p)
       PROVE  RoundInv'
  <2>1. /\ posterTask[p] \in Tasks
        /\ UNCHANGED <<phase, roundVars, work, deferred, delayed>>
        /\ posted' = Append(posted, posterTask[p])
    BY <1>11, PushSteps
  <2> QED
    BY <1>11, <2>1, RoundsWithPost
<1> QED
  BY <1>2, <1>3, <1>4, <1>5, <1>6, <1>7, <1>8, <1>9, <1>10, <1>11
     DEF Next, LoopStep, PumpStep, ProgramStep, DestructorStep, PosterStep
-----------------------------------------------------------------------------
(* The order in which tasks were queued: a task is queued once, ...        *)
LEMMA QueuedOnce ==
    ASSUME posted \in Seq(Tasks), IsInjective(posted), NEW a, NEW b, QueuedBefore(a, b)
    PROVE  a # b /\ ~QueuedBefore(b, a) /\ a \in ToSet(posted) /\ b \in ToSet(posted)
  BY DEF QueuedBefore, IsInjective, ToSet

(* ... and the next one after all others.                                  *)
LEMMA QueuedNext ==
    ASSUME posted \in Seq(Tasks), NEW t \in Tasks, t \notin ToSet(posted),
           posted' = Append(posted, t)
    PROVE  \A a, b : QueuedBefore(a, b)' <=> QueuedBefore(a, b) \/ (a \in ToSet(posted) /\ b = t)
<1>1. /\ Len(posted) \in Nat /\ DOMAIN posted = 1 .. Len(posted)
      /\ DOMAIN posted' = 1 .. Len(posted) + 1 /\ posted'[Len(posted) + 1] = t
      /\ \A i \in 1 .. Len(posted) : posted'[i] = posted[i]
  OBVIOUS
<1>2. ASSUME NEW a, NEW b, QueuedBefore(a, b)'
      PROVE  QueuedBefore(a, b) \/ (a \in ToSet(posted) /\ b = t)
  <2>1. PICK i, j \in DOMAIN posted' : i < j /\ posted'[i] = a /\ posted'[j] = b
    BY <1>2 DEF QueuedBefore
  <2>2. i \in DOMAIN posted /\ posted[i] = a
    BY <1>1, <2>1
  <2>3. CASE j \in DOMAIN posted
    BY <1>1, <2>1, <2>2, <2>3 DEF QueuedBefore
  <2>4. CASE j \notin DOMAIN posted
    BY <1>1, <2>1, <2>2, <2>4 DEF ToSet
  <2> QED
    BY <2>3, <2>4
<1>3. ASSUME NEW a, NEW b, QueuedBefore(a, b)
      PROVE  QueuedBefore(a, b)'
  BY <1>1, <1>3 DEF QueuedBefore
<1>4. ASSUME NEW a \in ToSet(posted)
      PROVE  QueuedBefore(a, t)'
  <2>1. PICK i \in DOMAIN posted : posted[i] = a
    BY DEF ToSet
  <2>2. i \in DOMAIN posted' /\ Len(posted) + 1 \in DOMAIN posted' /\ i < Len(posted) + 1
    BY <1>1
  <2> QED
    BY <1>1, <2>1, <2>2 DEF QueuedBefore
<1> QED
  BY <1>2, <1>3, <1>4

(* Nothing is queued: the order stays.                                     *)
LEMMA OrderUnchanged ==
    ASSUME UNCHANGED posted
    PROVE  \A a, b : QueuedBefore(a, b)' <=> QueuedBefore(a, b)
  BY DEF QueuedBefore

(* The queues after ReloadWorkQueue() are in order, and the first task of  *)
(* the work queue was queued before all others in line.                    *)
LEMMA LineReloaded ==
    ASSUME TypeOK, FifoInv
    PROVE  /\ InOrder(Reloaded.work) /\ InOrder(Reloaded.incoming)
           /\ \A x \in ToSet(Reloaded.work), y \in ToSet(Reloaded.incoming) : QueuedBefore(x, y)
<1>1. InOrder(<<>>)
  BY DEF InOrder
<1>2. CASE work = <<>>
  BY <1>1, <1>2, ReloadSwaps, EmptyQueue DEF FifoInv
<1>3. CASE work # <<>>
  BY <1>3, ReloadSwaps DEF FifoInv
<1> QED
  BY <1>2, <1>3

(* What is left of a queue in order is in order.                           *)
LEMMA TailInOrder ==
    ASSUME NEW s \in Seq(Tasks), s # <<>>, InOrder(s)
    PROVE  InOrder(Tail(s)) /\ \A y \in ToSet(Tail(s)) : QueuedBefore(Head(s), y)
<1>1. /\ Len(s) \in Nat /\ DOMAIN s = 1 .. Len(s) /\ Head(s) = s[1]
      /\ DOMAIN Tail(s) = 1 .. Len(s) - 1
      /\ \A k \in 1 .. Len(s) - 1 : Tail(s)[k] = s[k + 1]
  OBVIOUS
<1>2. ASSUME NEW i \in DOMAIN Tail(s), NEW j \in DOMAIN Tail(s), i < j
      PROVE  QueuedBefore(Tail(s)[i], Tail(s)[j])
  <2>1. i + 1 \in DOMAIN s /\ j + 1 \in DOMAIN s /\ i + 1 < j + 1
    BY <1>1, <1>2
  <2>2. QueuedBefore(s[i + 1], s[j + 1])
    BY <2>1 DEF InOrder
  <2> QED
    BY <1>1, <2>2
<1>3. ASSUME NEW y \in ToSet(Tail(s))
      PROVE  QueuedBefore(Head(s), y)
  <2>1. PICK k \in DOMAIN Tail(s) : Tail(s)[k] = y
    BY DEF ToSet
  <2>2. 1 \in DOMAIN s /\ k + 1 \in DOMAIN s /\ 1 < k + 1 /\ s[k + 1] = y
    BY <1>1, <2>1
  <2>3. QueuedBefore(s[1], s[k + 1])
    BY <2>2 DEF InOrder
  <2> QED
    BY <1>1, <2>2, <2>3
<1> QED
  BY <1>2, <1>3 DEF InOrder

(* The first task of the reloaded work queue was queued before the rest.   *)
LEMMA HeadFirst ==
    ASSUME TypeOK, FifoInv, QueueInv, Reloaded.work # <<>>
    PROVE  /\ InOrder(Tail(Reloaded.work)) /\ InOrder(Reloaded.incoming)
           /\ \A x \in ToSet(Tail(Reloaded.work)), y \in ToSet(Reloaded.incoming) :
                QueuedBefore(x, y)
           /\ \A y \in InLine \ {Head(Reloaded.work)} : QueuedBefore(Head(Reloaded.work), y)
<1> DEFINE w == Reloaded.work
           c == Reloaded.incoming
<1>1. w \in Seq(Tasks) /\ c \in Seq(Tasks) /\ w # <<>>
  BY ReloadSwaps DEF TypeOK
<1>2. /\ InOrder(w) /\ InOrder(c) /\ \A x \in ToSet(w), y \in ToSet(c) : QueuedBefore(x, y)
  BY LineReloaded
<1>3. ToSet(c) \cup ToSet(Tail(w)) = InLine \ {Head(w)}
  BY HeadTaken DEF QueueInv, TypeOK
<1> HIDE DEF w, c
<1>4. ToSet(w) = {Head(w)} \cup ToSet(Tail(w))
  BY <1>1, TakenOff
<1>5. InOrder(Tail(w)) /\ \A y \in ToSet(Tail(w)) : QueuedBefore(Head(w), y)
  BY <1>1, <1>2, TailInOrder
<1>6. \A x \in ToSet(Tail(w)), y \in ToSet(c) : QueuedBefore(x, y)
  BY <1>2, <1>4
<1>7. \A y \in InLine \ {Head(w)} : QueuedBefore(Head(w), y)
  BY <1>2, <1>3, <1>4, <1>5
<1> QED
  BY <1>2, <1>5, <1>6, <1>7 DEF w, c
-----------------------------------------------------------------------------
(* A step that queues no task, and of which at most one task starts, after *)
(* those queued before it.                                                 *)
LEMMA FifoWithoutPost ==
    ASSUME TypeOK, FifoInv, UNCHANGED posted,
           \A u \in Tasks : status[u] \in {"new", "posting", "refused"}
                              <=> status'[u] \in {"new", "posting", "refused"},
           InOrder(work'), InOrder(incoming'),
           \A x \in ToSet(work'), y \in ToSet(incoming') : QueuedBefore(x, y),
           \A x \in InLine', y \in Tasks : QueuedBefore(x, y) => y \in InLine',
           \A u \in Tasks : Started(u) => Started(u)',
           \A b \in Tasks : (Started(b)' /\ ~Started(b) /\ Delay[b] = 0) =>
             \A a \in Tasks : (QueuedBefore(a, b) /\ Delay[a] = 0 /\ Nestable[a]) => Started(a)
    PROVE  FifoInv'
<1>1. \A a, b : QueuedBefore(a, b)' <=> QueuedBefore(a, b)
  BY OrderUnchanged
<1>2. IsInjective(posted)' /\ ToSet(posted)' = {t \in Tasks : status'[t] \notin {"new", "posting", "refused"}}
  BY DEF FifoInv
<1>3. InOrder(work)' /\ InOrder(incoming)'
  BY <1>1 DEF InOrder
<1>4. \A x \in ToSet(work'), y \in ToSet(incoming') : QueuedBefore(x, y)'
  BY <1>1
<1>5. \A x \in InLine', y \in Tasks : QueuedBefore(x, y)' => y \in InLine'
  BY <1>1
<1>6. FifoOrder'
  <2>1. ASSUME NEW a \in Tasks, NEW b \in Tasks, QueuedBefore(a, b)', Delay[a] = 0, Delay[b] = 0,
               Nestable[a], Started(b)'
        PROVE  Started(a)'
    <3>1. QueuedBefore(a, b)
      BY <1>1, <2>1
    <3>2. CASE Started(b)
      BY <2>1, <3>1, <3>2 DEF FifoInv, FifoOrder
    <3>3. CASE ~Started(b)
      BY <2>1, <3>1, <3>3
    <3> QED
      BY <3>2, <3>3
  <2> QED
    BY <2>1 DEF FifoOrder
<1> QED
  BY <1>2, <1>3, <1>4, <1>5, <1>6 DEF FifoInv

(* A step in which nothing is queued or starts, and the line stays.        *)
LEMMA FifoUnchanged ==
    ASSUME TypeOK, FifoInv, UNCHANGED <<posted, work, incoming>>,
           \A u \in Tasks : status[u] \in {"new", "posting", "refused"}
                              <=> status'[u] \in {"new", "posting", "refused"},
           \A u \in Tasks : Started(u) => Started(u)',
           \A b \in Tasks : (Started(b)' /\ ~Started(b) /\ Delay[b] = 0) =>
             \A a \in Tasks : (QueuedBefore(a, b) /\ Delay[a] = 0 /\ Nestable[a]) => Started(a)
    PROVE  FifoInv'
<1>1. /\ InOrder(work') /\ InOrder(incoming')
      /\ \A x \in ToSet(work'), y \in ToSet(incoming') : QueuedBefore(x, y)
  BY DEF FifoInv
<1>2. \A x \in InLine', y \in Tasks : QueuedBefore(x, y) => y \in InLine'
  BY DEF FifoInv, InLine
<1> QED
  BY <1>1, <1>2, FifoWithoutPost

(* A post.  The tasks that wait in the work queue may be deleted with it.  *)
LEMMA FifoWithPost ==
    ASSUME TypeOK, FifoInv, QueueInv, NEW t \in Tasks, status[t] \in {"new", "posting"},
           posted' = Append(posted, t), incoming' = Append(incoming, t),
           work' = work \/ work' = <<>>,
           \A u \in Tasks : status'[u] \in {"new", "posting", "refused"}
                              <=> status[u] \in {"new", "posting", "refused"} /\ u # t,
           \A u \in Tasks : Started(u)' <=> Started(u)
    PROVE  FifoInv'
<1>1. /\ posted \in Seq(Tasks) /\ incoming \in Seq(Tasks) /\ IsInjective(posted)
      /\ t \notin ToSet(posted)
  BY DEF TypeOK, FifoInv
<1>2. \A a, b : QueuedBefore(a, b)' <=> QueuedBefore(a, b) \/ (a \in ToSet(posted) /\ b = t)
  BY <1>1, QueuedNext
<1>3. ToSet(posted') = ToSet(posted) \cup {t} /\ IsInjective(posted')
  <2>1. ToSet(Append(posted, t)) = ToSet(posted) \cup {t} /\ IsInjective(Append(posted, t))
    BY <1>1, PushedOnto
  <2> QED
    BY <2>1
<1>4. ToSet(posted') = {u \in Tasks : status'[u] \notin {"new", "posting", "refused"}}
  BY <1>3 DEF FifoInv
<1>5. InLine \subseteq ToSet(posted) /\ InLine \subseteq Tasks
  <2>1. \A u \in InLine : u \in Tasks /\ status[u] = "queued"
    BY QueuedAreTasks DEF QueueInv, Queued
  <2> QED
    BY <2>1 DEF FifoInv
<1>6. ToSet(incoming') = ToSet(incoming) \cup {t}
  <2>1. ToSet(Append(incoming, t)) = ToSet(incoming) \cup {t}
    BY <1>1, PushedOnto
  <2> QED
    BY <2>1
<1>7. ToSet(work') \subseteq ToSet(work) /\ InOrder(work)'
  <2>1. CASE work' = work
    BY <1>2, <2>1 DEF FifoInv, InOrder
  <2>2. CASE work' = <<>>
    BY <2>2, EmptyQueue DEF InOrder
  <2> QED
    BY <2>1, <2>2
<1>8. InOrder(incoming)'
  <2>1. /\ Len(incoming) \in Nat /\ DOMAIN incoming = 1 .. Len(incoming)
        /\ DOMAIN incoming' = 1 .. Len(incoming) + 1 /\ incoming'[Len(incoming) + 1] = t
        /\ \A i \in 1 .. Len(incoming) : incoming'[i] = incoming[i]
    BY <1>1
  <2>2. ASSUME NEW i \in DOMAIN incoming', NEW j \in DOMAIN incoming', i < j
        PROVE  QueuedBefore(incoming[i], incoming[j])'
    <3>1. i \in DOMAIN incoming /\ incoming'[i] = incoming[i]
      BY <2>1, <2>2
    <3>2. CASE j \in DOMAIN incoming
      <4>1. QueuedBefore(incoming[i], incoming[j])
        BY <2>2, <3>1, <3>2 DEF FifoInv, InOrder
      <4>2. incoming'[j] = incoming[j]
        BY <2>1, <3>2
      <4>3. \E k, l \in DOMAIN posted' : k < l /\ posted'[k] = incoming[i] /\ posted'[l] = incoming[j]
        <5>1. /\ DOMAIN posted' = 1 .. Len(posted) + 1 /\ DOMAIN posted = 1 .. Len(posted)
              /\ \A k \in DOMAIN posted : posted'[k] = posted[k]
          BY <1>1
        <5> QED
          BY <4>1, <5>1 DEF QueuedBefore
      <4> QED
        BY <3>1, <4>2, <4>3 DEF QueuedBefore
    <3>3. CASE j \notin DOMAIN incoming
      <4>1. incoming'[j] = t
        BY <2>1, <3>3
      <4>2. PICK k \in DOMAIN posted : posted[k] = incoming[i]
        BY <1>5, <3>1 DEF InLine, ToSet
      <4>3. /\ k \in DOMAIN posted' /\ Len(posted) + 1 \in DOMAIN posted' /\ k < Len(posted) + 1
            /\ posted'[k] = incoming[i] /\ posted'[Len(posted) + 1] = t
        BY <1>1, <4>2
      <4> QED
        BY <3>1, <4>1, <4>3 DEF QueuedBefore
    <3> QED
      BY <3>2, <3>3
  <2> QED
    BY <2>2 DEF InOrder
<1>9. \A x \in ToSet(work'), y \in ToSet(incoming') : QueuedBefore(x, y)'
  <2> TAKE x \in ToSet(work'), y \in ToSet(incoming')
  <2>1. x \in ToSet(work) /\ x \in ToSet(posted)
    BY <1>5, <1>7 DEF InLine
  <2>2. CASE y = t
    BY <1>2, <2>1, <2>2
  <2>3. CASE y \in ToSet(incoming)
    BY <1>2, <2>1, <2>3 DEF FifoInv
  <2> QED
    BY <1>6, <2>2, <2>3
<1>10. \A x \in InLine', y \in Tasks : QueuedBefore(x, y)' => y \in InLine'
  <2>1. InLine' = ToSet(incoming) \cup {t} \cup ToSet(work')
    BY <1>6 DEF InLine
  <2>2. ASSUME NEW x \in InLine', NEW y \in Tasks, QueuedBefore(x, y), y # t
        PROVE  y \in InLine'
    <3>1. x # t
      BY <1>1, <2>2, QueuedOnce
    <3>2. x \in InLine
      BY <1>7, <2>1, <3>1 DEF InLine
    <3>3. y \in InLine
      BY <2>2, <3>2 DEF FifoInv
    <3>4. CASE work' = work
      BY <2>1, <3>3, <3>4 DEF InLine
    <3>5. CASE work' = <<>>
      <4>1. x \in ToSet(incoming)
        BY <2>1, <3>1, <3>5, EmptyQueue
      <4>2. y \notin ToSet(work)
        <5>1. ~QueuedBefore(y, x)
          BY <1>1, <2>2, QueuedOnce
        <5> QED
          BY <4>1, <5>1 DEF FifoInv
      <4> QED
        BY <2>1, <3>3, <4>2 DEF InLine
    <3> QED
      BY <3>4, <3>5
  <2> QED
    BY <1>2, <2>1, <2>2
<1>11. FifoOrder'
  <2>1. ASSUME NEW a \in Tasks, NEW b \in Tasks, QueuedBefore(a, b)', Delay[a] = 0, Delay[b] = 0,
               Nestable[a], Started(b)'
        PROVE  Started(a)'
    <3>1. Started(b) /\ b # t
      BY <2>1 DEF Started
    <3>2. QueuedBefore(a, b)
      BY <1>2, <2>1, <3>1
    <3> QED
      BY <2>1, <3>1, <3>2 DEF FifoInv, FifoOrder
  <2> QED
    BY <2>1 DEF FifoOrder
<1> QED
  BY <1>3, <1>4, <1>7, <1>8, <1>9, <1>10, <1>11 DEF FifoInv

(* A task that is not in line any more, if it is immediate and nestable,   *)
(* has started, while the loop is alive.                                   *)
LEMMA OutOfLine ==
    ASSUME TypeOK, QueueInv, FifoInv, PhaseInv, phase = "alive", NEW a \in Tasks,
           a \in ToSet(posted), a \notin InLine, Delay[a] = 0, Nestable[a]
    PROVE  Started(a)
<1>1. a \notin ToSet(deferred) /\ a \notin delayed
  BY DEF QueueInv
<1>2. status[a] # "queued"
  BY <1>1 DEF QueueInv, Queued
<1>3. status[a] \notin {"new", "posting", "refused", "deleted"} /\ status[a] \in Statuses
  BY DEF FifoInv, PhaseInv, TypeOK
<1> QED
  BY <1>2, <1>3 DEF Statuses, Started

(* A task leaves the line from its head, the queues are swapped only       *)
(* when the work queue is empty, and a post goes to the end.               *)
LEMMA FifoInvInductive ==
    ASSUME TypeOK, FrameInv, QueueInv, FifoInv, PosterInv, PhaseInv, [Next]_vars
    PROVE  FifoInv'
<1> USE DEF queueVars, loopVars
<1>0. /\ frames # <<>> => phase = "alive"
      /\ \A u \in Queued : u \in Tasks /\ status[u] = "queued"
      /\ posted \in Seq(Tasks) /\ IsInjective(posted)
      /\ work \in Seq(Tasks) /\ incoming \in Seq(Tasks)
  BY DEF FrameInv, QueueInv, TypeOK, FifoInv
<1>1. ASSUME UNCHANGED <<posted, work, incoming>>,
             \A u \in Tasks : \/ status'[u] = status[u]
                              \/ status[u] = "running" /\ status'[u] = "ran"
                              \/ status[u] = "queued" /\ status'[u] = "deleted"
                              \/ status[u] = "new" /\ status'[u] \in {"refused", "posting"}
      PROVE  FifoInv'
  <2>1. /\ \A u \in Tasks : status[u] \in {"new", "posting", "refused"}
                              <=> status'[u] \in {"new", "posting", "refused"}
        /\ \A u \in Tasks : Started(u) => Started(u)'
        /\ \A u \in Tasks : Started(u)' => Started(u)
    BY <1>1 DEF Started
  <2> QED
    BY <1>1, <2>1, FifoUnchanged
<1>2. CASE OwnThreadPost
  <2>1. PICK t \in Tasks :
          /\ status[t] = "new" /\ incoming' = Append(incoming, t) /\ posted' = Append(posted, t)
          /\ \A u \in Tasks : status'[u] = IF u = t THEN "queued" ELSE status[u]
    BY <1>2, TaskPosted
  <2>2. UNCHANGED work
    BY <1>2, TaskPosted
  <2>3. /\ \A u \in Tasks : status'[u] \in {"new", "posting", "refused"}
                              <=> status[u] \in {"new", "posting", "refused"} /\ u # t
        /\ \A u \in Tasks : Started(u)' <=> Started(u)
    BY <2>1 DEF Started
  <2> QED
    BY <2>1, <2>2, <2>3, FifoWithPost
<1>3. CASE \/ DoWorkFindsNothing \/ DoDelayedWorkFindsNothing \/ DoDelayedWorkNotDue
           \/ DoIdleWorkFindsNothing \/ PrepareToSleep \/ WakeUp \/ Quit \/ Run \/ RunNested
           \/ QuitNow \/ TimePasses \/ BeginDestruction \/ UNCHANGED vars
           \/ (\E p \in Posters : PostSignals(p))
  <2>1. UNCHANGED <<posted, work, incoming, status>>
    BY <1>3 DEF DoWorkFindsNothing, DoDelayedWorkFindsNothing, DoDelayedWorkNotDue,
         DoIdleWorkFindsNothing, PrepareToSleep, WakeUp, Quit, Run, RunNested, QuitNow,
         TimePasses, BeginDestruction, vars, PostSignals
  <2> QED
    BY <1>1, <2>1
<1>4. CASE DoWorkTakesTask
  <2> DEFINE t == Head(Reloaded.work)
  <2>1. /\ frames # <<>> /\ t \in Tasks /\ Reloaded.work # <<>> /\ UNCHANGED posted
        /\ incoming' = Reloaded.incoming /\ work' = Tail(Reloaded.work)
        /\ StartsTask(t) \/ UNCHANGED status
    BY <1>4, WorkTaken
  <2>2. /\ InOrder(work') /\ InOrder(incoming')
        /\ \A x \in ToSet(work'), y \in ToSet(incoming') : QueuedBefore(x, y)
        /\ \A y \in InLine \ {t} : QueuedBefore(t, y)
    BY <2>1, HeadFirst
  <2>3. t \in InLine /\ InLine' = InLine \ {t}
    BY <1>0, <2>1, HeadTaken DEF QueueInv, InLine
  <2> HIDE DEF t
  <2>4. status[t] = "queued"
    BY <1>0, <2>3 DEF Queued
  <2>5. \A x \in InLine', y \in Tasks : QueuedBefore(x, y) => y \in InLine'
    <3> TAKE x \in InLine', y \in Tasks
    <3>1. ASSUME QueuedBefore(x, y)
          PROVE  y \in InLine'
      <4>1. y \in InLine
        BY <2>3, <3>1 DEF FifoInv
      <4>2. QueuedBefore(t, x)
        BY <2>2, <2>3
      <4>3. y # t
        BY <1>0, <3>1, <4>2, QueuedOnce
      <4> QED
        BY <2>3, <4>1, <4>3
    <3> QED
      BY <3>1
  <2>6. /\ \A u \in Tasks : status[u] \in {"new", "posting", "refused"}
                              <=> status'[u] \in {"new", "posting", "refused"}
        /\ \A u \in Tasks : Started(u) => Started(u)'
        /\ \A u \in Tasks : Started(u)' /\ ~Started(u) => u = t
    BY <2>1, <2>4 DEF StartsTask, Started
  <2>7. \A a \in Tasks : (QueuedBefore(a, t) /\ Delay[a] = 0 /\ Nestable[a]) => Started(a)
    <3> TAKE a \in Tasks
    <3>1. ASSUME QueuedBefore(a, t), Delay[a] = 0, Nestable[a]
          PROVE  Started(a)
      <4>1. a # t /\ ~QueuedBefore(t, a) /\ a \in ToSet(posted)
        BY <1>0, <3>1, QueuedOnce
      <4>2. a \notin InLine
        BY <2>2, <4>1
      <4> QED
        BY <1>0, <2>1, <3>1, <4>1, <4>2, OutOfLine
    <3> QED
      BY <3>1
  <2>8. \A b \in Tasks : (Started(b)' /\ ~Started(b) /\ Delay[b] = 0) =>
          \A a \in Tasks : (QueuedBefore(a, b) /\ Delay[a] = 0 /\ Nestable[a]) => Started(a)
    BY <2>6, <2>7
  <2> QED
    BY <2>1, <2>2, <2>5, <2>6, <2>8, FifoWithoutPost
<1>5. CASE DoDelayedWorkTakesTask
  <2>1. PICK t \in delayed : StartsTask(t) \/ UNCHANGED status
    BY <1>5, DelayedTaken
  <2>2. UNCHANGED <<posted, incoming, work>>
    BY <1>5, DelayedTaken
  <2>3. t \in Tasks /\ status[t] = "queued" /\ Delay[t] > 0 /\ Delay[t] \in Nat
    BY <1>0, LoopAssumption DEF Queued, QueueInv
  <2>4. /\ \A u \in Tasks : status[u] \in {"new", "posting", "refused"}
                              <=> status'[u] \in {"new", "posting", "refused"}
        /\ \A u \in Tasks : Started(u) => Started(u)'
        /\ \A u \in Tasks : Started(u)' /\ ~Started(u) => u = t
    BY <2>1, <2>3 DEF StartsTask, Started
  <2>5. Delay[t] # 0
    BY <2>3
  <2>6. \A b \in Tasks : (Started(b)' /\ ~Started(b) /\ Delay[b] = 0) =>
          \A a \in Tasks : (QueuedBefore(a, b) /\ Delay[a] = 0 /\ Nestable[a]) => Started(a)
    BY <2>4, <2>5
  <2> QED
    BY <2>2, <2>4, <2>6, FifoUnchanged
<1>6. CASE DoIdleWorkTakesTask
  <2> DEFINE t == Head(deferred)
  <2>1. /\ frames # <<>> /\ deferred # <<>> /\ t \in Tasks /\ StartsTask(t)
        /\ UNCHANGED <<posted, work, incoming>>
    BY <1>6, DeferredTaken
  <2>2. ToSet(deferred) = {t} \cup ToSet(Tail(deferred))
    BY <2>1, TakenOff DEF TypeOK
  <2> HIDE DEF t
  <2>3. status[t] = "queued" /\ t \notin InLine
    BY <1>0, <2>2 DEF Queued, QueueInv
  <2>4. /\ \A u \in Tasks : status[u] \in {"new", "posting", "refused"}
                              <=> status'[u] \in {"new", "posting", "refused"}
        /\ \A u \in Tasks : Started(u) => Started(u)'
        /\ \A u \in Tasks : Started(u)' /\ ~Started(u) => u = t
    BY <2>1, <2>3 DEF StartsTask, Started
  <2>5. \A a \in Tasks : (QueuedBefore(a, t) /\ Delay[a] = 0 /\ Nestable[a]) => Started(a)
    <3> TAKE a \in Tasks
    <3>1. ASSUME QueuedBefore(a, t), Delay[a] = 0, Nestable[a]
          PROVE  Started(a)
      <4>1. a \in ToSet(posted)
        BY <1>0, <3>1, QueuedOnce
      <4>2. a \notin InLine
        BY <2>1, <2>3, <3>1 DEF FifoInv
      <4> QED
        BY <1>0, <2>1, <3>1, <4>1, <4>2, OutOfLine
    <3> QED
      BY <3>1
  <2>6. \A b \in Tasks : (Started(b)' /\ ~Started(b) /\ Delay[b] = 0) =>
          \A a \in Tasks : (QueuedBefore(a, b) /\ Delay[a] = 0 /\ Nestable[a]) => Started(a)
    BY <2>4, <2>5
  <2> QED
    BY <2>1, <2>4, <2>6, FifoUnchanged
<1>7. CASE FinishTask
  <2>1. /\ status[Top.task] = "running" /\ UNCHANGED <<posted, work, incoming>>
        /\ \A u \in Tasks : status'[u] = IF u = Top.task THEN "ran" ELSE status[u]
    BY <1>7, TaskFinished
  <2> QED
    BY <1>1, <2>1
<1>8. CASE ReloadWorkQueue
  <2>1. /\ incoming' = Reloaded.incoming /\ work' = Reloaded.work /\ UNCHANGED <<posted, status>>
    BY <1>8 DEF ReloadWorkQueue
  <2>2. ToSet(incoming') \cup ToSet(work') = InLine
    BY <1>0, <2>1, ReloadKeepsQueues DEF QueueInv
  <2>3. InLine' = InLine
    BY <2>2 DEF InLine
  <2>4. /\ InOrder(work') /\ InOrder(incoming')
        /\ \A x \in ToSet(work'), y \in ToSet(incoming') : QueuedBefore(x, y)
    BY <2>1, LineReloaded
  <2>5. \A u \in Tasks : Started(u)' <=> Started(u)
    BY <2>1 DEF Started
  <2>6. \A x \in InLine', y \in Tasks : QueuedBefore(x, y) => y \in InLine'
    BY <2>3 DEF FifoInv
  <2> QED
    BY <2>1, <2>4, <2>5, <2>6, FifoWithoutPost
<1>9. ASSUME UNCHANGED <<posted, incoming>>, work' = <<>>,
             \A u \in Tasks : status'[u] = status[u] \/ (status[u] = "queued" /\ status'[u] = "deleted")
      PROVE  FifoInv'
  <2>1. /\ InOrder(work') /\ InOrder(incoming')
        /\ \A x \in ToSet(work'), y \in ToSet(incoming') : QueuedBefore(x, y)
    BY <1>9, EmptyQueue DEF InOrder, FifoInv
  <2>2. InLine' = ToSet(incoming)
    BY <1>9, EmptyQueue DEF InLine
  <2>3. \A x \in InLine', y \in Tasks : QueuedBefore(x, y) => y \in InLine'
    <3> TAKE x \in InLine', y \in Tasks
    <3>1. ASSUME QueuedBefore(x, y)
          PROVE  y \in InLine'
      <4>1. x \in InLine /\ x \in ToSet(incoming)
        BY <2>2 DEF InLine
      <4>2. y \in InLine /\ ~QueuedBefore(y, x)
        BY <1>0, <3>1, <4>1, QueuedOnce DEF FifoInv
      <4>3. y \notin ToSet(work)
        BY <4>1, <4>2 DEF FifoInv
      <4> QED
        BY <2>2, <4>2, <4>3 DEF InLine
    <3> QED
      BY <3>1
  <2>4. /\ \A u \in Tasks : status[u] \in {"new", "posting", "refused"}
                              <=> status'[u] \in {"new", "posting", "refused"}
        /\ \A u \in Tasks : Started(u)' <=> Started(u)
    BY <1>9 DEF Started
  <2> QED
    BY <1>9, <2>1, <2>3, <2>4, FifoWithoutPost
<1>10. CASE DeletePendingTasks
  <2>1. work' = <<>>
    BY <1>10, PendingDeleted
  <2>2. \A u \in OwnedTasks : status[u] = "queued"
    BY <1>0 DEF OwnedTasks, Queued, InLine
  <2>3. CASE /\ UNCHANGED <<incoming, posted>>
             /\ \A u \in Tasks : status'[u] = IF u \in OwnedTasks THEN "deleted" ELSE status[u]
    BY <1>9, <2>1, <2>2, <2>3
  <2>4. ASSUME NEW t \in Tasks, status[t] = "new",
               incoming' = Append(incoming, t), posted' = Append(posted, t),
               \A u \in Tasks : status'[u] = IF u \in OwnedTasks THEN "deleted"
                                             ELSE IF u = t THEN "queued" ELSE status[u]
        PROVE  FifoInv'
    <3>1. /\ \A u \in Tasks : status'[u] \in {"new", "posting", "refused"}
                                <=> status[u] \in {"new", "posting", "refused"} /\ u # t
          /\ \A u \in Tasks : Started(u)' <=> Started(u)
      BY <2>2, <2>4 DEF Started
    <3> QED
      BY <2>1, <2>4, <3>1, FifoWithPost
  <2> QED
    BY <1>10, <2>3, <2>4, PendingDeleted
<1>11. CASE WillDestroyCurrentMessageLoop
  <2>1. /\ \A u \in Tasks : status'[u] = IF u \in ToSet(incoming) THEN "deleted" ELSE status[u]
        /\ incoming' = <<>> /\ phase = "observers" /\ UNCHANGED <<work, posted>>
    BY <1>11, LoopGone
  <2>2. work = <<>>
    BY <2>1 DEF PhaseInv
  <2>3. InLine' = {} /\ InOrder(work') /\ InOrder(incoming') /\ ToSet(work') = {}
    BY <2>1, <2>2, EmptyQueue DEF InLine, InOrder
  <2>4. /\ \A u \in Tasks : status[u] \in {"new", "posting", "refused"}
                              <=> status'[u] \in {"new", "posting", "refused"}
        /\ \A u \in Tasks : Started(u)' <=> Started(u)
    BY <1>0, <2>1 DEF Started, Queued, InLine
  <2> QED
    BY <2>1, <2>3, <2>4, FifoWithoutPost
<1>12. ASSUME NEW p \in Posters, PostRefused(p) \/ PostBegins(p)
       PROVE  FifoInv'
  <2>1. UNCHANGED <<posted, work, incoming>>
    BY <1>12 DEF PostRefused, PostBegins
  <2>2. \E t \in Tasks, value \in {"refused", "posting"} :
          /\ status[t] = "new"
          /\ \A u \in Tasks : status'[u] = IF u = t THEN value ELSE status[u]
    BY <1>12, RefusedSteps, BeginSteps
  <2> QED
    BY <1>1, <2>1, <2>2
<1>13. ASSUME NEW p \in Posters, PostPushes(p)
       PROVE  FifoInv'
  <2>1. /\ posterTask[p] \in Tasks /\ status[posterTask[p]] = "posting" /\ UNCHANGED work
        /\ incoming' = Append(incoming, posterTask[p]) /\ posted' = Append(posted, posterTask[p])
        /\ \A u \in Tasks : status'[u] = IF u = posterTask[p] THEN "queued" ELSE status[u]
    BY <1>13, PushSteps
  <2>2. /\ \A u \in Tasks : status'[u] \in {"new", "posting", "refused"}
                              <=> status[u] \in {"new", "posting", "refused"} /\ u # posterTask[p]
        /\ \A u \in Tasks : Started(u)' <=> Started(u)
    BY <2>1 DEF Started
  <2> QED
    BY <2>1, <2>2, FifoWithPost
<1> QED
  BY <1>2, <1>3, <1>4, <1>5, <1>6, <1>7, <1>8, <1>10, <1>11, <1>12, <1>13
     DEF Next, LoopStep, PumpStep, ProgramStep, DestructorStep, PosterStep
-----------------------------------------------------------------------------
(* Nested tasks.  A Run goes on or ends after a method that ran no task    *)
(* (allowed is what was allowed), or after a task (allowed is TRUE).       *)
LEMMA AllowReturned ==
    ASSUME frames \in Seq(Frames), FrameInv, AllowInv, frames # <<>>,
           NEW stage, NEW did, NEW allowed \in BOOLEAN, GoesOn(stage, did, allowed) \/ LeavesRun(allowed),
           allowed => nestableAllowed \/ Top.pc = "Task"
    PROVE  AllowInv' /\ (LeavesRun(allowed) /\ frames' # <<>> => ~nestableAllowed')
<1>1. /\ Depth \in Nat \ {0} /\ DOMAIN frames = 1 .. Depth /\ Top = frames[Depth]
      /\ Len(frames) = Depth
  BY DEF Depth, Top
<1>2. (Depth > 1 /\ ~Top.allower) => ~allowed
  BY <1>1 DEF AllowInv
<1>3. CASE GoesOn(stage, did, allowed)
  <2>1. PICK f \in Frames : /\ SetTop(f) /\ nestableAllowed' = allowed
                            /\ f.allower = Top.allower /\ f.pc # "Task"
    BY <1>3 DEF GoesOn
  <2>2. /\ frames' # <<>> /\ Depth' = Depth /\ DOMAIN frames' = 1 .. Depth
        /\ frames'[Depth] = f /\ Top' = f
        /\ \A i \in 1 .. Depth : i # Depth => frames'[i] = frames[i]
    BY <2>1, TopChanged
  <2>3. \A i \in DOMAIN frames' : (i > 1 /\ frames'[i].pc = "Task") => frames'[i].allower
    BY <1>1, <2>1, <2>2 DEF AllowInv
  <2>4. AllowInv'
    BY <1>2, <2>1, <2>2, <2>3 DEF AllowInv
  <2>5. ~LeavesRun(allowed)
    <3>1. LeavesRun(allowed) => Depth' = Depth - 1
      BY FrameLeft DEF LeavesRun
    <3> QED
      BY <1>1, <2>2, <3>1
  <2> QED
    BY <2>4, <2>5
<1>4. CASE LeavesRun(allowed)
  <2>1. frames' = Front(frames) /\ nestableAllowed' = (allowed /\ ~Top.allower)
    BY <1>4 DEF LeavesRun
  <2>2. /\ Depth' = Depth - 1 /\ DOMAIN frames' = 1 .. Depth - 1
        /\ \A i \in 1 .. Depth - 1 : frames'[i] = frames[i]
        /\ frames' # <<>> => Depth > 1
    BY <2>1, FrameLeft
  <2>3. \A i \in DOMAIN frames' : (i > 1 /\ frames'[i].pc = "Task") => frames'[i].allower
    BY <1>1, <2>2 DEF AllowInv
  <2>4. frames' # <<>> => ~nestableAllowed'
    BY <1>2, <2>1, <2>2
  <2> QED
    BY <2>3, <2>4 DEF AllowInv
<1> QED
  BY <1>3, <1>4

(* A task starts in a nested Run only inside a ScopedNestableTaskAllower.  *)
LEMMA AllowStarted ==
    ASSUME frames \in Seq(Frames), AllowInv, frames # <<>>, nestableAllowed \/ Depth = 1,
           NEW t, StartsTask(t)
    PROVE  AllowInv'
<1>1. PICK f \in Frames : SetTop(f) /\ f.pc = "Task" /\ f.allower = Top.allower
  BY DEF StartsTask
<1>2. /\ Depth \in Nat \ {0} /\ DOMAIN frames = 1 .. Depth /\ Top = frames[Depth]
      /\ DOMAIN frames' = 1 .. Depth /\ frames'[Depth] = f
      /\ \A i \in 1 .. Depth : i # Depth => frames'[i] = frames[i]
  BY <1>1, TopChanged DEF Depth, Top
<1>3. Depth > 1 => Top.allower
  BY <1>2 DEF AllowInv
<1>4. \A i \in DOMAIN frames' : (i > 1 /\ frames'[i].pc = "Task") => frames'[i].allower
  BY <1>1, <1>2, <1>3 DEF AllowInv
<1>5. nestableAllowed' = FALSE
  BY DEF StartsTask
<1> QED
  BY <1>4, <1>5 DEF AllowInv

(* The stage of the innermost Run changes, and what is allowed does not.   *)
LEMMA AllowKept ==
    ASSUME frames \in Seq(Frames), AllowInv, frames # <<>>, NEW f \in Frames, SetTop(f),
           f.allower = Top.allower, f.pc = "Task" <=> Top.pc = "Task", UNCHANGED nestableAllowed
    PROVE  AllowInv'
<1>1. /\ Depth \in Nat \ {0} /\ DOMAIN frames = 1 .. Depth /\ Top = frames[Depth]
      /\ DOMAIN frames' = 1 .. Depth /\ frames'[Depth] = f /\ Top' = f /\ Depth' = Depth
      /\ \A i \in 1 .. Depth : i # Depth => frames'[i] = frames[i]
  BY TopChanged DEF Depth, Top
<1>2. \A i \in DOMAIN frames' : (i > 1 /\ frames'[i].pc = "Task") => frames'[i].allower
  BY <1>1 DEF AllowInv
<1> QED
  BY <1>1, <1>2 DEF AllowInv

(* What PrepareToSleep, WakeUp and Quit make of the innermost Run.         *)
LEMMA TopSteps ==
    ASSUME TypeOK, PrepareToSleep \/ WakeUp \/ Quit
    PROVE  /\ frames # <<>>
           /\ \E f \in Frames :
                /\ SetTop(f) /\ f.task = Top.task /\ f.allower = Top.allower
                /\ f.didWork = Top.didWork /\ f.stage = Top.stage
                /\ f.pc = "Task" <=> Top.pc = "Task"
                /\ Quit => f.pc = Top.pc
                /\ PrepareToSleep => \/ f.pc = "DoWork"
                                     \/ f.pc = "Wait" /\ UNCHANGED delayedWorkTime
                /\ WakeUp => f.pc = "DoWork"
<1>1. frames # <<>> /\ frames \in Seq(Frames)
  BY DEF PrepareToSleep, WakeUp, Quit, InTask, At, TypeOK
<1>2. Top \in Frames
  BY <1>1, TopInFrames
<1>3. CASE PrepareToSleep \/ WakeUp
  <2> DEFINE f(pc) == [Top EXCEPT !.pc = pc]
  <2>1. \A pc \in {"DoWork", "Wait"} :
          /\ f(pc) \in Frames /\ f(pc).pc = pc
          /\ f(pc).task = Top.task /\ f(pc).allower = Top.allower
          /\ f(pc).didWork = Top.didWork /\ f(pc).stage = Top.stage
    BY <1>2 DEF Frames, Stages
  <2>2. \E pc \in {"DoWork", "Wait"} :
          /\ SetTop(f(pc)) /\ Top.pc \in {"Sleep", "Wait"} /\ ~Quit
          /\ PrepareToSleep => pc = "DoWork" \/ UNCHANGED delayedWorkTime
          /\ WakeUp => pc = "DoWork"
    BY <1>3 DEF PrepareToSleep, WakeUp, At, Quit, InTask
  <2> HIDE DEF f
  <2> QED
    BY <1>1, <2>1, <2>2
<1>4. CASE Quit
  <2> DEFINE f == [Top EXCEPT !.quitReceived = TRUE]
  <2>1. /\ f \in Frames /\ f.pc = Top.pc /\ f.task = Top.task /\ f.allower = Top.allower
        /\ f.didWork = Top.didWork /\ f.stage = Top.stage
    BY <1>2 DEF Frames
  <2>2. SetTop(f) /\ Top.pc = "Task" /\ ~PrepareToSleep /\ ~WakeUp
    BY <1>4 DEF Quit, InTask, At, PrepareToSleep, WakeUp
  <2> HIDE DEF f
  <2> QED
    BY <1>1, <2>1, <2>2
<1> QED
  BY <1>3, <1>4

(* RunTask() forbids nested tasks, a Run inside an allower permits them,   *)
(* and a Run that ends without one has a task that forbids them.           *)
LEMMA AllowInvInductive ==
    ASSUME TypeOK, FrameInv, AllowInv, [Next]_vars
    PROVE  AllowInv'
<1> USE DEF queueVars, loopVars
<1>0. /\ frames \in Seq(Frames) /\ nestableAllowed \in BOOLEAN
      /\ frames # <<>> => phase = "alive"
  BY DEF TypeOK, FrameInv
<1>1. CASE UNCHANGED <<frames, nestableAllowed>>
  BY <1>1 DEF AllowInv, Top, Depth
<1>2. CASE \/ OwnThreadPost \/ QuitNow \/ TimePasses \/ BeginDestruction \/ ReloadWorkQueue
           \/ DeletePendingTasks \/ WillDestroyCurrentMessageLoop \/ UNCHANGED vars
           \/ \E p \in Posters : PosterStep(p)
  <2>1. UNCHANGED <<frames, nestableAllowed>>
    BY <1>2 DEF OwnThreadPost, QuitNow, TimePasses, BeginDestruction, ReloadWorkQueue,
         DeletePendingTasks, WillDestroyCurrentMessageLoop, EndDestruction, vars, PosterStep,
         PostRefused, PostBegins, PostPushes, PostSignals
  <2> QED
    BY <1>1, <2>1
<1>3. CASE \/ DoWorkFindsNothing \/ DoDelayedWorkFindsNothing \/ DoDelayedWorkNotDue
           \/ DoIdleWorkFindsNothing
  <2>1. frames # <<>>
    BY <1>3, NothingFound
  <2>2. \E stage, did : GoesOn(stage, did, nestableAllowed) \/ LeavesRun(nestableAllowed)
    BY <1>3, NothingFound
  <2> QED
    BY <1>0, <2>1, <2>2, AllowReturned
<1>4. CASE DoWorkTakesTask
  <2>1. /\ frames # <<>> /\ nestableAllowed
        /\ (\E t : StartsTask(t)) \/ UNCHANGED <<frames, nestableAllowed>>
    BY <1>4, WorkTaken
  <2> QED
    BY <1>0, <1>1, <2>1, AllowStarted
<1>5. CASE DoDelayedWorkTakesTask
  <2>1. /\ frames # <<>> /\ nestableAllowed
        /\ \/ \E t : StartsTask(t)
           \/ GoesOn("DoDelayedWork", Top.didWork, nestableAllowed)
           \/ LeavesRun(nestableAllowed)
    BY <1>5, DelayedTaken
  <2>2. CASE \E t : StartsTask(t)
    BY <1>0, <2>1, <2>2, AllowStarted
  <2>3. CASE \/ GoesOn("DoDelayedWork", Top.didWork, nestableAllowed)
             \/ LeavesRun(nestableAllowed)
    BY <1>0, <2>1, <2>3, AllowReturned
  <2> QED
    BY <2>1, <2>2, <2>3
<1>6. CASE DoIdleWorkTakesTask
  <2>1. frames # <<>> /\ Depth = 1 /\ StartsTask(Head(deferred))
    BY <1>6, DeferredTaken
  <2> QED
    BY <1>0, <2>1, AllowStarted
<1>7. CASE FinishTask
  <2>1. frames # <<>> /\ Top.pc = "Task" /\ \E stage : GoesOn(stage, TRUE, TRUE) \/ LeavesRun(TRUE)
    BY <1>7, TaskFinished
  <2>2. PICK allowed \in BOOLEAN :
          (\E stage, did : GoesOn(stage, did, allowed)) \/ LeavesRun(allowed)
    BY <2>1
  <2> QED
    BY <1>0, <2>1, <2>2, AllowReturned
<1>8. CASE PrepareToSleep \/ WakeUp \/ Quit
  <2>1. UNCHANGED nestableAllowed
    BY <1>8 DEF PrepareToSleep, WakeUp, Quit
  <2>2. frames # <<>> /\ \E f \in Frames : /\ SetTop(f) /\ f.allower = Top.allower
                                           /\ f.pc = "Task" <=> Top.pc = "Task"
    BY <1>8, TopSteps
  <2> QED
    BY <1>0, <2>1, <2>2, AllowKept
<1>9. CASE Run
  <2>1. frames = <<>> /\ \E f \in Frames : f.pc = "DoWork" /\ frames' = <<f>>
    BY <1>9 DEF Run, Outside, NewFrame, Frames, Stages
  <2>2. Depth' = 1 /\ DOMAIN frames' = {1} /\ Top'.pc = "DoWork"
    BY <2>1 DEF Depth, Top
  <2> QED
    BY <2>2 DEF AllowInv
<1>10. CASE RunNested
  <2>1. PICK allPending \in BOOLEAN, allower \in BOOLEAN :
          frames' = Append(frames, NewFrame(allPending, allower)) /\ nestableAllowed' = allower
    BY <1>10 DEF RunNested
  <2>2. /\ NewFrame(allPending, allower) \in Frames
        /\ NewFrame(allPending, allower).pc = "DoWork"
        /\ NewFrame(allPending, allower).allower = allower
    BY DEF NewFrame, Frames, Stages
  <2>3. /\ Depth \in Nat /\ DOMAIN frames = 1 .. Depth /\ DOMAIN frames' = 1 .. Depth + 1
        /\ frames'[Depth + 1] = NewFrame(allPending, allower)
        /\ Top' = NewFrame(allPending, allower)
        /\ \A i \in 1 .. Depth : frames'[i] = frames[i]
    BY <1>0, <2>1, <2>2, FrameEntered
  <2>4. \A i \in DOMAIN frames' : (i > 1 /\ frames'[i].pc = "Task") => frames'[i].allower
    BY <2>2, <2>3 DEF AllowInv
  <2>5. (Top.pc = "Task" \/ (Depth > 1 /\ ~Top.allower))' => ~nestableAllowed'
    BY <2>1, <2>2, <2>3
  <2> QED
    BY <2>4, <2>5 DEF AllowInv
<1> QED
  BY <1>2, <1>3, <1>4, <1>5, <1>6, <1>7, <1>8, <1>9, <1>10
     DEF Next, LoopStep, PumpStep, ProgramStep, DestructorStep
-----------------------------------------------------------------------------
(* A task in the queue of delayed tasks has a run time.                    *)
LEMMA DelayedHaveTime ==
    ASSUME TypeOK, QueueInv, TimeInv, NEW t \in delayed
    PROVE  t \in Tasks /\ runTime[t] # Null
<1>1. t \in Tasks /\ Delay[t] \in Nat /\ Delay[t] > 0
  BY LoopAssumption DEF TypeOK, QueueInv
<1>2. status[t] = "queued"
  BY DEF QueueInv, Queued
<1> QED
  BY <1>1, <1>2 DEF TimeInv

(* A Run that is left goes back to a task, in which nested tasks are not   *)
(* allowed and which does not sleep.                                       *)
LEMMA WakeLeft ==
    ASSUME frames \in Seq(Frames), FrameInv, AllowInv, frames # <<>>, NEW allowed \in BOOLEAN,
           LeavesRun(allowed), allowed => nestableAllowed \/ Top.pc = "Task"
    PROVE  WakeInv'
<1>1. frames' # <<>> => ~nestableAllowed'
  <2>1. Top \in Frames
    BY TopInFrames
  <2> QED
    BY AllowReturned
<1> QED
  BY <1>1 DEF WakeInv

(* The methods of the delegate that find nothing keep the promise that     *)
(* Run will not sleep on work.                                             *)
LEMMA WakeInvInductive ==
    ASSUME TypeOK, FrameInv, QueueInv, TimeInv, PosterInv, AllowInv, AllowInv', WakeInv, [Next]_vars
    PROVE  WakeInv'
<1> USE DEF queueVars, loopVars
<1>0. /\ frames \in Seq(Frames) /\ nestableAllowed \in BOOLEAN
      /\ frames # <<>> => phase = "alive"
      /\ incoming \in Seq(Tasks)
  BY DEF TypeOK, FrameInv
<1>1. CASE frames' = <<>> \/ ~nestableAllowed'
  BY <1>1 DEF WakeInv
<1>2. CASE OwnThreadPost \/ QuitNow
  <2>1. UNCHANGED <<frames, nestableAllowed>>
    BY <1>2 DEF OwnThreadPost, QuitNow
  <2>2. frames # <<>> => Top.pc = "Task"
    BY <1>0, <1>2 DEF OwnThreadPost, QuitNow, InTask, At, Outside
  <2>3. frames # <<>> => ~nestableAllowed
    BY <2>2 DEF AllowInv
  <2> QED
    BY <1>1, <2>1, <2>3
<1>3. CASE \/ BeginDestruction \/ ReloadWorkQueue \/ DeletePendingTasks
           \/ WillDestroyCurrentMessageLoop
  <2>1. frames = <<>> /\ UNCHANGED frames
    BY <1>0, <1>3 DEF BeginDestruction, ReloadWorkQueue, DeletePendingTasks,
         WillDestroyCurrentMessageLoop, EndDestruction, Outside
  <2> QED
    BY <1>1, <2>1
<1>4. CASE TimePasses \/ UNCHANGED vars \/ (\E p \in Posters : PostRefused(p))
  <2>1. UNCHANGED <<queueVars, frames, nestableAllowed, runTime, event, delayedWorkTime, posterPc>>
    BY <1>4 DEF TimePasses, vars, pumpVars, proxyVars, PostRefused
  <2> QED
    BY <2>1 DEF WakeInv, At, Top, Depth
<1>5. CASE Run \/ RunNested
  <2>1. Top'.pc = "DoWork" /\ frames' # <<>>
    <3>1. CASE Run
      BY <3>1 DEF Run, NewFrame, Top, Depth
    <3>2. CASE RunNested
      <4>1. \E f \in Frames : f.pc = "DoWork" /\ frames' = Append(frames, f)
        BY <3>2 DEF RunNested, NewFrame, Frames, Stages
      <4> QED
        BY <1>0, <4>1, FrameEntered
    <3> QED
      BY <1>5, <3>1, <3>2
  <2> QED
    BY <2>1 DEF WakeInv, At
<1>6. CASE DoWorkFindsNothing
  <2>1. frames # <<>> /\ (GoesOn("DoWork", FALSE, nestableAllowed) \/ LeavesRun(nestableAllowed))
    <3>1. PICK stage \in Stages :
            /\ At(stage)
            /\ \/ GoesOn(stage, stage = "DoDelayedWork" /\ Top.didWork, nestableAllowed)
               \/ LeavesRun(nestableAllowed)
      BY <1>6, NothingFound
    <3>2. stage = "DoWork" /\ frames # <<>>
      BY <1>6, <3>1 DEF DoWorkFindsNothing, At
    <3> QED
      BY <3>1, <3>2 DEF GoesOn
  <2>2. CASE GoesOn("DoWork", FALSE, nestableAllowed) /\ nestableAllowed
    <3>1. PICK f \in Frames : SetTop(f) /\ f.pc = "DoDelayedWork" /\ f.didWork = FALSE
      BY <2>2 DEF GoesOn, NextStage
    <3>2. Top' = f /\ frames' # <<>> /\ Top'.pc = "DoDelayedWork"
      BY <1>0, <2>1, <3>1, TopChanged
    <3>3. work = <<>> /\ incoming = <<>>
      BY <1>6, <2>2, ReloadSwaps DEF DoWorkFindsNothing
    <3>4. work' = <<>> /\ incoming' = <<>>
      BY <1>6, <3>3 DEF DoWorkFindsNothing
    <3> QED
      BY <3>2, <3>4 DEF WakeInv, At
  <2>3. CASE GoesOn("DoWork", FALSE, nestableAllowed) /\ ~nestableAllowed
    BY <1>1, <2>3 DEF GoesOn
  <2>4. CASE LeavesRun(nestableAllowed)
    BY <1>0, <2>1, <2>4, WakeLeft
  <2> QED
    BY <2>1, <2>2, <2>3, <2>4
<1>7. CASE DoWorkTakesTask
  <2>1. /\ frames # <<>> /\ Top.pc = "DoWork"
        /\ (\E t : StartsTask(t)) \/ UNCHANGED frames
    BY <1>7, WorkTaken
  <2>2. CASE \E t : StartsTask(t)
    BY <1>1, <2>2 DEF StartsTask
  <2>3. CASE UNCHANGED frames
    BY <2>1, <2>3 DEF WakeInv, At, Top, Depth
  <2> QED
    BY <2>1, <2>2, <2>3
<1>8. ASSUME frames # <<>>, Top.pc = "DoDelayedWork", nestableAllowed,
             GoesOn("DoDelayedWork", Top.didWork, nestableAllowed),
             UNCHANGED <<incoming, work, event, posterPc, runTime>>,
             \A t \in delayed' : delayedWorkTime' # Null /\ delayedWorkTime' <= runTime[t]
      PROVE  WakeInv'
  <2>1. PICK f \in Frames : SetTop(f) /\ f.pc = NextStage("DoDelayedWork", Top.didWork)
    BY <1>8 DEF GoesOn
  <2>2. Top' = f /\ frames' # <<>>
    BY <1>0, <1>8, <2>1, TopChanged
  <2>3. CASE Top.didWork
    <3>1. Top'.pc = "DoWork"
      BY <2>1, <2>2, <2>3 DEF NextStage
    <3> QED
      BY <2>2, <3>1 DEF WakeInv, At
  <2>4. CASE ~Top.didWork
    <3>1. Top'.pc = "DoIdleWork"
      BY <2>1, <2>2, <2>4 DEF NextStage
    <3>2. /\ work' = <<>>
          /\ incoming' # <<>> => event' \/ \E p \in Posters : posterPc'[p] = "signal"
      BY <1>8, <2>4 DEF WakeInv, At
    <3> QED
      BY <1>8, <2>2, <3>1, <3>2 DEF WakeInv, At
  <2> QED
    BY <2>3, <2>4
<1>9. CASE (DoDelayedWorkFindsNothing \/ DoDelayedWorkNotDue) /\ UNCHANGED proxyVars
  <2>1. /\ frames # <<>> /\ Top.pc = "DoDelayedWork"
        /\ \/ GoesOn("DoDelayedWork", Top.didWork, nestableAllowed)
           \/ LeavesRun(nestableAllowed)
    <3>1. PICK stage \in Stages :
            /\ At(stage)
            /\ \/ GoesOn(stage, stage = "DoDelayedWork" /\ Top.didWork, nestableAllowed)
               \/ LeavesRun(nestableAllowed)
      BY <1>9, NothingFound
    <3>2. stage = "DoDelayedWork" /\ frames # <<>> /\ Top.pc = "DoDelayedWork"
      BY <1>9, <3>1 DEF DoDelayedWorkFindsNothing, DoDelayedWorkNotDue, At
    <3>3. Top.didWork \in BOOLEAN
      BY <1>0, <3>2, TopInFrames DEF Frames
    <3> QED
      BY <3>1, <3>2, <3>3 DEF GoesOn
  <2>2. UNCHANGED <<incoming, work, delayed, event, posterPc, runTime>>
    BY <1>9 DEF DoDelayedWorkFindsNothing, DoDelayedWorkNotDue, proxyVars
  <2>3. CASE GoesOn("DoDelayedWork", Top.didWork, nestableAllowed) /\ nestableAllowed
    <3>1. \A t \in delayed : delayedWorkTime' # Null /\ delayedWorkTime' <= runTime[t]
      <4>1. CASE DoDelayedWorkFindsNothing
        BY <2>3, <4>1 DEF DoDelayedWorkFindsNothing
      <4>2. CASE DoDelayedWorkNotDue
        <5>1. delayed # {} /\ delayedWorkTime' = runTime[Earliest]
          BY <4>2 DEF DoDelayedWorkNotDue
        <5>2. Earliest \in delayed /\ \A u \in delayed : runTime[Earliest] <= runTime[u]
          BY <5>1, EarliestIsFirst DEF Earliest, TypeOK
        <5> QED
          BY <5>1, <5>2, DelayedHaveTime
      <4> QED
        BY <1>9, <4>1, <4>2
    <3> QED
      BY <1>8, <2>1, <2>2, <2>3, <3>1
  <2>4. CASE GoesOn("DoDelayedWork", Top.didWork, nestableAllowed) /\ ~nestableAllowed
    BY <1>1, <2>4 DEF GoesOn
  <2>5. CASE LeavesRun(nestableAllowed)
    BY <1>0, <2>1, <2>5, WakeLeft
  <2> QED
    BY <2>1, <2>3, <2>4, <2>5
<1>10. CASE DoDelayedWorkTakesTask /\ UNCHANGED proxyVars
  <2>1. /\ frames # <<>> /\ Top.pc = "DoDelayedWork" /\ nestableAllowed
        /\ UNCHANGED <<incoming, work, event, posterPc, runTime>>
    BY <1>10, DelayedTaken DEF proxyVars
  <2>2. PICK t \in delayed :
          /\ delayed' = delayed \ {t}
          /\ delayed' # {} =>
               \E e \in delayed' : delayedWorkTime' = runTime[e]
                                   /\ \A u \in delayed' : runTime[e] <= runTime[u]
          /\ \/ StartsTask(t)
             \/ GoesOn("DoDelayedWork", Top.didWork, nestableAllowed)
             \/ LeavesRun(nestableAllowed)
    BY <1>10, DelayedTaken
  <2>3. CASE StartsTask(t)
    BY <1>1, <2>3 DEF StartsTask
  <2>4. CASE GoesOn("DoDelayedWork", Top.didWork, nestableAllowed)
    <3>1. \A u \in delayed' : delayedWorkTime' # Null /\ delayedWorkTime' <= runTime[u]
      BY <2>2, DelayedHaveTime
    <3> QED
      BY <1>8, <2>1, <2>4, <3>1
  <2>5. CASE LeavesRun(nestableAllowed)
    BY <1>0, <2>1, <2>5, WakeLeft
  <2> QED
    BY <2>2, <2>3, <2>4, <2>5
<1>11. CASE DoIdleWorkTakesTask
  <2>1. StartsTask(Head(deferred))
    BY <1>11, DeferredTaken
  <2> QED
    BY <1>1, <2>1 DEF StartsTask
<1>12. CASE DoIdleWorkFindsNothing /\ UNCHANGED proxyVars
  <2>1. /\ frames # <<>> /\ Top.pc = "DoIdleWork"
        /\ GoesOn("DoIdleWork", FALSE, nestableAllowed) \/ LeavesRun(nestableAllowed)
    <3>1. PICK stage \in Stages :
            /\ At(stage)
            /\ \/ GoesOn(stage, stage = "DoDelayedWork" /\ Top.didWork, nestableAllowed)
               \/ LeavesRun(nestableAllowed)
      BY <1>12, NothingFound
    <3>2. stage = "DoIdleWork" /\ frames # <<>> /\ Top.pc = "DoIdleWork"
      BY <1>12, <3>1 DEF DoIdleWorkFindsNothing, At
    <3> QED
      BY <3>1, <3>2 DEF GoesOn
  <2>2. /\ UNCHANGED <<queueVars, event, posterPc, runTime, delayedWorkTime>>
        /\ Depth = 1 => deferred = <<>>
    BY <1>12 DEF DoIdleWorkFindsNothing, proxyVars, HasDeferredTask
  <2>3. CASE GoesOn("DoIdleWork", FALSE, nestableAllowed) /\ nestableAllowed
    <3>1. PICK f \in Frames : SetTop(f) /\ f.pc = "Sleep"
      BY <2>3 DEF GoesOn, NextStage
    <3>2. Top' = f /\ frames' # <<>> /\ Top'.pc = "Sleep" /\ Depth' = Depth
      BY <1>0, <2>1, <3>1, TopChanged
    <3>3. /\ work = <<>>
          /\ incoming # <<>> => event \/ \E p \in Posters : posterPc[p] = "signal"
          /\ \A t \in delayed : delayedWorkTime # Null /\ delayedWorkTime <= runTime[t]
      BY <2>1, <2>3 DEF WakeInv, At
    <3> QED
      BY <2>2, <3>2, <3>3 DEF WakeInv, At
  <2>4. CASE GoesOn("DoIdleWork", FALSE, nestableAllowed) /\ ~nestableAllowed
    BY <1>1, <2>4 DEF GoesOn
  <2>5. CASE LeavesRun(nestableAllowed)
    BY <1>0, <2>1, <2>5, WakeLeft
  <2> QED
    BY <2>1, <2>3, <2>4, <2>5
<1>13. CASE (PrepareToSleep \/ WakeUp \/ Quit) /\ UNCHANGED proxyVars
  <2>1. frames # <<>>
    BY <1>13, TopSteps
  <2>2. PICK f \in Frames : /\ SetTop(f)
                            /\ Quit => f.pc = Top.pc
                            /\ PrepareToSleep => \/ f.pc = "DoWork"
                                                 \/ f.pc = "Wait" /\ UNCHANGED delayedWorkTime
                            /\ WakeUp => f.pc = "DoWork"
    BY <1>13, TopSteps
  <2>3. Top' = f /\ frames' # <<>> /\ Depth' = Depth
    BY <1>0, <2>1, <2>2, TopChanged
  <2>4. CASE f.pc = "DoWork"
    BY <2>3, <2>4 DEF WakeInv, At
  <2>5. CASE Quit
    <3>1. ~nestableAllowed /\ UNCHANGED nestableAllowed
      BY <2>1, <2>5 DEF Quit, InTask, At, AllowInv
    <3> QED
      BY <1>1, <3>1
  <2>6. CASE PrepareToSleep /\ f.pc = "Wait" /\ UNCHANGED delayedWorkTime
    <3>1. /\ Top.pc = "Sleep" /\ UNCHANGED <<queueVars, nestableAllowed, runTime, event, posterPc>>
      BY <1>13, <2>6 DEF PrepareToSleep, At, proxyVars
    <3> QED
      BY <2>1, <2>3, <2>6, <3>1 DEF WakeInv, At
  <2> QED
    BY <1>13, <2>2, <2>4, <2>5, <2>6
<1>14. CASE FinishTask
  <2>1. /\ frames # <<>> /\ Top.pc = "Task"
        /\ \E stage \in Stages : GoesOn(stage, TRUE, TRUE) \/ LeavesRun(TRUE)
    BY <1>14, TaskFinished
  <2>2. CASE \E stage \in Stages : GoesOn(stage, TRUE, TRUE)
    <3>1. PICK stage \in Stages, f \in Frames :
            SetTop(f) /\ f.pc = NextStage(stage, TRUE) /\ f.didWork = TRUE /\ f.stage = stage
      BY <2>2 DEF GoesOn
    <3>2. Top' = f /\ frames' # <<>>
      BY <1>0, <2>1, <3>1, TopChanged
    <3>3. Top'.pc = "DoWork" \/ (Top'.pc = "DoDelayedWork" /\ Top'.didWork)
      BY <3>1, <3>2 DEF NextStage, Stages
    <3> QED
      BY <3>2, <3>3 DEF WakeInv, At
  <2>3. CASE LeavesRun(TRUE)
    <3>1. PICK allowed \in BOOLEAN : LeavesRun(allowed)
      BY <2>3
    <3> QED
      BY <1>0, <2>1, <3>1, WakeLeft
  <2> QED
    BY <2>1, <2>2, <2>3
<1>15. ASSUME NEW p \in Posters, PostBegins(p)
       PROVE  WakeInv'
  <2>1. /\ posterPc[p] = "idle" /\ posterPc' = [posterPc EXCEPT ![p] = "push"]
        /\ UNCHANGED <<queueVars, nestableAllowed, frames, pumpVars>>
    BY <1>15, BeginSteps
  <2>2. PICK t \in Tasks : status[t] = "new" /\ runTime' = [runTime EXCEPT ![t] = CalculateDelayedRuntime(t)]
    BY <1>15, BeginSteps
  <2>3. \A u \in delayed : runTime'[u] = runTime[u]
    <3>1. \A u \in delayed : u \in Tasks /\ status[u] = "queued"
      BY DEF QueueInv, Queued
    <3>2. runTime \in [Tasks -> Times]
      BY DEF TypeOK
    <3> QED
      BY <2>2, <3>1, <3>2
  <2>4. \A q \in Posters : posterPc[q] = "signal" => posterPc'[q] = "signal"
    BY <2>1 DEF TypeOK
  <2>5. UNCHANGED <<event, delayedWorkTime>>
    BY <2>1 DEF pumpVars
  <2> QED
    BY <2>1, <2>3, <2>4, <2>5 DEF WakeInv, At, Top, Depth
<1>16. ASSUME NEW p \in Posters, PostReturns(p)
       PROVE  \A q \in Posters : q # p => posterPc'[q] = posterPc[q]
  BY <1>16 DEF PostReturns, TypeOK
<1>17. ASSUME NEW p \in Posters, PostPushes(p)
       PROVE  WakeInv'
  <2>1. /\ posterPc[p] = "push" /\ UNCHANGED <<work, deferred, delayed, runTime, nestableAllowed, frames>>
        /\ UNCHANGED <<event, delayedWorkTime>>
    BY <1>17, PushSteps DEF pumpVars
  <2>2. \/ \E q \in Posters : posterPc'[q] = "signal"
        \/ /\ incoming # <<>>
           /\ \A q \in Posters : posterPc[q] = "signal" => posterPc'[q] = "signal"
    <3>1. CASE incoming = <<>> /\ posterPc' = [posterPc EXCEPT ![p] = "signal"]
      BY <3>1 DEF TypeOK
    <3>2. CASE incoming # <<>> /\ PostReturns(p)
      BY <1>16, <2>1, <3>2
    <3> QED
      BY <1>17, <3>1, <3>2, PushSteps
  <2> QED
    BY <2>1, <2>2 DEF WakeInv, At, Top, Depth
<1>18. ASSUME NEW p \in Posters, PostSignals(p)
       PROVE  WakeInv'
  <2>1. event' = TRUE /\ UNCHANGED <<queueVars, runTime, nestableAllowed, frames, delayedWorkTime>>
    BY <1>18 DEF PostSignals, ScheduleWork
  <2> QED
    BY <2>1 DEF WakeInv, At, Top, Depth
<1> QED
  BY <1>2, <1>3, <1>4, <1>5, <1>6, <1>7, <1>9, <1>10, <1>11, <1>12, <1>13, <1>14, <1>15, <1>17, <1>18
     DEF Next, LoopStep, PumpStep, ProgramStep, DestructorStep, PosterStep
-----------------------------------------------------------------------------
(* The inductive invariant.                                               *)
LoopInv == /\ TypeOK
           /\ FrameInv /\ QueueInv /\ TimeInv /\ FifoInv
           /\ PosterInv /\ PhaseInv /\ RoundInv
           /\ AllowInv /\ WakeInv

(* The invariant holds at first.                                           *)
LEMMA InitLoopInv ==
    ASSUME Init
    PROVE  LoopInv
<1>1. /\ incoming = <<>> /\ work = <<>> /\ deferred = <<>> /\ delayed = {} /\ posted = <<>>
      /\ frames = <<>> /\ phase = "alive" /\ recentTime = 0 /\ now = 1
  BY DEF Init, LoopInit, PumpInit, Null
<1>2. /\ \A t \in Tasks : status[t] = "new"
      /\ \A t \in Tasks : runTime[t] = 0
  BY DEF Init, LoopInit, Null
<1>3. /\ target /\ proxyLock = NoPoster
      /\ \A p \in Posters : posterPc[p] = "idle" /\ p # NoPoster
  BY PosterAssumption DEF Init
<1>4. ToSet(<<>>) = {} /\ IsInjective(<<>>) /\ DOMAIN <<>> = {}
  BY EmptyQueue
<1>5. FrameInv
  BY <1>1, <1>2, <1>4 DEF FrameInv
<1>6. QueueInv
  BY <1>1, <1>2, <1>4 DEF QueueInv, InLine, Queued
<1>7. TimeInv
  BY <1>1, <1>2, <1>4 DEF TimeInv, Started
<1>8. FifoInv
  BY <1>1, <1>2, <1>4 DEF FifoInv, InOrder, InLine, FifoOrder, Started, QueuedBefore
<1>9. PosterInv
  BY <1>1, <1>2, <1>3 DEF PosterInv, DirectPost
<1>10. PhaseInv /\ RoundInv
  BY <1>1, <1>2 DEF PhaseInv, RoundInv
<1>11. AllowInv /\ WakeInv
  BY <1>1, <1>4 DEF AllowInv, WakeInv
<1> QED
  BY <1>5, <1>6, <1>7, <1>8, <1>9, <1>10, <1>11, InitTypeOK DEF LoopInv

(* The invariant holds in every state the loop can reach.                 *)
LEMMA LoopInvariance == Spec => []LoopInv
<1>1. ASSUME LoopInv, [Next]_vars
      PROVE  LoopInv'
  <2>1. TypeOK' /\ FrameInv' /\ AllowInv'
    BY <1>1, TypeOKInductive, FrameInvInductive, AllowInvInductive DEF LoopInv
  <2>2. QueueInv' /\ TimeInv'
    BY <1>1, QueueInvInductive, TimeInvInductive DEF LoopInv
  <2>3. FifoInv' /\ PosterInv' /\ PhaseInv' /\ RoundInv'
    BY <1>1, FifoInvInductive, PosterInvInductive, PhaseInvInductive, RoundInvInductive DEF LoopInv
  <2>4. WakeInv'
    BY <1>1, <2>1, WakeInvInductive DEF LoopInv
  <2> QED
    BY <2>1, <2>2, <2>3, <2>4 DEF LoopInv
<1> QED
  BY <1>1, InitLoopInv, PTL DEF Spec

(* Every variable of the loop, the pump and the posters keeps its type.    *)
THEOREM LoopTypeCorrect == Spec => []TypeOK
<1>1. LoopInv => TypeOK
  BY DEF LoopInv
<1> QED
  BY <1>1, LoopInvariance, PTL

(* A task is at one place of a queue that holds it, and at no place of a   *)
(* queue that does not.                                                    *)
LEMMA PlacesInQueue ==
    ASSUME NEW s \in Seq(Tasks), IsInjective(s), NEW t, NEW name
    PROVE  /\ t \in ToSet(s) => \E x : {<<name, i>> : i \in {j \in DOMAIN s : s[j] = t}} = {x}
           /\ t \notin ToSet(s) => {<<name, i>> : i \in {j \in DOMAIN s : s[j] = t}} = {}
<1>1. ASSUME t \in ToSet(s)
      PROVE  \E x : {<<name, i>> : i \in {j \in DOMAIN s : s[j] = t}} = {x}
  <2>1. PICK k \in DOMAIN s : s[k] = t
    BY <1>1 DEF ToSet
  <2>2. {j \in DOMAIN s : s[j] = t} = {k}
    BY <2>1 DEF IsInjective
  <2>3. {<<name, i>> : i \in {j \in DOMAIN s : s[j] = t}} = {<<name, k>>}
    BY <2>2
  <2> QED
    BY <2>3
<1>2. t \notin ToSet(s) => {j \in DOMAIN s : s[j] = t} = {}
  BY DEF ToSet
<1> QED
  BY <1>1, <1>2

(* A task that was queued is in exactly one of the four queues, once, and  *)
(* a task that runs is in exactly one Run, whatever the threads that post, *)
(* DoWork, DoDelayedWork, DoIdleWork and the destructor do with them.      *)
THEOREM TaskConservationCorrect == Spec => []TaskConservation
<1>1. LoopInv => TaskConservation
  <2> SUFFICES ASSUME LoopInv, NEW t \in Tasks
               PROVE  /\ Cardinality(Places(t)) = IF status[t] = "queued" THEN 1 ELSE 0
                      /\ Cardinality(RunsOf(t)) = IF status[t] = "running" THEN 1 ELSE 0
    BY DEF TaskConservation
  <2> DEFINE In(s, name) == {<<name, i>> : i \in {j \in DOMAIN s : s[j] = t}}
             InDelayed == IF t \in delayed THEN {<<"delayed", 0>>} ELSE {}
  <2>1. /\ incoming \in Seq(Tasks) /\ work \in Seq(Tasks) /\ deferred \in Seq(Tasks)
        /\ IsInjective(incoming) /\ IsInjective(work) /\ IsInjective(deferred)
    BY DEF LoopInv, TypeOK, QueueInv
  <2>2. /\ t \in ToSet(incoming) => \E x : In(incoming, "incoming") = {x}
        /\ t \notin ToSet(incoming) => In(incoming, "incoming") = {}
    BY <2>1, PlacesInQueue
  <2>3. /\ t \in ToSet(work) => \E x : In(work, "work") = {x}
        /\ t \notin ToSet(work) => In(work, "work") = {}
    BY <2>1, PlacesInQueue
  <2>4. /\ t \in ToSet(deferred) => \E x : In(deferred, "deferred") = {x}
        /\ t \notin ToSet(deferred) => In(deferred, "deferred") = {}
    BY <2>1, PlacesInQueue
  <2>5. /\ t \in delayed => \E x : InDelayed = {x}
        /\ t \notin delayed => InDelayed = {}
    OBVIOUS
  <2>6. Places(t) = In(incoming, "incoming") \cup In(work, "work")
                      \cup In(deferred, "deferred") \cup InDelayed
    BY DEF Places
  <2>7. /\ ~(t \in ToSet(incoming) /\ t \in ToSet(work))
        /\ ~((t \in ToSet(incoming) \/ t \in ToSet(work)) /\ t \in ToSet(deferred))
        /\ ~((t \in ToSet(incoming) \/ t \in ToSet(work) \/ t \in ToSet(deferred)) /\ t \in delayed)
        /\ (t \in ToSet(incoming) \/ t \in ToSet(work) \/ t \in ToSet(deferred) \/ t \in delayed)
             <=> status[t] = "queued"
    BY DEF LoopInv, QueueInv, InLine, Queued
  <2> HIDE DEF In, InDelayed
  <2>8. /\ status[t] = "queued" => \E x : Places(t) = {x}
        /\ status[t] # "queued" => Places(t) = {}
    BY <2>2, <2>3, <2>4, <2>5, <2>6, <2>7
  <2>9. /\ status[t] = "running" => \E x : RunsOf(t) = {x}
        /\ status[t] # "running" => RunsOf(t) = {}
    <3>1. /\ status[t] = "running" <=> \E i \in DOMAIN frames : frames[i].task = t
          /\ \A i, j \in DOMAIN frames : (frames[i].task = t /\ frames[j].task = t) => i = j
      BY LoopAssumption DEF LoopInv, FrameInv
    <3>2. ASSUME status[t] = "running"
          PROVE  \E x : RunsOf(t) = {x}
      <4>1. PICK k \in DOMAIN frames : frames[k].task = t
        BY <3>1, <3>2
      <4>2. \A i : i \in RunsOf(t) <=> i = k
        BY <3>1, <4>1 DEF RunsOf
      <4>3. RunsOf(t) = {k}
        BY <4>2
      <4> QED
        BY <4>3
    <3>3. ASSUME status[t] # "running"
          PROVE  RunsOf(t) = {}
      BY <3>1, <3>3 DEF RunsOf
    <3> QED
      BY <3>2, <3>3
  <2>10. Cardinality({}) = 0 /\ \A x : Cardinality({x}) = 1
    BY FS_EmptySet, FS_Singleton
  <2> QED
    BY <2>8, <2>9, <2>10
<1> QED
  BY <1>1, LoopInvariance, PTL

(* A NonNestable task never runs in a nested Run: not from the work queue, *)
(* not from the delayed one, nor from the deferred one in DoIdleWork.      *)
THEOREM NonNestableNeverNestedCorrect == Spec => []NonNestableNeverNested
<1>1. LoopInv => NonNestableNeverNested
  BY LoopAssumption DEF LoopInv, FrameInv, NonNestableNeverNested
<1> QED
  BY <1>1, LoopInvariance, PTL

(* Tasks posted without delay start in the order they were queued, past    *)
(* the swap in ReloadWorkQueue, nested Runs and the deferral of others.    *)
THEOREM FifoOrderCorrect == Spec => []FifoOrder
<1>1. LoopInv => FifoOrder
  BY DEF LoopInv, FifoInv
<1> QED
  BY <1>1, LoopInvariance, PTL

(* DoDelayedWork never runs a task early, although it asks the clock only  *)
(* when recent_time_ does not suffice.                                     *)
THEOREM NeverEarlyCorrect == Spec => []NeverEarly
<1>1. LoopInv => NeverEarly
  BY DEF LoopInv, TimeInv, NeverEarly
<1> QED
  BY <1>1, LoopInvariance, PTL

(* No wake-up is lost: AddToIncomingQueue calls ScheduleWork only when it  *)
(* found the queue empty, and yet Run sleeps on an event that is reset     *)
(* only if nothing was queued or a poster is about to signal; the sleep    *)
(* ends when the earliest delayed task is due.                             *)
THEOREM NoLostWakeupCorrect == Spec => []NoLostWakeup
<1>1. LoopInv => NoLostWakeup
  <2> SUFFICES ASSUME LoopInv, Asleep, nestableAllowed
               PROVE  /\ work = <<>>
                      /\ incoming # <<>> => \E p \in Posters : posterPc[p] = "signal"
                      /\ delayed # {} => /\ delayedWorkTime # Null
                                         /\ delayedWorkTime <= runTime[Earliest]
                      /\ Depth = 1 => deferred = <<>>
    BY DEF NoLostWakeup
  <2>1. frames # <<>> /\ Top.pc = "Wait" /\ ~event
    BY DEF Asleep, At
  <2>2. /\ incoming # <<>> => \E p \in Posters : posterPc[p] = "signal"
        /\ work = <<>>
        /\ \A t \in delayed : delayedWorkTime # Null /\ delayedWorkTime <= runTime[t]
        /\ Depth = 1 => deferred = <<>>
    BY <2>1 DEF LoopInv, WakeInv, At
  <2>3. delayed # {} => Earliest \in delayed
    BY EarliestIsFirst DEF LoopInv, TypeOK, Earliest
  <2> QED
    BY <2>2, <2>3
<1> QED
  BY <1>1, LoopInvariance, PTL

(* Once the loop is destroyed no thread is about to queue a task, the      *)
(* destructor has left no task it accepted without deleting or running it, *)
(* and a thread that still has to wake the pump finds the pump alive,      *)
(* because PosterInv has it hold a reference.                              *)
THEOREM NoUseAfterDestructionCorrect == Spec => []NoUseAfterDestruction
<1>1. ASSUME LoopInv
      PROVE  \A p \in Posters : posterPc[p] = "signal" => PumpExists
  BY <1>1 DEF LoopInv, PosterInv, PumpExists
<1>2. ASSUME LoopInv, phase = "dead"
      PROVE  /\ proxyLock = NoPoster
             /\ \A p \in Posters : posterPc[p] # "push"
             /\ \A t \in Tasks : status[t] \in {"new", "refused", "ran", "deleted"}
  <2>1. /\ proxyLock = NoPoster /\ \A p \in Posters : posterPc[p] # "push"
        /\ incoming = <<>> /\ work = <<>> /\ deferred = <<>> /\ delayed = {} /\ frames = <<>>
    BY <1>2 DEF LoopInv, PhaseInv, FrameInv
  <2>2. \A t \in Tasks : status[t] # "posting"
    BY <1>2, <2>1 DEF LoopInv, PosterInv
  <2>3. \A t \in Tasks : status[t] # "queued"
    BY <1>2, <2>1, EmptyQueue DEF LoopInv, QueueInv, InLine, Queued
  <2>4. \A t \in Tasks : status[t] # "running"
    BY <1>2, <2>1 DEF LoopInv, FrameInv
  <2>5. \A t \in Tasks : status[t] \in Statuses
    BY <1>2 DEF LoopInv, TypeOK
  <2> QED
    BY <2>1, <2>2, <2>3, <2>4, <2>5 DEF Statuses
<1>3. LoopInv => NoUseAfterDestruction
  BY <1>1, <1>2 DEF NoUseAfterDestruction
<1> QED
  BY <1>3, LoopInvariance, PTL

(* The destructor comes to the limit of its loop only through tasks queued *)
(* while it runs, one for each round after the first, whatever the limit.  *)
THEOREM RoundsArePaidForCorrect == Spec => []RoundsArePaidFor
<1>1. LoopInv => RoundsArePaidFor
  BY DEF LoopInv, RoundInv, RoundsArePaidFor, PostedSince
<1> QED
  BY <1>1, LoopInvariance, PTL

(* Run() that was told to quit, and RunAllPending(), return from           *)
(* DoIdleWork only with the work queue empty and, outermost, without       *)
(* deferred tasks.                                                         *)
THEOREM QuitDrainsCorrect == Spec => QuitDrains
<1> DEFINE Drained == (At("DoIdleWork") /\ nestableAllowed /\ Len(frames') < Len(frames))
                        => work = <<>> /\ (Depth = 1 => deferred = <<>>)
<1>1. ASSUME LoopInv, [Next]_vars
      PROVE  Drained
  <2> SUFFICES ASSUME frames # <<>>, Top.pc = "DoIdleWork", nestableAllowed, Len(frames') < Len(frames)
               PROVE  work = <<>> /\ (Depth = 1 => deferred = <<>>)
    BY DEF At
  <2>1. work = <<>>
    BY <1>1 DEF LoopInv, WakeInv, At
  <2>2. frames \in Seq(Frames) /\ frames # <<>> /\ Len(frames) \in Nat
    BY <1>1 DEF LoopInv, TypeOK
  <2>3. frames' # frames
    BY <2>2
  <2>4. ~DoIdleWorkTakesTask
    <3> SUFFICES ASSUME DoIdleWorkTakesTask
                 PROVE  Len(frames') = Len(frames)
      BY <2>2
    <3> QED
      BY DEF DoIdleWorkTakesTask, RunTask, SetTop
  <2>5. DoIdleWorkFindsNothing
    <3> USE DEF loopVars, queueVars
    <3>1. /\ ~(OwnThreadPost \/ QuitNow \/ TimePasses \/ BeginDestruction \/ ReloadWorkQueue)
          /\ ~(DeletePendingTasks \/ WillDestroyCurrentMessageLoop \/ UNCHANGED vars)
          /\ \A p \in Posters : ~PosterStep(p)
      BY <2>3 DEF OwnThreadPost, QuitNow, TimePasses, BeginDestruction, ReloadWorkQueue,
           DeletePendingTasks, WillDestroyCurrentMessageLoop, EndDestruction, vars, PosterStep,
           PostRefused, PostBegins, PostPushes, PostSignals
    <3>2. /\ ~(DoWorkFindsNothing \/ DoWorkTakesTask \/ PrepareToSleep \/ WakeUp)
          /\ ~(DoDelayedWorkFindsNothing \/ DoDelayedWorkNotDue \/ DoDelayedWorkTakesTask)
          /\ ~(Run \/ RunNested \/ Quit \/ FinishTask)
      BY <2>2 DEF DoWorkFindsNothing, DoWorkTakesTask, PrepareToSleep, WakeUp,
           DoDelayedWorkFindsNothing, DoDelayedWorkNotDue, DoDelayedWorkTakesTask,
           Run, RunNested, Quit, FinishTask, At, InTask, Outside
    <3> QED
      BY <1>1, <2>4, <3>1, <3>2 DEF Next, LoopStep, PumpStep, ProgramStep, DestructorStep
  <2>6. Depth = 1 => deferred = <<>>
    BY <2>5 DEF DoIdleWorkFindsNothing, HasDeferredTask
  <2> QED
    BY <2>1, <2>6
<1>2. LoopInv /\ [Next]_vars => [Drained]_vars
  BY <1>1
<1> QED
  BY <1>2, LoopInvariance, PTL DEF Spec, QuitDrains
-----------------------------------------------------------------------------
(* The order of the delayed tasks.  A delayed task gets its number when it *)
(* leaves the line; its age is how many numbers were given since.  Numbers *)
(* of an int compare as the ages do as long as fewer tasks than half the   *)
(* ints are ever given one, which the theorem on DelayedOrder assumes.     *)
DelayedTasks == {t \in Tasks : Delay[t] > 0}
FewDelayedTasks == IsFiniteSet(DelayedTasks) /\ 2 * Cardinality(DelayedTasks) <= SeqModulus

Numbered == {t \in DelayedTasks : t \in ToSet(posted) /\ t \notin InLine}
Age(t) == IF seqNum[t] <= nextSeqNum THEN nextSeqNum - seqNum[t]
          ELSE nextSeqNum - seqNum[t] + SeqModulus

(* While the loop is alive, a task that waits is younger than those queued *)
(* before it, and no older than the number of tasks that were numbered.    *)
NumberInv ==
    phase = "alive" =>
       /\ \A t \in delayed : Age(t) \in 1 .. Cardinality(Numbered)
       /\ \A a, b \in delayed : QueuedBefore(a, b) => Age(b) < Age(a)

(* A delayed task was taken out of the delayed queue before any that it    *)
(* may not be overtaken by, whether that one started or was deferred.      *)
Served(t) == Started(t) \/ t \in ToSet(deferred)

ServedInOrder ==
    \A a, b \in Tasks :
        ( /\ QueuedBefore(a, b) /\ Delay[a] > 0 /\ Delay[b] > 0
          /\ runTime[a] <= runTime[b] /\ Nestable[a] /\ Served(b) ) => Started(a)

DelayInv == NumberInv /\ ServedInOrder

(* NextSeqNum() and the comparison of two numbers, without the modulus.    *)
LEMMA SeqNumbersWrap ==
    ASSUME NEW m \in SeqNumbers, NEW n \in SeqNumbers
    PROVE  /\ NextSeqNum(n) = IF n + 1 = SeqModulus THEN 0 ELSE n + 1
           /\ LaterSeqNum(m, n) <=> LET d == IF n <= m THEN m - n ELSE m - n + SeqModulus
                                    IN  0 < d /\ 2 * d < SeqModulus
<1>1. SeqModulus \in Nat \ {0} /\ m \in 0 .. SeqModulus - 1 /\ n \in 0 .. SeqModulus - 1
  BY SeqModulusAssumption DEF SeqNumbers
<1>2. \A M \in Nat \ {0} : \A k \in 0 .. M - 1 : k % M = k
  OBVIOUS
<1>3. \A M \in Nat \ {0} : M % M = 0
  OBVIOUS
<1>4. \A M \in Nat \ {0} : \A k \in 1 .. M - 1 : (-k) % M = M - k
  OBVIOUS
<1>5. NextSeqNum(n) = IF n + 1 = SeqModulus THEN 0 ELSE n + 1
  <2>1. CASE n + 1 = SeqModulus
    BY <1>1, <1>3, <2>1 DEF NextSeqNum
  <2>2. CASE n + 1 # SeqModulus
    <3>1. n + 1 \in 0 .. SeqModulus - 1
      BY <1>1, <2>2
    <3> QED
      BY <1>1, <1>2, <2>2, <3>1 DEF NextSeqNum
  <2> QED
    BY <2>1, <2>2
<1> DEFINE d == IF n <= m THEN m - n ELSE m - n + SeqModulus
<1>6. (m - n) % SeqModulus = d
  <2>1. CASE n <= m
    <3>1. m - n \in 0 .. SeqModulus - 1
      BY <1>1, <2>1
    <3> QED
      BY <1>1, <1>2, <2>1, <3>1
  <2>2. CASE ~(n <= m)
    <3>1. n - m \in 1 .. SeqModulus - 1 /\ m - n = -(n - m) /\ SeqModulus - (n - m) = d
      BY <1>1, <2>2
    <3> HIDE DEF d
    <3>2. (-(n - m)) % SeqModulus = SeqModulus - (n - m)
      BY <1>1, <1>4, <3>1
    <3> QED
      BY <3>1, <3>2
  <2> QED
    BY <2>1, <2>2
<1> QED
  BY <1>5, <1>6 DEF LaterSeqNum

(* Of two waiting tasks the one queued first has the earlier number.       *)
LEMMA OlderLeads ==
    ASSUME FewDelayedTasks, TypeOK, NEW a \in Tasks, NEW b \in Tasks,
           Age(a) \in 1 .. Cardinality(DelayedTasks), Age(b) \in 1 .. Cardinality(DelayedTasks),
           Age(b) < Age(a)
    PROVE  LaterSeqNum(seqNum[b], seqNum[a]) /\ ~LaterSeqNum(seqNum[a], seqNum[b])
<1> DEFINE m == seqNum[a]
           n == seqNum[b]
           k == nextSeqNum
           M == SeqModulus
           C == Cardinality(DelayedTasks)
<1>1. /\ m \in SeqNumbers /\ n \in SeqNumbers /\ k \in SeqNumbers
      /\ M \in Nat \ {0} /\ C \in Nat /\ 2 * C <= M
  BY SeqModulusAssumption, FS_CardinalityType DEF TypeOK, FewDelayedTasks
<1>2. /\ Age(a) = IF m <= k THEN k - m ELSE k - m + M
      /\ Age(b) = IF n <= k THEN k - n ELSE k - n + M
  BY DEF Age
<1>3. /\ LaterSeqNum(n, m) <=> LET d == IF m <= n THEN n - m ELSE n - m + M
                               IN  0 < d /\ 2 * d < M
      /\ LaterSeqNum(m, n) <=> LET d == IF n <= m THEN m - n ELSE m - n + M
                               IN  0 < d /\ 2 * d < M
  BY <1>1, SeqNumbersWrap
<1>4. m \in 0 .. M - 1 /\ n \in 0 .. M - 1 /\ k \in 0 .. M - 1
  BY <1>1 DEF SeqNumbers
<1> HIDE DEF m, n, k, M, C
<1>5. /\ Age(a) \in 1 .. C /\ Age(b) \in 1 .. C
  BY DEF C
<1>6. LaterSeqNum(n, m) /\ ~LaterSeqNum(m, n)
  BY <1>1, <1>2, <1>3, <1>4, <1>5
<1> QED
  BY <1>6 DEF m, n

(* Those numbered are delayed tasks, and so is every task that waits.      *)
LEMMA NumberedAreFew ==
    ASSUME FewDelayedTasks
    PROVE  /\ IsFiniteSet(Numbered) /\ Numbered \subseteq DelayedTasks
           /\ Cardinality(Numbered) \in Nat /\ Cardinality(DelayedTasks) \in Nat
           /\ Cardinality(Numbered) <= Cardinality(DelayedTasks)
<1>1. Numbered \subseteq DelayedTasks
  BY DEF Numbered
<1> QED
  BY <1>1, FS_Subset, FS_CardinalityType DEF FewDelayedTasks

LEMMA WaitingWereQueued ==
    ASSUME TypeOK, QueueInv, FifoInv
    PROVE  \A t \in delayed : t \in Tasks /\ t \in ToSet(posted) /\ t \notin InLine /\ Delay[t] > 0
<1>1. \A t \in delayed : t \in Tasks /\ status[t] = "queued" /\ t \notin InLine /\ Delay[t] > 0
  BY DEF QueueInv, Queued
<1> QED
  BY <1>1 DEF FifoInv

(* The top of the delayed work queue: no task that was queued before it    *)
(* waits for the same time or an earlier one.                              *)
LEMMA NotOvertaken ==
    ASSUME FewDelayedTasks, TypeOK, QueueInv, FifoInv, NumberInv, phase = "alive",
           NEW a \in delayed, QueuedBefore(a, Earliest)
    PROVE  runTime[Earliest] < runTime[a]
<1> DEFINE first == {t \in delayed : \A u \in delayed : runTime[t] <= runTime[u]}
           Leads(t) == \A u \in delayed \ {t} :
                         RunsBefore(runTime[t], seqNum[t], runTime[u], seqNum[u])
           C == Cardinality(DelayedTasks)
<1>1. /\ \A t \in delayed : t \in Tasks /\ t \in ToSet(posted)
      /\ \A t \in delayed : runTime[t] \in Nat
      /\ \A t \in delayed : Age(t) \in 1 .. C
      /\ C \in Nat
  <2>1. \A t \in delayed : Age(t) \in 1 .. Cardinality(Numbered)
    BY DEF NumberInv
  <2>2. \A t \in delayed : t \in Tasks /\ t \in ToSet(posted)
    BY WaitingWereQueued
  <2>3. \A t \in Tasks : runTime[t] \in Nat
    BY MaxTimeAssumption DEF TypeOK, Times
  <2> HIDE DEF C
  <2>4. C \in Nat /\ Cardinality(Numbered) \in Nat /\ Cardinality(Numbered) <= C
    BY NumberedAreFew DEF C
  <2> QED
    BY <2>1, <2>2, <2>3, <2>4
<1>2. Earliest \in delayed /\ \A u \in delayed : runTime[Earliest] <= runTime[u]
  BY EarliestIsFirst DEF Earliest, TypeOK
<1>3. Earliest = CHOOSE t \in first : (\E u \in first : Leads(u)) => Leads(t)
  BY DEF Earliest, EarliestOf
<1>4. ASSUME NEW t \in delayed, NEW u \in delayed, Age(u) < Age(t)
      PROVE  LaterSeqNum(seqNum[u], seqNum[t]) /\ ~LaterSeqNum(seqNum[t], seqNum[u])
  BY <1>1, <1>4, OlderLeads
<1>5. ASSUME NEW t \in delayed, NEW u \in delayed, u # t
      PROVE  Age(t) # Age(u)
  <2>1. \A v \in delayed : v \in ToSet(posted)
    BY <1>1
  <2>2. QueuedBefore(t, u) \/ QueuedBefore(u, t)
    <3>1. PICK i \in DOMAIN posted, j \in DOMAIN posted : posted[i] = t /\ posted[j] = u
      BY <2>1 DEF ToSet
    <3>2. i \in Nat /\ j \in Nat /\ i # j
      BY <1>5, <3>1 DEF TypeOK
    <3> QED
      BY <3>1, <3>2 DEF QueuedBefore
  <2>3. Age(t) < Age(u) \/ Age(u) < Age(t)
    BY <2>2 DEF NumberInv
  <2>4. Age(t) \in Int /\ Age(u) \in Int
    BY <1>1
  <2> QED
    BY <2>3, <2>4
<1>6. PICK o \in first : \A u \in first : Age(u) <= Age(o)
  <2> DEFINE T == {C - Age(t) : t \in first}
  <2>1. T \in SUBSET Nat /\ T # {}
    BY <1>1, <1>2
  <2> HIDE DEF T
  <2>2. PICK n \in T : \A m \in T : n <= m
    BY <2>1, LeastOf
  <2>3. PICK o \in first : n = C - Age(o)
    BY DEF T
  <2>4. \A u \in first : C - Age(o) <= C - Age(u)
    BY <2>2, <2>3 DEF T
  <2>5. \A u \in first : Age(u) \in Int /\ Age(o) \in Int /\ C \in Int
    BY <1>1
  <2> HIDE DEF first, C
  <2> QED
    BY <2>4, <2>5
<1>7. Leads(o)
  <2> SUFFICES ASSUME NEW u \in delayed \ {o}
               PROVE  RunsBefore(runTime[o], seqNum[o], runTime[u], seqNum[u])
    OBVIOUS
  <2>1. runTime[o] \in Nat /\ runTime[u] \in Nat /\ runTime[o] <= runTime[u] /\ o \in delayed
    BY <1>1
  <2>2. CASE runTime[o] = runTime[u]
    <3>1. u \in first
      BY <2>2
    <3>2. Age(u) < Age(o)
      <4>1. Age(u) <= Age(o) /\ Age(u) # Age(o) /\ Age(u) \in Int /\ Age(o) \in Int
        BY <1>1, <1>5, <1>6, <2>1, <3>1
      <4> QED
        BY <4>1
    <3> QED
      BY <1>4, <2>1, <2>2, <3>2 DEF RunsBefore
  <2>3. CASE runTime[o] # runTime[u]
    BY <2>1, <2>3 DEF RunsBefore
  <2> QED
    BY <2>2, <2>3
<1>8. Leads(Earliest)
  <2> HIDE DEF first, Leads
  <2> QED
    BY <1>3, <1>6, <1>7
<1>9. Age(Earliest) < Age(a) /\ a # Earliest
  BY <1>2, QueuedOnce DEF NumberInv, FifoInv, TypeOK
<1>10. RunsBefore(runTime[Earliest], seqNum[Earliest], runTime[a], seqNum[a])
  BY <1>8, <1>9
<1>11. ~LaterSeqNum(seqNum[a], seqNum[Earliest])
  BY <1>2, <1>4, <1>9
<1> QED
  BY <1>10, <1>11 DEF RunsBefore

(* A delayed task leaves the line and is numbered ...                      *)
LEMMA TaskNumbered ==
    ASSUME TypeOK, TimeInv, QueueInv, DoWorkTakesTask, ~Immediate(Head(Reloaded.work))
    PROVE  LET t == Head(Reloaded.work)
           IN  /\ t \in InLine /\ InLine' = InLine \ {t} /\ Delay[t] > 0 /\ status[t] = "queued"
               /\ seqNum' = [seqNum EXCEPT ![t] = nextSeqNum]
               /\ nextSeqNum' = NextSeqNum(nextSeqNum)
               /\ delayed' = delayed \cup {t}
<1> DEFINE t == Head(Reloaded.work)
<1>1. /\ Reloaded.work # <<>> /\ t \in Tasks
      /\ incoming' = Reloaded.incoming /\ work' = Tail(Reloaded.work)
  BY WorkTaken
<1>2. /\ seqNum' = [seqNum EXCEPT ![t] = nextSeqNum]
      /\ nextSeqNum' = NextSeqNum(nextSeqNum)
      /\ delayed' = delayed \cup {t}
  BY DEF DoWorkTakesTask, AddToDelayedWorkQueue
<1>3. t \in InLine /\ InLine' = InLine \ {t}
  BY <1>1, HeadTaken DEF TypeOK, QueueInv, InLine
<1>4. status[t] = "queued"
  BY <1>3 DEF QueueInv, Queued
<1>5. Delay[t] > 0
  <2>1. Delay[t] # 0 /\ Delay[t] \in Nat
    BY <1>1, <1>4, LoopAssumption DEF TimeInv, Immediate
  <2> HIDE DEF t
  <2> QED
    BY <2>1
<1> QED
  BY <1>2, <1>3, <1>4, <1>5

(* ... and waits until it is the earliest and due.                         *)
LEMMA EarliestTaken ==
    ASSUME TypeOK, DoDelayedWorkTakesTask
    PROVE  /\ frames # <<>> /\ Earliest \in delayed /\ delayed' = delayed \ {Earliest}
           /\ UNCHANGED <<incoming, work, posted, runTime, numberVars, phase>>
           /\ \/ StartsTask(Earliest) /\ UNCHANGED deferred
              \/ deferred' = Append(deferred, Earliest) /\ UNCHANGED status
<1>1. /\ frames # <<>> /\ delayed' = delayed \ {Earliest}
      /\ UNCHANGED <<incoming, work, posted, runTime, numberVars, phase>>
      /\ DeferOrRunPendingTask("DoDelayedWork", Earliest)
  BY DEF DoDelayedWorkTakesTask, At
<1>2. Earliest \in delayed
  BY EarliestIsFirst DEF DoDelayedWorkTakesTask, Earliest, TypeOK
<1>3. Earliest \in Tasks /\ "DoDelayedWork" \in Stages
  BY <1>2 DEF TypeOK, Stages
<1>4. CASE MayRun(Earliest) /\ RunTask("DoDelayedWork", Earliest) /\ UNCHANGED deferred
  BY <1>1, <1>2, <1>3, <1>4, TaskStarted
<1>5. CASE deferred' = Append(deferred, Earliest) /\ UNCHANGED status
  BY <1>1, <1>2, <1>5
<1> QED
  BY <1>1, <1>4, <1>5 DEF DeferOrRunPendingTask

(* What a step may do to the delayed tasks: only DoWork numbers one, only  *)
(* DoDelayedWork serves one, and what was queued keeps its run time.       *)
DelayStep ==
    /\ UNCHANGED posted \/ \E t \in Tasks : t \notin ToSet(posted) /\ posted' = Append(posted, t)
    /\ \A u \in ToSet(posted) : runTime'[u] = runTime[u] /\ (u \in InLine' => u \in InLine)
    /\ phase' = "alive" => phase = "alive"
    /\ \A u \in Tasks : Started(u) => Started(u)'
    /\ \A u \in Tasks : (Delay[u] > 0 /\ Served(u)') =>
         Served(u) \/ (DoDelayedWorkTakesTask /\ u = Earliest)
    /\ \/ UNCHANGED numberVars /\ delayed' \subseteq delayed
       \/ DoWorkTakesTask /\ ~Immediate(Head(Reloaded.work))

(* A step that queues no task and serves none.                             *)
LEMMA NoneServed ==
    ASSUME TypeOK, UNCHANGED <<posted, numberVars>>, InLine' \subseteq InLine,
           delayed' \subseteq delayed, ToSet(deferred') \subseteq ToSet(deferred),
           \A u \in ToSet(posted) : runTime'[u] = runTime[u],
           phase' = "alive" => phase = "alive",
           \A u \in Tasks : Started(u)' <=> Started(u)
    PROVE  DelayStep
<1>1. \A u \in Tasks : Served(u)' => Served(u)
  BY DEF Served
<1> QED
  BY <1>1 DEF DelayStep

(* A step that queues one.                                                 *)
LEMMA QueuedTaskWaits ==
    ASSUME TypeOK, FifoInv, NEW t \in Tasks, status[t] \in {"new", "posting"},
           posted' = Append(posted, t), incoming' = Append(incoming, t),
           UNCHANGED numberVars, work' = work \/ work' = <<>>,
           delayed' \subseteq delayed, ToSet(deferred') \subseteq ToSet(deferred),
           \A u \in Tasks : u # t => runTime'[u] = runTime[u],
           phase' = "alive" => phase = "alive",
           \A u \in Tasks : Started(u)' <=> Started(u)
    PROVE  DelayStep
<1>1. t \notin ToSet(posted) /\ ToSet(posted) \subseteq Tasks
  BY DEF FifoInv
<1>2. ToSet(incoming') = ToSet(incoming) \cup {t}
  BY PushedOnto DEF TypeOK
<1>3. \A u \in InLine' : u \in InLine \/ u = t
  BY <1>2, EmptyQueue DEF InLine
<1>4. \A u \in Tasks : Served(u)' => Served(u)
  BY DEF Served
<1> QED
  BY <1>1, <1>3, <1>4 DEF DelayStep

LEMMA EveryDelayStep ==
    ASSUME TypeOK, FrameInv, QueueInv, TimeInv, FifoInv, PosterInv, PhaseInv, [Next]_vars
    PROVE  DelayStep
<1> USE DEF queueVars, loopVars
<1>0. /\ frames # <<>> => phase = "alive"
      /\ \A u \in Queued : u \in Tasks /\ status[u] = "queued"
      /\ \A u \in ToSet(posted) : u \in Tasks /\ status[u] \notin {"new", "posting", "refused"}
      /\ work \in Seq(Tasks) /\ incoming \in Seq(Tasks) /\ deferred \in Seq(Tasks)
  BY DEF FrameInv, QueueInv, TypeOK, FifoInv
<1>1. ASSUME UNCHANGED <<posted, numberVars, work, incoming, deferred, delayed>>,
             \A u \in ToSet(posted) : runTime'[u] = runTime[u],
             phase' = "alive" => phase = "alive",
             \A u \in Tasks : \/ status'[u] = status[u]
                              \/ status[u] = "running" /\ status'[u] = "ran"
                              \/ status[u] = "new" /\ status'[u] \in {"refused", "posting"}
      PROVE  DelayStep
  <2>1. \A u \in Tasks : Started(u)' <=> Started(u)
    BY <1>1 DEF Started
  <2>2. UNCHANGED <<InLine, delayed>> /\ ToSet(deferred') = ToSet(deferred)
    BY <1>1 DEF InLine
  <2> QED
    BY <1>1, <2>1, <2>2, NoneServed
<1>2. CASE OwnThreadPost
  <2>1. PICK t \in Tasks :
          /\ status[t] = "new" /\ incoming' = Append(incoming, t) /\ posted' = Append(posted, t)
          /\ runTime' = [runTime EXCEPT ![t] = CalculateDelayedRuntime(t)]
          /\ \A u \in Tasks : status'[u] = IF u = t THEN "queued" ELSE status[u]
    BY <1>2, TaskPosted
  <2>2. UNCHANGED <<work, deferred, delayed, numberVars, phase>>
    BY <1>2, TaskPosted
  <2>3. \A u \in Tasks : Started(u)' <=> Started(u)
    BY <2>1 DEF Started
  <2>4. \A u \in Tasks : u # t => runTime'[u] = runTime[u]
    BY <2>1 DEF TypeOK
  <2> QED
    BY <2>1, <2>2, <2>3, <2>4, QueuedTaskWaits
<1>3. CASE \/ DoWorkFindsNothing \/ DoDelayedWorkFindsNothing \/ DoDelayedWorkNotDue
           \/ DoIdleWorkFindsNothing \/ PrepareToSleep \/ WakeUp \/ Quit \/ Run \/ RunNested
           \/ QuitNow \/ TimePasses \/ BeginDestruction \/ UNCHANGED vars
           \/ (\E p \in Posters : PostSignals(p))
  <2>1. /\ UNCHANGED <<posted, numberVars, work, incoming, deferred, delayed, status, runTime>>
        /\ phase' = "alive" => phase = "alive"
    BY <1>3 DEF DoWorkFindsNothing, DoDelayedWorkFindsNothing, DoDelayedWorkNotDue,
         DoIdleWorkFindsNothing, PrepareToSleep, WakeUp, Quit, Run, RunNested, QuitNow,
         TimePasses, BeginDestruction, vars, PostSignals
  <2> QED
    BY <1>1, <2>1
<1>4. CASE DoWorkTakesTask
  <2> DEFINE t == Head(Reloaded.work)
  <2>1. /\ frames # <<>> /\ t \in Tasks /\ Reloaded.work # <<>>
        /\ UNCHANGED <<posted, runTime, phase>>
        /\ incoming' = Reloaded.incoming /\ work' = Tail(Reloaded.work)
    BY <1>4, WorkTaken
  <2>2. t \in InLine /\ InLine' = InLine \ {t}
    BY <1>0, <2>1, HeadTaken DEF QueueInv, InLine
  <2>3. status[t] = "queued"
    BY <1>0, <2>2 DEF Queued
  <2>4. CASE ~Immediate(t)
    <3>1. UNCHANGED <<status, deferred>>
      BY <1>4, <2>4, WorkTaken
    <3>2. \A u \in Tasks : (Started(u)' <=> Started(u)) /\ (Served(u)' <=> Served(u))
      BY <3>1 DEF Started, Served
    <3> QED
      BY <1>0, <1>4, <2>1, <2>2, <2>4, <3>2 DEF DelayStep
  <2>5. CASE Immediate(t)
    <3>1. Delay[t] = 0
      BY <2>1, <2>3, <2>5 DEF TimeInv, Immediate
    <3>2. UNCHANGED <<numberVars, delayed>>
      BY <1>4, <2>5 DEF DoWorkTakesTask
    <3>3. \/ StartsTask(t) /\ UNCHANGED deferred
          \/ deferred' = Append(deferred, t) /\ UNCHANGED status
      BY <1>4, <2>5, WorkTaken
    <3> HIDE DEF t
    <3>4. ToSet(deferred') \subseteq ToSet(deferred) \cup {t}
      <4>1. deferred' = deferred \/ deferred' = Append(deferred, t)
        BY <3>3
      <4>2. ToSet(Append(deferred, t)) = ToSet(deferred) \cup {t}
        BY <1>0, <2>1, PushedOnto
      <4> QED
        BY <4>1, <4>2
    <3>5. /\ \A u \in Tasks : Started(u) => Started(u)'
          /\ \A u \in Tasks : Started(u)' => Started(u) \/ u = t
      BY <2>3, <3>3 DEF StartsTask, Started
    <3>6. \A u \in Tasks : Delay[u] > 0 => u # t
      BY <3>1
    <3>7. \A u \in Tasks : (Delay[u] > 0 /\ Served(u)') => Served(u)
      BY <3>4, <3>5, <3>6 DEF Served
    <3> QED
      BY <1>0, <2>1, <2>2, <3>2, <3>5, <3>7 DEF DelayStep
  <2> QED
    BY <2>4, <2>5
<1>5. CASE DoDelayedWorkTakesTask
  <2> DEFINE t == Earliest
  <2>1. /\ frames # <<>> /\ t \in delayed /\ delayed' = delayed \ {t}
        /\ UNCHANGED <<incoming, work, posted, runTime, numberVars, phase>>
        /\ \/ StartsTask(t) /\ UNCHANGED deferred
           \/ deferred' = Append(deferred, t) /\ UNCHANGED status
    BY <1>5, EarliestTaken
  <2> HIDE DEF t
  <2>2. t \in Tasks /\ status[t] = "queued"
    BY <1>0, <2>1 DEF Queued
  <2>3. ToSet(deferred') \subseteq ToSet(deferred) \cup {t}
    <3>1. deferred' = deferred \/ deferred' = Append(deferred, t)
      BY <2>1
    <3>2. ToSet(Append(deferred, t)) = ToSet(deferred) \cup {t}
      BY <1>0, <2>2, PushedOnto
    <3> QED
      BY <3>1, <3>2
  <2>4. /\ \A u \in Tasks : Started(u) => Started(u)'
        /\ \A u \in Tasks : Started(u)' => Started(u) \/ u = t
    BY <2>1, <2>2 DEF StartsTask, Started
  <2>5. \A u \in Tasks : Served(u)' => Served(u) \/ u = t
    BY <2>3, <2>4 DEF Served
  <2>6. UNCHANGED InLine
    BY <2>1 DEF InLine
  <2> QED
    BY <1>5, <2>1, <2>4, <2>5, <2>6 DEF DelayStep, t
<1>6. CASE DoIdleWorkTakesTask
  <2> DEFINE t == Head(deferred)
  <2>1. /\ deferred # <<>> /\ t \in Tasks /\ StartsTask(t) /\ deferred' = Tail(deferred)
        /\ UNCHANGED <<posted, work, incoming, delayed, numberVars, runTime, phase>>
    BY <1>6, DeferredTaken
  <2>2. ToSet(deferred) = {t} \cup ToSet(deferred')
    BY <1>0, <2>1, TakenOff
  <2> HIDE DEF t
  <2>3. status[t] = "queued"
    BY <1>0, <2>2 DEF Queued
  <2>4. /\ \A u \in Tasks : Started(u) => Started(u)'
        /\ \A u \in Tasks : Started(u)' => Started(u) \/ u = t
    BY <2>1, <2>3 DEF StartsTask, Started
  <2>5. \A u \in Tasks : Served(u)' => Served(u)
    BY <2>2, <2>4 DEF Served
  <2>6. UNCHANGED InLine
    BY <2>1 DEF InLine
  <2> QED
    BY <2>1, <2>4, <2>5, <2>6 DEF DelayStep
<1>7. CASE FinishTask
  <2>1. /\ status[Top.task] = "running" /\ UNCHANGED <<queueVars, runTime, numberVars, phase, posted>>
        /\ \A u \in Tasks : status'[u] = IF u = Top.task THEN "ran" ELSE status[u]
    BY <1>7, TaskFinished
  <2> QED
    BY <1>1, <2>1
<1>8. CASE ReloadWorkQueue
  <2>1. /\ incoming' = Reloaded.incoming /\ work' = Reloaded.work
        /\ UNCHANGED <<posted, status, deferred, delayed, runTime, numberVars>>
        /\ phase = "reload" /\ phase' = "deleteAgain"
    BY <1>8 DEF ReloadWorkQueue
  <2>2. ToSet(incoming') \cup ToSet(work') = InLine
    BY <1>0, <2>1, ReloadKeepsQueues DEF QueueInv
  <2>3. InLine' \subseteq InLine
    BY <2>2 DEF InLine
  <2>4. \A u \in Tasks : Started(u)' <=> Started(u)
    BY <2>1 DEF Started
  <2> QED
    BY <2>1, <2>3, <2>4, NoneServed
<1>9. CASE DeletePendingTasks
  <2>1. /\ work' = <<>> /\ deferred' = <<>> /\ delayed' = {} /\ UNCHANGED numberVars
        /\ phase # "alive" /\ phase' # "alive"
    BY <1>9, PendingDeleted
  <2>2. \A u \in OwnedTasks : status[u] = "queued"
    BY <1>0 DEF OwnedTasks, Queued, InLine
  <2>3. ToSet(deferred') \subseteq ToSet(deferred)
    BY <2>1, EmptyQueue
  <2>4. ASSUME UNCHANGED <<incoming, posted, runTime>>,
               \A u \in Tasks : status'[u] = IF u \in OwnedTasks THEN "deleted" ELSE status[u]
        PROVE  DelayStep
    <3>1. InLine' \subseteq InLine
      BY <2>1, <2>4, EmptyQueue DEF InLine
    <3>2. \A u \in Tasks : Started(u)' <=> Started(u)
      BY <2>2, <2>4 DEF Started
    <3> QED
      BY <2>1, <2>3, <2>4, <3>1, <3>2, NoneServed
  <2>5. ASSUME NEW t \in Tasks, status[t] = "new",
               incoming' = Append(incoming, t), posted' = Append(posted, t),
               runTime' = [runTime EXCEPT ![t] = CalculateDelayedRuntime(t)],
               \A u \in Tasks : status'[u] = IF u \in OwnedTasks THEN "deleted"
                                             ELSE IF u = t THEN "queued" ELSE status[u]
        PROVE  DelayStep
    <3>1. \A u \in Tasks : Started(u)' <=> Started(u)
      BY <2>2, <2>5 DEF Started
    <3>2. \A u \in Tasks : u # t => runTime'[u] = runTime[u]
      BY <2>5 DEF TypeOK
    <3> QED
      BY <2>1, <2>3, <2>5, <3>1, <3>2, QueuedTaskWaits
  <2> QED
    BY <1>9, <2>4, <2>5, PendingDeleted
<1>10. CASE WillDestroyCurrentMessageLoop
  <2>1. /\ \A u \in Tasks : status'[u] = IF u \in ToSet(incoming) THEN "deleted" ELSE status[u]
        /\ incoming' = <<>> /\ phase' = "dead"
        /\ UNCHANGED <<work, posted, delayed, deferred, runTime, numberVars>>
    BY <1>10, LoopGone
  <2>2. InLine' \subseteq InLine
    BY <2>1, EmptyQueue DEF InLine
  <2>3. \A u \in Tasks : Started(u)' <=> Started(u)
    BY <1>0, <2>1 DEF Started, Queued, InLine
  <2> QED
    BY <2>1, <2>2, <2>3, NoneServed
<1>11. ASSUME NEW p \in Posters, PostRefused(p) \/ PostBegins(p)
       PROVE  DelayStep
  <2>1. UNCHANGED <<posted, numberVars, work, incoming, deferred, delayed, phase>>
    BY <1>11 DEF PostRefused, PostBegins
  <2>2. PICK t \in Tasks, value \in {"refused", "posting"} :
          /\ status[t] = "new"
          /\ \A u \in Tasks : status'[u] = IF u = t THEN value ELSE status[u]
          /\ UNCHANGED runTime \/ runTime' = [runTime EXCEPT ![t] = CalculateDelayedRuntime(t)]
    BY <1>11, RefusedSteps, BeginSteps
  <2>3. \A u \in ToSet(posted) : runTime'[u] = runTime[u]
    BY <1>0, <2>2 DEF TypeOK
  <2> QED
    BY <1>1, <2>1, <2>2, <2>3
<1>12. ASSUME NEW p \in Posters, PostPushes(p)
       PROVE  DelayStep
  <2>1. /\ posterTask[p] \in Tasks /\ status[posterTask[p]] = "posting"
        /\ incoming' = Append(incoming, posterTask[p]) /\ posted' = Append(posted, posterTask[p])
        /\ \A u \in Tasks : status'[u] = IF u = posterTask[p] THEN "queued" ELSE status[u]
        /\ UNCHANGED <<work, deferred, delayed, runTime, numberVars, phase>>
    BY <1>12, PushSteps
  <2>2. \A u \in Tasks : Started(u)' <=> Started(u)
    BY <2>1 DEF Started
  <2> QED
    BY <2>1, <2>2, QueuedTaskWaits
<1> QED
  BY <1>2, <1>3, <1>4, <1>5, <1>6, <1>7, <1>8, <1>9, <1>10, <1>11, <1>12
     DEF Next, LoopStep, PumpStep, ProgramStep, DestructorStep, PosterStep

(* The order of those queued is kept, and so is who of them left the line. *)
LEMMA OrderKept ==
    ASSUME TypeOK, DelayStep
    PROVE  /\ \A a, b : b \in ToSet(posted) => (QueuedBefore(a, b)' <=> QueuedBefore(a, b))
           /\ ToSet(posted) \subseteq ToSet(posted')
<1>1. CASE UNCHANGED posted
  BY <1>1, OrderUnchanged
<1>2. ASSUME NEW t \in Tasks, t \notin ToSet(posted), posted' = Append(posted, t)
      PROVE  /\ \A a, b : b \in ToSet(posted) => (QueuedBefore(a, b)' <=> QueuedBefore(a, b))
             /\ ToSet(posted) \subseteq ToSet(posted')
  <2>1. posted \in Seq(Tasks)
    BY DEF TypeOK
  <2>2. \A a, b : QueuedBefore(a, b)' <=> QueuedBefore(a, b) \/ (a \in ToSet(posted) /\ b = t)
    BY <1>2, <2>1, QueuedNext
  <2>3. ToSet(posted') = ToSet(posted) \cup {t}
    BY <1>2, <2>1, PushedOnto
  <2> QED
    BY <1>2, <2>2, <2>3
<1> QED
  BY <1>1, <1>2 DEF DelayStep

(* While no task is numbered, those numbered stay so.                      *)
LEMMA NumbersKept ==
    ASSUME FewDelayedTasks, TypeOK, QueueInv, FifoInv, NumberInv, DelayStep,
           UNCHANGED numberVars, delayed' \subseteq delayed
    PROVE  NumberInv'
<1> SUFFICES ASSUME phase' = "alive"
             PROVE  /\ \A t \in delayed' : Age(t)' \in 1 .. Cardinality(Numbered')
                    /\ \A a, b \in delayed' : QueuedBefore(a, b)' => Age(b)' < Age(a)'
  BY DEF NumberInv
<1>1. phase = "alive"
  BY DEF DelayStep
<1>2. \A t : Age(t)' = Age(t)
  BY DEF Age, numberVars
<1>3. Cardinality(Numbered) <= Cardinality(Numbered') /\ Cardinality(Numbered') \in Nat
      /\ Cardinality(Numbered) \in Nat
  <2>1. Numbered \subseteq Numbered'
    <3>1. \A t \in Numbered : t \in DelayedTasks /\ t \in ToSet(posted') /\ t \notin InLine'
      BY OrderKept DEF Numbered, DelayStep
    <3> QED
      BY <3>1 DEF Numbered, DelayedTasks
  <2>2. Numbered' \subseteq DelayedTasks
    BY DEF Numbered, DelayedTasks
  <2>3. IsFiniteSet(Numbered')
    BY <2>2, FS_Subset DEF FewDelayedTasks
  <2> QED
    BY <2>1, <2>3, NumberedAreFew, FS_Subset, FS_CardinalityType
<1>4. \A t \in delayed' : Age(t)' \in 1 .. Cardinality(Numbered')
  <2> TAKE t \in delayed'
  <2>1. Age(t) \in 1 .. Cardinality(Numbered)
    BY <1>1 DEF NumberInv
  <2> QED
    BY <1>2, <1>3, <2>1
<1>5. \A a, b \in delayed' : QueuedBefore(a, b)' => Age(b)' < Age(a)'
  <2> TAKE a, b \in delayed'
  <2>1. a \in delayed /\ b \in delayed /\ b \in ToSet(posted)
    BY WaitingWereQueued
  <2>2. QueuedBefore(a, b)' => QueuedBefore(a, b)
    BY <2>1, OrderKept
  <2> QED
    BY <1>1, <1>2, <2>1, <2>2 DEF NumberInv
<1> QED
  BY <1>4, <1>5

(* The task that DoWork numbers is the youngest.                           *)
LEMMA NumbersGiven ==
    ASSUME FewDelayedTasks, TypeOK, TimeInv, QueueInv, FifoInv, NumberInv, DelayStep,
           DoWorkTakesTask, ~Immediate(Head(Reloaded.work))
    PROVE  NumberInv'
<1> SUFFICES ASSUME phase' = "alive"
             PROVE  /\ \A u \in delayed' : Age(u)' \in 1 .. Cardinality(Numbered')
                    /\ \A a, b \in delayed' : QueuedBefore(a, b)' => Age(b)' < Age(a)'
  BY DEF NumberInv
<1>1. PICK t \in InLine : /\ InLine' = InLine \ {t} /\ Delay[t] > 0 /\ status[t] = "queued"
                           /\ seqNum' = [seqNum EXCEPT ![t] = nextSeqNum]
                           /\ nextSeqNum' = NextSeqNum(nextSeqNum)
                           /\ delayed' = delayed \cup {t}
  BY TaskNumbered
<1>2. UNCHANGED posted
  BY WorkTaken
<1>3. phase = "alive" /\ t \in Tasks /\ t \in ToSet(posted)
  <2>1. t \in Tasks
    BY <1>1, QueuedAreTasks
  <2> QED
    BY <1>1, <2>1 DEF DelayStep, FifoInv
<1>4. Numbered' = Numbered \cup {t} /\ t \notin Numbered
  BY <1>1, <1>2, <1>3 DEF Numbered, DelayedTasks
<1> DEFINE C == Cardinality(Numbered)
           M == SeqModulus
<1>5. Cardinality(Numbered') = C + 1 /\ C \in Nat
  BY <1>4, FS_AddElement, NumberedAreFew
<1>6. C + 1 < M /\ M \in Nat
  <2>1. Numbered' \subseteq DelayedTasks /\ IsFiniteSet(DelayedTasks)
    BY DEF Numbered, DelayedTasks, FewDelayedTasks
  <2>2. Cardinality(Numbered') <= Cardinality(DelayedTasks) /\ Cardinality(DelayedTasks) \in Nat
    BY <2>1, FS_Subset, FS_CardinalityType
  <2>3. 2 * Cardinality(DelayedTasks) <= M /\ M \in Nat
    BY SeqModulusAssumption DEF FewDelayedTasks
  <2> QED
    BY <1>5, <2>2, <2>3
<1>7. nextSeqNum \in 0 .. M - 1
      /\ nextSeqNum' = IF nextSeqNum + 1 = M THEN 0 ELSE nextSeqNum + 1
  <2>1. nextSeqNum \in SeqNumbers
    BY DEF TypeOK
  <2> QED
    BY <1>1, <2>1, SeqNumbersWrap DEF SeqNumbers
<1>8. Age(t)' = 1
  <2>1. seqNum'[t] = nextSeqNum
    BY <1>1, <1>3 DEF TypeOK
  <2>2. Age(t)' = IF seqNum'[t] <= nextSeqNum' THEN nextSeqNum' - seqNum'[t]
                  ELSE nextSeqNum' - seqNum'[t] + M
    BY DEF Age
  <2> HIDE DEF C, M
  <2> QED
    BY <1>5, <1>6, <1>7, <2>1, <2>2
<1>9. ASSUME NEW u \in delayed
      PROVE  u # t /\ Age(u)' = Age(u) + 1 /\ Age(u) \in 1 .. C
  <2>1. u \notin InLine /\ u \in Tasks
    BY WaitingWereQueued
  <2>2. u # t /\ seqNum'[u] = seqNum[u] /\ seqNum[u] \in 0 .. M - 1
    BY <1>1, <2>1 DEF TypeOK, SeqNumbers
  <2>3. Age(u) \in 1 .. C
    BY <1>3 DEF NumberInv
  <2> HIDE DEF C, M
  <2>4. /\ Age(u) = IF seqNum[u] <= nextSeqNum THEN nextSeqNum - seqNum[u]
                    ELSE nextSeqNum - seqNum[u] + M
        /\ Age(u)' = IF seqNum'[u] <= nextSeqNum' THEN nextSeqNum' - seqNum'[u]
                     ELSE nextSeqNum' - seqNum'[u] + M
    BY DEF Age, M
  <2> QED
    BY <1>5, <1>6, <1>7, <2>2, <2>3, <2>4
<1>10. \A u \in delayed' : Age(u)' \in 1 .. Cardinality(Numbered')
  <2> TAKE u \in delayed'
  <2> HIDE DEF C
  <2>1. CASE u = t
    BY <1>5, <1>8, <2>1
  <2>2. CASE u \in delayed
    BY <1>5, <1>9, <2>2
  <2> QED
    BY <1>1, <2>1, <2>2
<1>11. \A a, b \in delayed' : QueuedBefore(a, b)' => Age(b)' < Age(a)'
  <2> TAKE a, b \in delayed'
  <2> SUFFICES ASSUME QueuedBefore(a, b)
               PROVE  Age(b)' < Age(a)'
    BY <1>2, OrderUnchanged
  <2>1. a # b
    BY QueuedOnce DEF FifoInv, TypeOK
  <2>2. CASE a \in delayed /\ b \in delayed
    <3>1. Age(b) < Age(a)
      BY <1>3, <2>2 DEF NumberInv
    <3> QED
      BY <1>9, <2>2, <3>1
  <2>3. CASE a \in delayed /\ b = t
    BY <1>8, <1>9, <2>3
  <2>4. ~(a = t /\ b \in delayed)
    <3> SUFFICES ASSUME a = t, b \in delayed
                 PROVE  b \in InLine
      BY WaitingWereQueued
    <3> QED
      BY <1>1, WaitingWereQueued DEF FifoInv
  <2> QED
    BY <1>1, <2>1, <2>2, <2>3, <2>4
<1> QED
  BY <1>10, <1>11

(* Whoever is served next was not to wait for a task queued before it.     *)
LEMMA ServedInOrderKept ==
    ASSUME FewDelayedTasks, TypeOK, FrameInv, QueueInv, FifoInv, PhaseInv,
           NumberInv, ServedInOrder, DelayStep
    PROVE  ServedInOrder'
<1> SUFFICES ASSUME NEW a \in Tasks, NEW b \in Tasks, QueuedBefore(a, b)', Delay[a] > 0, Delay[b] > 0,
                    runTime'[a] <= runTime'[b], Nestable[a], Served(b)'
             PROVE  Started(a)'
  BY DEF ServedInOrder
<1>1. Served(b) \/ (DoDelayedWorkTakesTask /\ b = Earliest)
  BY DEF DelayStep
<1>2. b \in ToSet(posted)
  <2>1. CASE Started(b)
    BY <2>1 DEF Started, FifoInv
  <2>2. CASE b \in ToSet(deferred)
    BY <2>2 DEF QueueInv, Queued, FifoInv
  <2>3. CASE DoDelayedWorkTakesTask /\ b = Earliest
    BY <2>3, EarliestTaken, WaitingWereQueued
  <2> QED
    BY <1>1, <2>1, <2>2, <2>3 DEF Served
<1>3. QueuedBefore(a, b)
  BY <1>2, OrderKept
<1>4. a \in ToSet(posted) /\ posted \in Seq(Tasks) /\ IsInjective(posted)
  BY <1>3, QueuedOnce DEF FifoInv, TypeOK
<1>5. runTime[a] <= runTime[b]
  BY <1>2, <1>4 DEF DelayStep
<1>6. Started(a)
  <2>1. CASE Served(b)
    BY <1>3, <1>5, <2>1 DEF ServedInOrder
  <2>2. CASE DoDelayedWorkTakesTask /\ b = Earliest
    <3>1. frames # <<>> /\ b \in delayed
      BY <2>2, EarliestTaken
    <3>2. phase = "alive"
      BY <3>1 DEF FrameInv
    <3>3. a \notin InLine
      BY <1>3, <3>1, WaitingWereQueued DEF FifoInv
    <3>4. a \notin ToSet(deferred)
      BY DEF QueueInv
    <3>5. a \notin delayed
      <4> SUFFICES ASSUME a \in delayed
                   PROVE  FALSE
        OBVIOUS
      <4>1. runTime[b] < runTime[a]
        BY <1>3, <2>2, <3>1, <3>2, NotOvertaken
      <4>2. runTime[a] \in Nat /\ runTime[b] \in Nat
        BY MaxTimeAssumption DEF TypeOK, Times
      <4> QED
        BY <1>5, <4>1, <4>2
    <3>6. status[a] # "queued"
      BY <3>3, <3>4, <3>5 DEF QueueInv, Queued
    <3>7. status[a] \notin {"new", "posting", "refused", "deleted"} /\ status[a] \in Statuses
      BY <1>4, <3>2 DEF FifoInv, PhaseInv, TypeOK
    <3> QED
      BY <3>6, <3>7 DEF Statuses, Started
  <2> QED
    BY <1>1, <2>1, <2>2
<1> QED
  BY <1>6 DEF DelayStep

(* Delayed tasks start in the order of their run times and, those with the *)
(* same time, in the order they were queued: a nestable one is never       *)
(* overtaken by one queued later for the same time or a later one, although *)
(* the sequence numbers that break the ties wrap around, DoDelayedWork     *)
(* defers others, and nested Runs take from the same queue.  It is assumed *)
(* that at most half as many delayed tasks are posted as there are ints.   *)
THEOREM DelayedOrderCorrect ==
    ASSUME FewDelayedTasks
    PROVE  Spec => []DelayedOrder
<1>1. Init => DelayInv
  <2> SUFFICES ASSUME Init
               PROVE  DelayInv
    OBVIOUS
  <2>1. delayed = {} /\ posted = <<>>
    BY DEF Init, LoopInit
  <2>2. \A a, b : ~QueuedBefore(a, b)
    BY <2>1 DEF QueuedBefore
  <2> QED
    BY <2>1, <2>2 DEF DelayInv, NumberInv, ServedInOrder
<1>2. ASSUME LoopInv, DelayInv, [Next]_vars
      PROVE  DelayInv'
  <2>1. DelayStep
    BY <1>2, EveryDelayStep DEF LoopInv
  <2>2. NumberInv'
    <3>1. CASE UNCHANGED numberVars /\ delayed' \subseteq delayed
      BY <1>2, <2>1, <3>1, NumbersKept DEF LoopInv, DelayInv
    <3>2. CASE DoWorkTakesTask /\ ~Immediate(Head(Reloaded.work))
      BY <1>2, <2>1, <3>2, NumbersGiven DEF LoopInv, DelayInv
    <3> QED
      BY <2>1, <3>1, <3>2 DEF DelayStep
  <2>3. ServedInOrder'
    BY <1>2, <2>1, ServedInOrderKept DEF LoopInv, DelayInv
  <2> QED
    BY <2>2, <2>3 DEF DelayInv
<1>3. DelayInv => DelayedOrder
  BY DEF DelayInv, ServedInOrder, Served, DelayedOrder
<1> QED
  BY <1>1, <1>2, <1>3, LoopInvariance, PTL DEF Spec
=============================================================================
