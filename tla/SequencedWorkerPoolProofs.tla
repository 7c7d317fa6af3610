----------------------- MODULE SequencedWorkerPoolProofs -----------------------
(***************************************************************************)
(* Proofs about SequencedWorkerPool, for any tasks, workers and clients.   *)
(***************************************************************************)
EXTENDS SequencedWorkerPool, FiniteSetTheorems, TLAPS

(* The pending list holds the tasks whose status says so, a task has a     *)
(* position exactly when it was accepted, and no dropped task blocks.      *)
ListInv ==
    /\ pendingTasks = {t \in Tasks : status[t] = "pending"}
    /\ \A t \in Tasks : position[t] > 0 <=> status[t] \notin {"new", "refused"}
    /\ \A t \in Tasks : position[t] <= accepted
    /\ \A t \in Tasks : status[t] = "deleted" => ~Blocks(t)

(* A task runs on one worker, which holds the token of its sequence.       *)
OwnerInv ==
    /\ \A w \in Workers : workerPc[w] = "running" <=> workerTask[w] # NoTask
    /\ \A w \in Workers : workerTask[w] # NoTask => status[workerTask[w]] = "running"
    /\ \A t \in Tasks : status[t] = "running" => \E w \in Workers : workerTask[w] = t
    /\ \A v, w \in Workers : (workerTask[v] = workerTask[w] /\ workerTask[v] # NoTask) => v = w

SequenceInv ==
    /\ \A v, w \in Workers :
         (v # w /\ workerTask[v] # NoTask /\ workerTask[w] # NoTask)
            => ~SameSequence(workerTask[v], workerTask[w])
    /\ \A k : k \in currentSequences
                <=> \E w \in Workers : workerTask[w] # NoTask /\ k \in TokensOf(workerTask[w])

(* The counters behind CanShutdown, over the statuses of the tasks.        *)
BlockingTasks(value) == {t \in Tasks : Blocks(t) /\ status[t] = value}

CountInv ==
    /\ blockingShutdownThreadCount = Cardinality(BlockingTasks("running"))
    /\ blockingShutdownPendingTaskCount = Cardinality(BlockingTasks("pending"))

(* Once Shutdown returned nothing that CanShutdown waits for comes back.   *)
ShutdownInv ==
    /\ \A c \in Clients : clientPc[c] \in {"shuttingDown", "shutDown", "joining", "destroyed"}
                            => terminating
    /\ ShutDown => ~threadBeingCreated /\ BlockingTasks("running") = {}
                                       /\ BlockingTasks("pending") = {}

IInv == /\ TypeOK
        /\ ListInv
        /\ OwnerInv
        /\ SequenceInv
        /\ SequenceOrder
        /\ CountInv
        /\ ShutdownInv
-----------------------------------------------------------------------------
(* The pool starts with every variable in its type.                        *)
LEMMA InitTypeOK ==
    ASSUME Init
    PROVE  TypeOK
<1>1. /\ lock \in Workers \cup {NoThread} /\ cvWaiters \subseteq Workers \cup Clients
      /\ pendingTasks \subseteq Tasks /\ threads \subseteq Workers
      /\ toCreate \subseteq Workers \cup Clients /\ toSignal \subseteq Workers \cup Clients
      /\ currentSequences \subseteq {Token[t] : t \in Tasks} \ {NoToken}
  BY DEF Init
<1>2. /\ position \in [Tasks -> Nat] /\ accepted \in Nat
      /\ waitingThreadCount \in Int
      /\ blockingShutdownThreadCount \in Int /\ blockingShutdownPendingTaskCount \in Int
  BY DEF Init
<1>3. threadBeingCreated \in BOOLEAN /\ terminating \in BOOLEAN /\ shutdownCalled \in BOOLEAN
  BY DEF Init
<1>4. /\ workerPc \in [Workers -> {"unborn", "starting", "getWork", "waiting", "running",
                                   "exiting", "exited"}]
      /\ workerTask \in [Workers -> Tasks \cup {NoTask}]
      /\ clientPc \in [Clients -> {"idle", "flushing", "shuttingDown", "shutDown", "joining",
                                   "destroyed"}]
      /\ status \in [Tasks -> {"new", "refused", "pending", "running", "done", "deleted"}]
  BY DEF Init
<1> QED
  BY <1>1, <1>2, <1>3, <1>4 DEF TypeOK

(* TypeOK is inductive by itself: the type of every variable survives      *)
(* every step of the pool.                                                 *)
LEMMA TypeOKInductive ==
    ASSUME TypeOK, [Next]_vars
    PROVE  TypeOK'
<1> USE PoolAssumption
<1> USE DEF TypeOK
<1>1. ASSUME NEW th \in Clients \cup Workers, NEW t \in Tasks, PostTaskRefused(th, t)
      PROVE  TypeOK'
  BY <1>1 DEF PostTaskRefused, counterVars, shutdownVars, listVars
<1>2. ASSUME NEW th \in Clients \cup Workers, NEW t \in Tasks, PostTask(th, t)
      PROVE  TypeOK'
  <2>1. Count(Blocks(t)) \in Int
    BY DEF Count
  <2>2. /\ threadBeingCreated' \in BOOLEAN
        /\ toCreate' \subseteq Workers \cup Clients
        /\ toSignal' \subseteq Workers \cup Clients
    BY <1>2 DEF PostTask
  <2>3. /\ position' \in [Tasks -> Nat]
        /\ accepted' \in Nat
        /\ pendingTasks' \subseteq Tasks
        /\ status' \in [Tasks -> {"new", "refused", "pending", "running", "done", "deleted"}]
        /\ blockingShutdownPendingTaskCount' \in Int
    BY <1>2, <2>1 DEF PostTask
  <2> QED
    BY <1>2, <2>2, <2>3 DEF PostTask, shutdownVars
<1>3. ASSUME NEW th \in Clients \cup Workers, CreateThread(th)
      PROVE  TypeOK'
  BY <1>3 DEF CreateThread, WorkerIs, counterVars, shutdownVars, listVars
<1>4. ASSUME NEW th \in Clients \cup Workers, SignalWorkers(th)
      PROVE  TypeOK'
  BY <1>4 DEF SignalWorkers, Signal, AfterSignal, counterVars, shutdownVars, listVars
<1>5. ASSUME NEW th \in Clients \cup Workers, SpuriousWakeup(th)
      PROVE  TypeOK'
  BY <1>5 DEF SpuriousWakeup, counterVars, shutdownVars, listVars
<1>6. ASSUME NEW w \in Workers, WorkerStarts(w)
      PROVE  TypeOK'
  BY <1>6 DEF WorkerStarts, WorkerIs, counterVars, shutdownVars, listVars
<1>7. ASSUME NEW w \in Workers, WorkerWakes(w)
      PROVE  TypeOK'
  BY <1>7 DEF WorkerWakes, WorkerIs, counterVars, shutdownVars, listVars
<1>8. ASSUME NEW w \in Workers, WorkerExits(w)
      PROVE  TypeOK'
  BY <1>8 DEF WorkerExits, WorkerIs, Signal, AfterSignal, counterVars, shutdownVars, listVars
<1>9. ASSUME NEW w \in Workers, DidRunWorkerTask(w)
      PROVE  TypeOK'
  <2>1. Count(Blocks(workerTask[w])) \in Int
    BY DEF Count
  <2>2. blockingShutdownThreadCount' \in Int
    BY <1>9, <2>1 DEF DidRunWorkerTask
  <2>3. currentSequences' \subseteq currentSequences
    BY <1>9 DEF DidRunWorkerTask
  <2>4. /\ status' \in [Tasks -> {"new", "refused", "pending", "running", "done", "deleted"}]
        /\ workerTask' \in [Workers -> Tasks \cup {NoTask}]
    BY <1>9 DEF DidRunWorkerTask
  <2> QED
    BY <1>9, <2>2, <2>3, <2>4 DEF DidRunWorkerTask, WorkerIs, shutdownVars, listVars
<1>10. ASSUME NEW w \in Workers, GetWorkFindsTask(w)
      PROVE  TypeOK'
  <2>1. PICK t \in pendingTasks : /\ Take({u \in Ahead(t) : Droppable(u)}, {t})
                                 /\ blockingShutdownPendingTaskCount' =
                                      blockingShutdownPendingTaskCount - Count(Blocks(t))
                                 /\ currentSequences' = currentSequences \cup TokensOf(t)
                                 /\ blockingShutdownThreadCount' =
                                      blockingShutdownThreadCount + Count(Blocks(t))
                                 /\ workerTask' = [workerTask EXCEPT ![w] = t]
    BY <1>10 DEF GetWorkFindsTask
  <2>2. Count(Blocks(t)) \in Int
    BY DEF Count
  <2>3. /\ pendingTasks' \subseteq Tasks
        /\ status' \in [Tasks -> {"new", "refused", "pending", "running", "done", "deleted"}]
        /\ UNCHANGED <<position, accepted>>
    BY <2>1 DEF Take
  <2>4. currentSequences' \subseteq {Token[u] : u \in Tasks} \ {NoToken}
    BY <2>1 DEF TokensOf
  <2>5. /\ workerTask' \in [Workers -> Tasks \cup {NoTask}]
        /\ blockingShutdownThreadCount' \in Int
        /\ blockingShutdownPendingTaskCount' \in Int
    BY <2>1, <2>2
  <2>6. /\ threadBeingCreated' \in BOOLEAN
        /\ toCreate' \subseteq Workers \cup Clients
        /\ toSignal' \subseteq Workers \cup Clients
    <3>1. /\ \/ threadBeingCreated' = TRUE /\ toCreate' = toCreate \cup {w}
             \/ UNCHANGED <<threadBeingCreated, toCreate>>
          /\ toSignal' = toSignal \cup {w}
      BY <1>10 DEF GetWorkFindsTask
    <3> QED
      BY <3>1
  <2>7. /\ lock' = NoThread
        /\ workerPc' = [workerPc EXCEPT ![w] = "running"]
        /\ UNCHANGED <<cvWaiters, threads, waitingThreadCount, terminating, shutdownCalled,
                       clientPc>>
    BY <1>10 DEF GetWorkFindsTask, WorkerIs, shutdownVars
  <2> QED
    BY <2>3, <2>4, <2>5, <2>6, <2>7
<1>11. ASSUME NEW w \in Workers, GetWorkFindsNone(w)
      PROVE  TypeOK'
  BY <1>11 DEF GetWorkFindsNone, WorkerIs, Take, AfterSignal, counterVars, shutdownVars, listVars
<1>12. ASSUME NEW c \in Clients, FlushCalled(c)
      PROVE  TypeOK'
  BY <1>12 DEF FlushCalled, ClientIs, MayCall, counterVars, shutdownVars, listVars
<1>13. ASSUME NEW c \in Clients, FlushChecks(c)
      PROVE  TypeOK'
  BY <1>13 DEF FlushChecks, ClientIs, counterVars, shutdownVars, listVars
<1>14. ASSUME NEW c \in Clients, ShutdownCalled(c)
      PROVE  TypeOK'
  BY <1>14 DEF ShutdownCalled, ClientIs, Signal, AfterSignal, counterVars, shutdownVars, listVars
<1>15. ASSUME NEW c \in Clients, ShutdownChecks(c)
      PROVE  TypeOK'
  BY <1>15 DEF ShutdownChecks, ClientIs, counterVars, shutdownVars, listVars
<1>16. ASSUME NEW c \in Clients, DestroyPool(c)
      PROVE  TypeOK'
  BY <1>16 DEF DestroyPool, ClientIs, counterVars, shutdownVars, listVars
<1>17. ASSUME NEW c \in Clients, JoinsThreads(c)
      PROVE  TypeOK'
  BY <1>17 DEF JoinsThreads, ClientIs, counterVars, shutdownVars, listVars
<1>18. CASE UNCHANGED vars
  BY <1>18 DEF vars, counterVars, shutdownVars, listVars
<1> QED
  BY <1>1, <1>2, <1>3, <1>4, <1>5, <1>6, <1>7, <1>8, <1>9, <1>10, <1>11, <1>12, <1>13, <1>14, <1>15, <1>16, <1>17, <1>18
     DEF Next, Posting, WorkerStep, TakesLock, GetWork, ClientStep

(* Every variable of the pool keeps its type, for any tasks, threads and   *)
(* clients: no counter, list or state leaves the values the code gives it. *)
THEOREM TypeCorrect == Spec => []TypeOK
<1>1. Init => TypeOK
  BY InitTypeOK
<1>2. TypeOK /\ [Next]_vars => TypeOK'
  BY TypeOKInductive
<1> QED
  BY <1>1, <1>2, PTL DEF Spec
-----------------------------------------------------------------------------
(* Most steps move no task: they leave the list, the tasks of the workers  *)
(* and all that is counted about them alone.                               *)
Quiet == /\ UNCHANGED <<listVars, status, workerTask, currentSequences,
                        blockingShutdownThreadCount, blockingShutdownPendingTaskCount>>
         /\ \A w \in Workers : workerPc'[w] = "running" <=> workerPc[w] = "running"

LEMMA StepKinds ==
    ASSUME TypeOK, [Next]_vars
    PROVE  \/ Quiet
           \/ \E th \in Clients \cup Workers, t \in Tasks :
                 PostTaskRefused(th, t) \/ PostTask(th, t)
           \/ \E w \in Workers :
                 DidRunWorkerTask(w) \/ GetWorkFindsTask(w) \/ GetWorkFindsNone(w)
<1> USE DEF Quiet, listVars, counterVars
<1> workerPc \in [Workers -> {"unborn", "starting", "getWork", "waiting", "running",
                             "exiting", "exited"}]
  BY DEF TypeOK
<1>1. ASSUME NEW th \in Clients \cup Workers,
             CreateThread(th) \/ SignalWorkers(th) \/ SpuriousWakeup(th)
      PROVE  Quiet
  BY <1>1 DEF CreateThread, SignalWorkers, SpuriousWakeup, WorkerIs
<1>2. ASSUME NEW w \in Workers, WorkerStarts(w) \/ WorkerWakes(w) \/ WorkerExits(w)
      PROVE  Quiet
  BY <1>2 DEF WorkerStarts, WorkerWakes, WorkerExits, WorkerIs
<1>3. ASSUME NEW c \in Clients, ClientStep(c)
      PROVE  Quiet
  BY <1>3 DEF ClientStep, FlushCalled, FlushChecks, ShutdownCalled, ShutdownChecks, DestroyPool,
              JoinsThreads
<1>4. CASE UNCHANGED vars
  BY <1>4 DEF vars
<1> QED
  BY <1>1, <1>2, <1>3, <1>4 DEF Next, Posting, WorkerStep, TakesLock, GetWork

(* What a worker that found a task did to the list and to the statuses:    *)
(* the task starts, those it passed over that may be dropped are deleted.  *)
LEMMA FoundTask ==
    ASSUME TypeOK, ListInv, NEW w \in Workers, GetWorkFindsTask(w)
    PROVE  \E t \in Tasks :
             /\ status[t] = "pending" /\ Runnable(t) /\ (terminating => Blocks(t))
             /\ status'[t] = "running"
             /\ workerTask' = [workerTask EXCEPT ![w] = t]
             /\ workerPc[w] = "getWork"
             /\ workerPc' = [workerPc EXCEPT ![w] = "running"]
             /\ currentSequences' = currentSequences \cup TokensOf(t)
             /\ UNCHANGED <<position, accepted, terminating, clientPc>>
             /\ pendingTasks' = {u \in Tasks : status'[u] = "pending"}
             /\ \A u \in Tasks \ {t} :
                  \/ status'[u] = status[u]
                  \/ status[u] = "pending" /\ status'[u] = "deleted" /\ ~Blocks(u)
             /\ \A u \in Ahead(t) : Runnable(u) => status'[u] = "deleted"
<1> workerPc \in [Workers -> {"unborn", "starting", "getWork", "waiting", "running",
                             "exiting", "exited"}]
  BY DEF TypeOK
<1>1. PICK t \in pendingTasks :
        /\ Takeable(t)
        /\ \A u \in Ahead(t) : ~Takeable(u)
        /\ Take({u \in Ahead(t) : Droppable(u)}, {t})
        /\ currentSequences' = currentSequences \cup TokensOf(t)
        /\ workerTask' = [workerTask EXCEPT ![w] = t]
  BY DEF GetWorkFindsTask
<1>2. /\ workerPc[w] = "getWork" /\ workerPc' = [workerPc EXCEPT ![w] = "running"]
      /\ UNCHANGED <<terminating, clientPc>>
  BY DEF GetWorkFindsTask, WorkerIs, shutdownVars
<1>3. t \in Tasks /\ status[t] = "pending"
  BY DEF ListInv
<1>4. Runnable(t) /\ (terminating => Blocks(t))
  BY <1>1 DEF Takeable, Droppable
<1> DEFINE D == {u \in Ahead(t) : Droppable(u)}
<1>5. /\ D \subseteq pendingTasks /\ t \notin D
      /\ \A u \in D : ~Blocks(u)
      /\ \A u \in Ahead(t) : Runnable(u) => u \in D
  <2>1. t \notin Ahead(t)
    BY <1>3 DEF Ahead, TypeOK
  <2> QED
    BY <1>1, <2>1 DEF Ahead, Droppable, Takeable
<1>6. /\ pendingTasks' = pendingTasks \ (D \cup {t})
      /\ status' = [u \in Tasks |-> IF u \in {t} THEN "running"
                                    ELSE IF u \in D THEN "deleted" ELSE status[u]]
      /\ UNCHANGED <<position, accepted>>
  BY <1>1 DEF Take
<1> HIDE DEF D
<1>7. /\ status'[t] = "running"
      /\ \A u \in Tasks \ {t} : status'[u] = IF u \in D THEN "deleted" ELSE status[u]
  BY <1>3, <1>6
<1>8. pendingTasks = {u \in Tasks : status[u] = "pending"}
  BY DEF ListInv
<1>9. pendingTasks' = {u \in Tasks : status'[u] = "pending"}
  BY <1>3, <1>5, <1>6, <1>7, <1>8
<1>10. \A u \in Tasks \ {t} :
         \/ status'[u] = status[u]
         \/ status[u] = "pending" /\ status'[u] = "deleted" /\ ~Blocks(u)
  BY <1>5, <1>7, <1>8
<1>11. \A u \in Ahead(t) : Runnable(u) => status'[u] = "deleted"
  <2> SUFFICES ASSUME NEW u \in Ahead(t), Runnable(u) PROVE status'[u] = "deleted"
    OBVIOUS
  <2>1. u \in D
    BY <1>5
  <2> QED
    BY <2>1, <1>5, <1>7, <1>8
<1> QED
  BY <1>1, <1>2, <1>3, <1>4, <1>6, <1>7, <1>9, <1>10, <1>11

(* ... and one that found none.                                            *)
LEMMA FoundNone ==
    ASSUME TypeOK, ListInv, NEW w \in Workers, GetWorkFindsNone(w)
    PROVE  /\ pendingTasks' = {u \in Tasks : status'[u] = "pending"}
           /\ \A u \in Tasks :
                 \/ status'[u] = status[u]
                 \/ status[u] = "pending" /\ status'[u] = "deleted" /\ ~Blocks(u)
           /\ \A v \in Workers : workerPc'[v] = "running" <=> workerPc[v] = "running"
           /\ UNCHANGED <<position, accepted, workerTask, currentSequences, terminating, clientPc,
                          threadBeingCreated, blockingShutdownThreadCount,
                          blockingShutdownPendingTaskCount>>
<1> workerPc \in [Workers -> {"unborn", "starting", "getWork", "waiting", "running",
                             "exiting", "exited"}]
  BY DEF TypeOK
<1>1. /\ workerPc[w] = "getWork"
      /\ Take({t \in pendingTasks : Droppable(t)}, {})
      /\ \/ workerPc' = [workerPc EXCEPT ![w] = "exiting"]
         \/ workerPc' = [workerPc EXCEPT ![w] = "waiting"]
      /\ UNCHANGED <<workerTask, currentSequences, terminating, clientPc, threadBeingCreated,
                     blockingShutdownThreadCount, blockingShutdownPendingTaskCount>>
  BY DEF GetWorkFindsNone, WorkerIs, shutdownVars
<1> DEFINE D == {t \in pendingTasks : Droppable(t)}
<1>2. D \subseteq pendingTasks /\ \A u \in D : ~Blocks(u)
  BY DEF Droppable
<1>3. /\ pendingTasks' = pendingTasks \ D
      /\ \A u \in Tasks : status'[u] = IF u \in D THEN "deleted" ELSE status[u]
      /\ UNCHANGED <<position, accepted>>
  BY <1>1 DEF Take
<1> HIDE DEF D
<1>4. pendingTasks = {u \in Tasks : status[u] = "pending"}
  BY DEF ListInv
<1> QED
  BY <1>1, <1>2, <1>3, <1>4
-----------------------------------------------------------------------------
(* The steps that do move a task, in the terms of the invariant.           *)
LEMMA Refused ==
    ASSUME TypeOK, NEW th \in Clients \cup Workers, NEW t \in Tasks, PostTaskRefused(th, t)
    PROVE  /\ status[t] = "new" /\ status' = [status EXCEPT ![t] = "refused"]
           /\ UNCHANGED <<pendingTasks, position, accepted, workerTask, workerPc,
                          currentSequences>>
  BY DEF PostTaskRefused, listVars

LEMMA Posted ==
    ASSUME TypeOK, NEW th \in Clients \cup Workers, NEW t \in Tasks, PostTask(th, t)
    PROVE  /\ status[t] = "new" /\ status' = [status EXCEPT ![t] = "pending"]
           /\ pendingTasks' = pendingTasks \cup {t}
           /\ accepted' = accepted + 1
           /\ position' = [position EXCEPT ![t] = accepted + 1]
           /\ UNCHANGED <<workerTask, workerPc, currentSequences>>
  BY DEF PostTask

LEMMA DidRun ==
    ASSUME TypeOK, OwnerInv, NEW w \in Workers, DidRunWorkerTask(w)
    PROVE  \E t \in Tasks :
             /\ t = workerTask[w] /\ status[t] = "running"
             /\ status' = [status EXCEPT ![t] = "done"]
             /\ workerTask' = [workerTask EXCEPT ![w] = NoTask]
             /\ workerPc' = [workerPc EXCEPT ![w] = "getWork"]
             /\ currentSequences' = currentSequences \ TokensOf(t)
             /\ UNCHANGED <<pendingTasks, position, accepted>>
<1>1. workerPc[w] = "running" /\ workerTask[w] # NoTask
  BY DEF DidRunWorkerTask, OwnerInv
<1>2. workerTask[w] \in Tasks /\ status[workerTask[w]] = "running"
  BY <1>1 DEF TypeOK, OwnerInv
<1> QED
  BY <1>2 DEF DidRunWorkerTask, WorkerIs, listVars

(* Every step keeps the list and the statuses in agreement.                *)
LEMMA ListInvInductive ==
    ASSUME TypeOK, ListInv, OwnerInv, [Next]_vars
    PROVE  ListInv'
<1> /\ status \in [Tasks -> {"new", "refused", "pending", "running", "done", "deleted"}]
    /\ position \in [Tasks -> Nat] /\ accepted \in Nat
  BY DEF TypeOK
<1>1. CASE Quiet
  BY <1>1 DEF Quiet, ListInv, listVars
<1>2. ASSUME NEW th \in Clients \cup Workers, NEW t \in Tasks, PostTaskRefused(th, t)
      PROVE  ListInv'
  BY <1>2, Refused DEF ListInv
<1>3. ASSUME NEW th \in Clients \cup Workers, NEW t \in Tasks, PostTask(th, t)
      PROVE  ListInv'
  BY <1>3, Posted DEF ListInv
<1>4. ASSUME NEW w \in Workers, DidRunWorkerTask(w)
      PROVE  ListInv'
  BY <1>4, DidRun DEF ListInv
<1>5. ASSUME NEW w \in Workers, GetWorkFindsTask(w)
      PROVE  ListInv'
  BY <1>5, FoundTask DEF ListInv
<1>6. ASSUME NEW w \in Workers, GetWorkFindsNone(w)
      PROVE  ListInv'
  BY <1>6, FoundNone DEF ListInv
<1> QED
  BY <1>1, <1>2, <1>3, <1>4, <1>5, <1>6, StepKinds

(* Every step leaves each running task with one worker.                    *)
LEMMA OwnerInvInductive ==
    ASSUME TypeOK, ListInv, OwnerInv, [Next]_vars
    PROVE  OwnerInv'
<1> /\ status \in [Tasks -> {"new", "refused", "pending", "running", "done", "deleted"}]
    /\ workerTask \in [Workers -> Tasks \cup {NoTask}]
    /\ workerPc \in [Workers -> {"unborn", "starting", "getWork", "waiting", "running",
                                "exiting", "exited"}]
    /\ NoTask \notin Tasks
  BY PoolAssumption DEF TypeOK
<1>1. CASE Quiet
  BY <1>1 DEF Quiet, OwnerInv
<1>2. ASSUME NEW th \in Clients \cup Workers, NEW t \in Tasks, PostTaskRefused(th, t)
      PROVE  OwnerInv'
  BY <1>2, Refused DEF OwnerInv
<1>3. ASSUME NEW th \in Clients \cup Workers, NEW t \in Tasks, PostTask(th, t)
      PROVE  OwnerInv'
  BY <1>3, Posted DEF OwnerInv
<1>4. ASSUME NEW w \in Workers, DidRunWorkerTask(w)
      PROVE  OwnerInv'
  BY <1>4, DidRun DEF OwnerInv
<1>5. ASSUME NEW w \in Workers, GetWorkFindsTask(w)
      PROVE  OwnerInv'
  BY <1>5, FoundTask DEF OwnerInv
<1>6. ASSUME NEW w \in Workers, GetWorkFindsNone(w)
      PROVE  OwnerInv'
  BY <1>6, FoundNone DEF OwnerInv
<1> QED
  BY <1>1, <1>2, <1>3, <1>4, <1>5, <1>6, StepKinds

(* Every step keeps the sequences of the workers apart, and the pool's set *)
(* of them exact.                                                          *)
LEMMA SequenceInvInductive ==
    ASSUME TypeOK, ListInv, OwnerInv, SequenceInv, [Next]_vars
    PROVE  SequenceInv'
<1> /\ workerTask \in [Workers -> Tasks \cup {NoTask}]
    /\ NoTask \notin Tasks
  BY PoolAssumption DEF TypeOK
<1>1. CASE Quiet
  BY <1>1 DEF Quiet, SequenceInv, SameSequence, TokensOf
<1>2. ASSUME NEW th \in Clients \cup Workers, NEW t \in Tasks, PostTaskRefused(th, t)
      PROVE  SequenceInv'
  BY <1>2, Refused DEF SequenceInv, SameSequence, TokensOf
<1>3. ASSUME NEW th \in Clients \cup Workers, NEW t \in Tasks, PostTask(th, t)
      PROVE  SequenceInv'
  BY <1>3, Posted DEF SequenceInv, SameSequence, TokensOf
<1>4. ASSUME NEW w \in Workers, DidRunWorkerTask(w)
      PROVE  SequenceInv'
  BY <1>4, DidRun DEF SequenceInv, SameSequence, TokensOf
<1>5. ASSUME NEW w \in Workers, GetWorkFindsTask(w)
      PROVE  SequenceInv'
  <2>1. PICK t \in Tasks :
          /\ Runnable(t)
          /\ workerTask' = [workerTask EXCEPT ![w] = t]
          /\ workerPc[w] = "getWork"
          /\ currentSequences' = currentSequences \cup TokensOf(t)
    BY <1>5, FoundTask
  <2>2. \A v \in Workers : workerTask[v] # NoTask => ~SameSequence(workerTask[v], t)
    BY <2>1 DEF SequenceInv, SameSequence, Runnable, RunnableWith, TokensOf
  <2>3. workerTask[w] = NoTask
    BY <2>1 DEF OwnerInv
  <2>4. \A u, v \in Workers :
           (u # v /\ workerTask'[u] # NoTask /\ workerTask'[v] # NoTask)
              => ~SameSequence(workerTask'[u], workerTask'[v])
    BY <2>1, <2>2 DEF SequenceInv, SameSequence
  <2>5. \A k : k \in currentSequences'
                 <=> \E v \in Workers : workerTask'[v] # NoTask /\ k \in TokensOf(workerTask'[v])
    BY <2>1, <2>3 DEF SequenceInv
  <2> QED
    BY <2>4, <2>5 DEF SequenceInv, SameSequence, TokensOf
<1>6. ASSUME NEW w \in Workers, GetWorkFindsNone(w)
      PROVE  SequenceInv'
  BY <1>6, FoundNone DEF SequenceInv, SameSequence, TokensOf
<1> QED
  BY <1>1, <1>2, <1>3, <1>4, <1>5, <1>6, StepKinds

(* Every step starts the tasks of a sequence in the order of their posts.  *)
LEMMA SequenceOrderInductive ==
    ASSUME TypeOK, ListInv, OwnerInv, SequenceInv, SequenceOrder, [Next]_vars
    PROVE  SequenceOrder'
<1> /\ status \in [Tasks -> {"new", "refused", "pending", "running", "done", "deleted"}]
    /\ position \in [Tasks -> Nat] /\ accepted \in Nat
    /\ workerTask \in [Workers -> Tasks \cup {NoTask}]
    /\ NoTask \notin Tasks
  BY PoolAssumption DEF TypeOK
<1> USE DEF SequenceOrder, PostedBefore, SameSequence
<1>1. CASE Quiet
  BY <1>1 DEF Quiet, listVars
<1>2. ASSUME NEW th \in Clients \cup Workers, NEW t \in Tasks, PostTaskRefused(th, t)
      PROVE  SequenceOrder'
  BY <1>2, Refused DEF ListInv
<1>3. ASSUME NEW th \in Clients \cup Workers, NEW t \in Tasks, PostTask(th, t)
      PROVE  SequenceOrder'
  BY <1>3, Posted DEF ListInv
<1>4. ASSUME NEW w \in Workers, DidRunWorkerTask(w)
      PROVE  SequenceOrder'
  BY <1>4, DidRun
<1>5. ASSUME NEW w \in Workers, GetWorkFindsTask(w)
      PROVE  SequenceOrder'
  <2>1. PICK t \in Tasks :
          /\ status[t] = "pending" /\ Runnable(t)
          /\ status'[t] = "running"
          /\ UNCHANGED position
          /\ \A u \in Tasks \ {t} :
               \/ status'[u] = status[u]
               \/ status[u] = "pending" /\ status'[u] = "deleted" /\ ~Blocks(u)
          /\ \A u \in Ahead(t) : Runnable(u) => status'[u] = "deleted"
    BY <1>5, FoundTask
  <2>2. ASSUME NEW u \in Tasks, PostedBefore(u, t), SameSequence(u, t)
        PROVE  status'[u] \in {"done", "deleted"}
    <3>1. Runnable(u) /\ u # t
      BY <2>1, <2>2 DEF Runnable, RunnableWith, TokensOf
    <3>2. CASE status[u] = "pending"
      BY <2>1, <2>2, <3>1, <3>2 DEF Ahead, ListInv
    <3>3. status[u] # "running"
      BY <2>2, <3>1 DEF OwnerInv, SequenceInv, Runnable, RunnableWith, TokensOf
    <3>4. status[u] \notin {"new", "refused"}
      BY <2>2 DEF ListInv
    <3>5. CASE status[u] \in {"done", "deleted"}
      BY <2>1, <3>1, <3>5
    <3> QED
      BY <3>2, <3>3, <3>4, <3>5
  <2>3. ASSUME NEW u \in Tasks, NEW v \in Tasks \ {t}, PostedBefore(u, v), SameSequence(u, v),
               status'[v] \in {"running", "done"}
        PROVE  status'[u] \in {"done", "deleted"}
    BY <2>1, <2>3
  <2> QED
    BY <2>1, <2>2, <2>3
<1>6. ASSUME NEW w \in Workers, GetWorkFindsNone(w)
      PROVE  SequenceOrder'
  BY <1>6, FoundNone
<1> QED
  BY <1>1, <1>2, <1>3, <1>4, <1>5, <1>6, StepKinds

(* A task that comes to block shutdown, or stops to, moves the count of    *)
(* those that do by one.                                                   *)
LEMMA CountOneMore ==
    ASSUME NEW S \in SUBSET Tasks, NEW t \in Tasks, t \notin S
    PROVE  Cardinality(S \cup {t}) = Cardinality(S) + 1 /\ Cardinality(S) \in Nat
<1>1. IsFiniteSet(S)
  BY PoolAssumption, FS_Subset
<1> QED
  BY <1>1, FS_AddElement, FS_CardinalityType

LEMMA CountOneLess ==
    ASSUME NEW S \in SUBSET Tasks, NEW t \in S
    PROVE  Cardinality(S \ {t}) = Cardinality(S) - 1 /\ Cardinality(S) \in Nat
<1>1. IsFiniteSet(S)
  BY PoolAssumption, FS_Subset
<1> QED
  BY <1>1, FS_RemoveElement, FS_CardinalityType

(* Every step keeps both counters behind CanShutdown exact.                *)
LEMMA CountInvInductive ==
    ASSUME TypeOK, ListInv, OwnerInv, CountInv, [Next]_vars
    PROVE  CountInv'
<1> /\ status \in [Tasks -> {"new", "refused", "pending", "running", "done", "deleted"}]
    /\ blockingShutdownThreadCount \in Int /\ blockingShutdownPendingTaskCount \in Int
  BY DEF TypeOK
<1> DEFINE R == BlockingTasks("running")
           P == BlockingTasks("pending")
<1> R \subseteq Tasks /\ P \subseteq Tasks
  BY DEF BlockingTasks
<1>1. CASE Quiet
  BY <1>1 DEF Quiet, CountInv, BlockingTasks
<1>2. ASSUME NEW th \in Clients \cup Workers, NEW t \in Tasks, PostTaskRefused(th, t)
      PROVE  CountInv'
  <2>1. R' = R /\ P' = P
    BY <1>2, Refused DEF BlockingTasks
  <2> QED
    BY <1>2, <2>1 DEF CountInv, PostTaskRefused, counterVars
<1>3. ASSUME NEW th \in Clients \cup Workers, NEW t \in Tasks, PostTask(th, t)
      PROVE  CountInv'
  <2>1. /\ UNCHANGED blockingShutdownThreadCount
        /\ blockingShutdownPendingTaskCount' =
               blockingShutdownPendingTaskCount + Count(Blocks(t))
    BY <1>3 DEF PostTask
  <2>2. R' = R
    BY <1>3, Posted DEF BlockingTasks
  <2>3. CASE Blocks(t)
    <3>1. P' = P \cup {t} /\ t \notin P
      BY <1>3, <2>3, Posted DEF BlockingTasks
    <3>2. Count(Blocks(t)) = 1
      BY <2>3 DEF Count
    <3> HIDE DEF P, R
    <3> QED
      BY <2>1, <2>2, <3>1, <3>2, CountOneMore DEF CountInv, P, R
  <2>4. CASE ~Blocks(t)
    <3>1. P' = P
      BY <1>3, <2>4, Posted DEF BlockingTasks
    <3>2. Count(Blocks(t)) = 0
      BY <2>4 DEF Count
    <3> QED
      BY <2>1, <2>2, <3>1, <3>2 DEF CountInv
  <2> QED
    BY <2>3, <2>4
<1>4. ASSUME NEW w \in Workers, DidRunWorkerTask(w)
      PROVE  CountInv'
  <2>1. PICK t \in Tasks : /\ t = workerTask[w] /\ status[t] = "running"
                           /\ status' = [status EXCEPT ![t] = "done"]
    BY <1>4, DidRun
  <2>2. /\ UNCHANGED blockingShutdownPendingTaskCount
        /\ blockingShutdownThreadCount' = blockingShutdownThreadCount - Count(Blocks(t))
    BY <1>4, <2>1 DEF DidRunWorkerTask
  <2>3. P' = P
    BY <2>1 DEF BlockingTasks
  <2>4. CASE Blocks(t)
    <3>1. R' = R \ {t} /\ t \in R
      BY <2>1, <2>4 DEF BlockingTasks
    <3>2. Count(Blocks(t)) = 1
      BY <2>4 DEF Count
    <3> HIDE DEF P, R
    <3> QED
      BY <2>2, <2>3, <3>1, <3>2, CountOneLess DEF CountInv, P, R
  <2>5. CASE ~Blocks(t)
    <3>1. R' = R
      BY <2>1, <2>5 DEF BlockingTasks
    <3>2. Count(Blocks(t)) = 0
      BY <2>5 DEF Count
    <3> QED
      BY <2>2, <2>3, <3>1, <3>2 DEF CountInv
  <2> QED
    BY <2>4, <2>5
<1>5. ASSUME NEW w \in Workers, GetWorkFindsTask(w)
      PROVE  CountInv'
  <2>1. PICK t \in Tasks :
          /\ status[t] = "pending" /\ status'[t] = "running"
          /\ workerTask' = [workerTask EXCEPT ![w] = t]
          /\ \A u \in Tasks \ {t} :
               \/ status'[u] = status[u]
               \/ status[u] = "pending" /\ status'[u] = "deleted" /\ ~Blocks(u)
    BY <1>5, FoundTask
  <2>2. /\ blockingShutdownPendingTaskCount' =
               blockingShutdownPendingTaskCount - Count(Blocks(t))
        /\ blockingShutdownThreadCount' = blockingShutdownThreadCount + Count(Blocks(t))
    <3>1. workerTask \in [Workers -> Tasks \cup {NoTask}]
      BY DEF TypeOK
    <3>2. PICK u \in pendingTasks :
            /\ workerTask' = [workerTask EXCEPT ![w] = u]
            /\ blockingShutdownPendingTaskCount' =
                  blockingShutdownPendingTaskCount - Count(Blocks(u))
            /\ blockingShutdownThreadCount' = blockingShutdownThreadCount + Count(Blocks(u))
      BY <1>5 DEF GetWorkFindsTask
    <3>3. u = t
      BY <2>1, <3>1, <3>2
    <3> QED
      BY <3>2, <3>3
  <2>3. CASE Blocks(t)
    <3>1. R' = R \cup {t} /\ t \notin R /\ P' = P \ {t} /\ t \in P
      BY <2>1, <2>3 DEF BlockingTasks
    <3>2. Count(Blocks(t)) = 1
      BY <2>3 DEF Count
    <3> HIDE DEF P, R
    <3> QED
      BY <2>2, <3>1, <3>2, CountOneMore, CountOneLess DEF CountInv, P, R
  <2>4. CASE ~Blocks(t)
    <3>1. R' = R /\ P' = P
      BY <2>1, <2>4 DEF BlockingTasks
    <3>2. Count(Blocks(t)) = 0
      BY <2>4 DEF Count
    <3> QED
      BY <2>2, <3>1, <3>2 DEF CountInv
  <2> QED
    BY <2>3, <2>4
<1>6. ASSUME NEW w \in Workers, GetWorkFindsNone(w)
      PROVE  CountInv'
  <2>1. R' = R /\ P' = P
    BY <1>6, FoundNone DEF BlockingTasks
  <2> QED
    BY <1>6, <2>1, FoundNone DEF CountInv
<1> QED
  BY <1>1, <1>2, <1>3, <1>4, <1>5, <1>6, StepKinds

(* CanShutdown is what it seems: when it lets Shutdown return, no task     *)
(* that blocks is pending and none runs.                                   *)
LEMMA CanShutdownMeansDone ==
    ASSUME CountInv, CanShutdown
    PROVE  BlockingTasks("running") = {} /\ BlockingTasks("pending") = {}
<1>1. IsFiniteSet(BlockingTasks("running")) /\ IsFiniteSet(BlockingTasks("pending"))
  BY PoolAssumption, FS_Subset DEF BlockingTasks
<1> QED
  BY <1>1, FS_EmptySet DEF CountInv, CanShutdown

(* Nothing that Shutdown waited for comes back after it.                   *)
LEMMA ShutdownInvInductive ==
    ASSUME TypeOK, ListInv, OwnerInv, CountInv, ShutdownInv, [Next]_vars
    PROVE  ShutdownInv'
<1> USE PoolAssumption
<1> /\ status \in [Tasks -> {"new", "refused", "pending", "running", "done", "deleted"}]
    /\ clientPc \in [Clients -> {"idle", "flushing", "shuttingDown", "shutDown", "joining",
                                 "destroyed"}]
  BY DEF TypeOK
<1> USE DEF ShutDown, BlockingTasks
<1>1. ASSUME /\ UNCHANGED <<clientPc, terminating>>
             /\ threadBeingCreated' = FALSE \/ UNCHANGED threadBeingCreated
             /\ \A t \in Tasks : status'[t] = status[t] \/ status'[t] \notin {"running", "pending"}
      PROVE  ShutdownInv'
  BY <1>1 DEF ShutdownInv
<1>2. ASSUME NEW th \in Clients \cup Workers, NEW t \in Tasks, PostTaskRefused(th, t)
      PROVE  ShutdownInv'
  BY <1>1, <1>2 DEF PostTaskRefused, shutdownVars
<1>3. ASSUME NEW th \in Clients \cup Workers, NEW t \in Tasks, PostTask(th, t)
      PROVE  ShutdownInv'
  <2>1. ~terminating /\ UNCHANGED <<clientPc, terminating>>
    BY <1>3 DEF PostTask, shutdownVars
  <2> QED
    BY <2>1 DEF ShutdownInv
<1>4. ASSUME NEW th \in Clients \cup Workers,
             CreateThread(th) \/ SignalWorkers(th) \/ SpuriousWakeup(th)
      PROVE  ShutdownInv'
  BY <1>1, <1>4 DEF CreateThread, SignalWorkers, SpuriousWakeup, shutdownVars
<1>5. ASSUME NEW w \in Workers, WorkerStarts(w) \/ WorkerWakes(w) \/ WorkerExits(w)
      PROVE  ShutdownInv'
  BY <1>1, <1>5 DEF WorkerStarts, WorkerWakes, WorkerExits, shutdownVars
<1>6. ASSUME NEW w \in Workers, DidRunWorkerTask(w)
      PROVE  ShutdownInv'
  <2>1. UNCHANGED <<clientPc, terminating, threadBeingCreated>>
    BY <1>6 DEF DidRunWorkerTask, shutdownVars
  <2> QED
    BY <1>1, <1>6, <2>1, DidRun
<1>7. ASSUME NEW w \in Workers, GetWorkFindsTask(w)
      PROVE  ShutdownInv'
  <2>1. PICK t \in Tasks : /\ status[t] = "pending" /\ (terminating => Blocks(t))
                           /\ UNCHANGED <<terminating, clientPc>>
    BY <1>7, FoundTask
  <2>2. terminating => t \in BlockingTasks("pending")
    BY <2>1
  <2> QED
    BY <2>1, <2>2 DEF ShutdownInv
<1>8. ASSUME NEW w \in Workers, GetWorkFindsNone(w)
      PROVE  ShutdownInv'
  BY <1>1, <1>8, FoundNone
<1>9. ASSUME NEW c \in Clients, FlushCalled(c) \/ FlushChecks(c)
      PROVE  ShutdownInv'
  <2>1. /\ UNCHANGED <<terminating, threadBeingCreated, status>>
        /\ \A d \in Clients : clientPc'[d] = clientPc[d] \/ clientPc'[d] \in {"flushing", "idle"}
    BY <1>9 DEF FlushCalled, FlushChecks, ClientIs, shutdownVars
  <2> QED
    BY <2>1 DEF ShutdownInv
<1>10. ASSUME NEW c \in Clients, ShutdownCalled(c)
       PROVE  ShutdownInv'
  <2>1. /\ terminating' /\ UNCHANGED <<threadBeingCreated, status>>
        /\ \/ CanShutdown
           \/ clientPc' = [clientPc EXCEPT ![c] = "shuttingDown"]
        /\ \A d \in Clients \ {c} : clientPc'[d] = clientPc[d]
        /\ c = Owner
    BY <1>10 DEF ShutdownCalled, ClientIs
  <2>2. CASE CanShutdown
    <3>1. /\ BlockingTasks("running") = {} /\ BlockingTasks("pending") = {}
          /\ ~threadBeingCreated
      BY <2>2, CanShutdownMeansDone DEF CanShutdown
    <3> QED
      BY <2>1, <3>1 DEF ShutdownInv
  <2>3. CASE clientPc' = [clientPc EXCEPT ![c] = "shuttingDown"]
    BY <2>1, <2>3 DEF ShutdownInv
  <2> QED
    BY <2>1, <2>2, <2>3
<1>11. ASSUME NEW c \in Clients, ShutdownChecks(c)
       PROVE  ShutdownInv'
  <2>1. /\ clientPc[c] = "shuttingDown"
        /\ UNCHANGED <<threadBeingCreated, status, terminating>>
        /\ \/ CanShutdown /\ clientPc' = [clientPc EXCEPT ![c] = "shutDown"]
           \/ UNCHANGED clientPc
    BY <1>11 DEF ShutdownChecks, ClientIs, shutdownVars
  <2>2. CASE CanShutdown /\ clientPc' = [clientPc EXCEPT ![c] = "shutDown"]
    <3>1. /\ BlockingTasks("running") = {} /\ BlockingTasks("pending") = {}
          /\ ~threadBeingCreated
      BY <2>2, CanShutdownMeansDone DEF CanShutdown
    <3> QED
      BY <2>1, <2>2, <3>1 DEF ShutdownInv
  <2>3. CASE UNCHANGED clientPc
    BY <2>1, <2>3 DEF ShutdownInv
  <2> QED
    BY <2>1, <2>2, <2>3
<1>12. ASSUME NEW c \in Clients, DestroyPool(c) \/ JoinsThreads(c)
       PROVE  ShutdownInv'
  <2>1. /\ clientPc[c] \in {"shutDown", "joining"}
        /\ UNCHANGED <<terminating, threadBeingCreated, status>>
        /\ \E pc \in {"joining", "destroyed"} : clientPc' = [clientPc EXCEPT ![c] = pc]
    BY <1>12 DEF DestroyPool, JoinsThreads, ClientIs, shutdownVars
  <2> QED
    BY <2>1 DEF ShutdownInv
<1>13. CASE UNCHANGED vars
  BY <1>1, <1>13 DEF vars, shutdownVars
<1> QED
  BY <1>2, <1>3, <1>4, <1>5, <1>6, <1>7, <1>8, <1>9, <1>10, <1>11, <1>12, <1>13
     DEF Next, Posting, WorkerStep, TakesLock, GetWork, ClientStep
-----------------------------------------------------------------------------
(* The conjunction of the parts above is an inductive invariant.           *)
LEMMA Invariance == Spec => []IInv
<1>1. Init => IInv
  <2> SUFFICES ASSUME Init PROVE IInv
    OBVIOUS
  <2>1. TypeOK
    BY InitTypeOK
  <2>2. ListInv /\ OwnerInv /\ SequenceOrder
    BY DEF Init, ListInv, OwnerInv, SequenceOrder, PostedBefore
  <2>3. SequenceInv
    BY DEF Init, SequenceInv, TokensOf
  <2>4. CountInv
    <3>1. BlockingTasks("running") = {} /\ BlockingTasks("pending") = {}
      BY DEF Init, BlockingTasks
    <3> QED
      BY <3>1, FS_EmptySet DEF Init, CountInv
  <2>5. ShutdownInv
    BY PoolAssumption DEF Init, ShutdownInv, ShutDown
  <2> QED
    BY <2>1, <2>2, <2>3, <2>4, <2>5 DEF IInv
<1>2. IInv /\ [Next]_vars => IInv'
  BY TypeOKInductive, ListInvInductive, OwnerInvInductive, SequenceInvInductive,
     SequenceOrderInductive, CountInvInductive, ShutdownInvInductive DEF IInv
<1> QED
  BY <1>1, <1>2, PTL DEF Spec

(* Tasks of one sequence start in the order of their posts, each after    *)
(* the end of the one before, whatever the number of workers, tasks and    *)
(* posting threads, and however they interleave.                           *)
THEOREM SequenceOrderCorrect == Spec => []SequenceOrder
<1>1. IInv => SequenceOrder
  BY DEF IInv
<1> QED
  BY <1>1, Invariance, PTL

(* Two workers never run tasks of one sequence together, and the pool's    *)
(* set of sequences is exactly that of the tasks that run.                 *)
THEOREM SequenceExclusionCorrect == Spec => []SequenceExclusion
<1>1. IInv => SequenceExclusion
  <2> SUFFICES ASSUME IInv PROVE SequenceExclusion
    OBVIOUS
  <2> \A w \in Workers : Running(w) <=> workerTask[w] # NoTask
    BY DEF IInv, OwnerInv, Running
  <2>1. \A v, w \in Workers : (v # w /\ Running(v) /\ Running(w))
                                  => ~SameSequence(workerTask[v], workerTask[w])
    BY DEF IInv, SequenceInv, SameSequence
  <2>2. currentSequences
          = UNION {TokensOf(workerTask[w]) : w \in {v \in Workers : Running(v)}}
    BY DEF IInv, SequenceInv
  <2> QED
    BY <2>1, <2>2 DEF SequenceExclusion
<1> QED
  BY <1>1, Invariance, PTL

(* When Shutdown returns, every BLOCK_SHUTDOWN task that the pool accepted *)
(* has run to its end.                                                     *)
THEOREM BlockingTasksDoneCorrect == Spec => []BlockingTasksDone
<1>1. IInv => BlockingTasksDone
  BY DEF IInv, TypeOK, ListInv, ShutdownInv, BlockingTasks, BlockingTasksDone
<1> QED
  BY <1>1, Invariance, PTL

(* Once the pool is terminating no step starts a task that does not block  *)
(* shutdown, and no step ever drops one that does.                         *)
THEOREM NoStartAfterShutdownCorrect == Spec => NoStartAfterShutdown
<1> DEFINE Correct(t) == /\ terminating /\ status'[t] = "running" /\ status[t] = "pending"
                              => Blocks(t)
                         /\ status'[t] = "deleted" => ~Blocks(t)
<1>1. IInv /\ IInv' /\ [Next]_vars => [\A t \in Tasks : Correct(t)]_vars
  <2> SUFFICES ASSUME IInv, IInv', [Next]_vars, NEW t \in Tasks PROVE Correct(t)
    OBVIOUS
  <2> status \in [Tasks -> {"new", "refused", "pending", "running", "done", "deleted"}]
    BY DEF IInv, TypeOK
  <2>1. status'[t] = "deleted" => ~Blocks(t)
    BY DEF IInv, ListInv
  <2>2. ASSUME terminating, status[t] = "pending", status'[t] = "running"
        PROVE  Blocks(t)
    <3>1. CASE Quiet
      BY <2>2, <3>1 DEF Quiet
    <3>2. ASSUME NEW th \in Clients \cup Workers, NEW u \in Tasks,
                 PostTaskRefused(th, u) \/ PostTask(th, u)
          PROVE  Blocks(t)
      BY <2>2, <3>2, Refused, Posted DEF IInv
    <3>3. ASSUME NEW w \in Workers, DidRunWorkerTask(w)
          PROVE  Blocks(t)
      BY <2>2, <3>3, DidRun DEF IInv
    <3>4. ASSUME NEW w \in Workers, GetWorkFindsTask(w)
          PROVE  Blocks(t)
      BY <2>2, <3>4, FoundTask DEF IInv
    <3>5. ASSUME NEW w \in Workers, GetWorkFindsNone(w)
          PROVE  Blocks(t)
      BY <2>2, <3>5, FoundNone DEF IInv
    <3> QED
      BY <3>1, <3>2, <3>3, <3>4, <3>5, StepKinds DEF IInv
  <2> QED
    BY <2>1, <2>2
<1> QED
  BY <1>1, Invariance, PTL DEF Spec, NoStartAfterShutdown
-----------------------------------------------------------------------------
(* Every thread of the pool is in threads_ once it has taken the lock, and *)
(* thread_being_created_ stands for the one thread that has not: somebody  *)
(* left the lock and is to create it, or it is starting.                   *)
Unstarted == {"unborn", "starting"}

ThreadInv ==
    /\ \A w \in Workers : w \in threads <=> workerPc[w] \notin Unstarted
    /\ threadBeingCreated <=> (toCreate # {} \/ \E w \in Workers : workerPc[w] = "starting")
    /\ \A v, w \in toCreate : v = w
    /\ \A v, w \in Workers : (workerPc[v] = "starting" /\ workerPc[w] = "starting") => v = w
    /\ \A w \in Workers : workerPc[w] = "starting" => toCreate = {}
    /\ Cardinality(threads) <= MaxThreads
    /\ threadBeingCreated => Cardinality(threads) < MaxThreads

(* Who waits on the condition variable, and how many workers the pool      *)
(* believes do.                                                            *)
Waiting == {w \in Workers : workerPc[w] = "waiting"}

WaitInv ==
    /\ waitingThreadCount = Cardinality(Waiting)
    /\ \A w \in Workers : w \in cvWaiters => workerPc[w] = "waiting"
    /\ \A c \in Clients : c \in cvWaiters => clientPc[c] \in {"flushing", "shuttingDown"}
    /\ terminating => clientPc[Owner] \notin {"idle", "flushing"}

(* A runnable task for which one more thread would help has that thread on *)
(* its way, or a worker that is to look for work.                          *)
SomeRunnable == \E t \in pendingTasks : Runnable(t)

HelpInv ==
    (~terminating /\ SomeRunnable)
       => \/ threadBeingCreated
          \/ \E w \in Workers : workerPc[w] \in {"getWork", "waiting"}
          \/ Cardinality(threads) = MaxThreads

(* A runnable task has a worker that looks for work, a signal that is owed *)
(* or nobody who sleeps on.                                                *)
WakeInv ==
    ((\A c \in Clients : clientPc[c] = "idle") /\ SomeRunnable)
       => \/ toSignal # {} \/ threadBeingCreated
          \/ \E w \in Workers : workerPc[w] = "getWork"
          \/ \E w \in Workers : workerPc[w] = "waiting" /\ ~Idle(w)
          \/ \A w \in Workers : ~Idle(w)

ThreadsInv == ThreadInv /\ WaitInv /\ HelpInv /\ WakeInv

(* The states of a worker, and the finite set of the pool's threads.       *)
LEMMA WorkerStates ==
    ASSUME TypeOK
    PROVE  /\ workerPc \in [Workers -> {"unborn", "starting", "getWork", "waiting", "running",
                                        "exiting", "exited"}]
           /\ IsFiniteSet(threads) /\ Cardinality(threads) \in Nat
<1>1. IsFiniteSet(threads)
  BY PoolAssumption, FS_Subset DEF TypeOK
<1> QED
  BY <1>1, FS_CardinalityType DEF TypeOK

(* The steps that create a thread or make one start; the others leave the  *)
(* threads alone.                                                          *)
NoneStarts ==
    \A w \in Workers : (workerPc[w] \in Unstarted \/ workerPc'[w] \in Unstarted)
                          => workerPc'[w] = workerPc[w]

ThreadsKept ==
    /\ UNCHANGED <<threads, threadBeingCreated, toCreate>>
    /\ NoneStarts

LEMMA ThreadSteps ==
    ASSUME TypeOK, [Next]_vars
    PROVE  \/ ThreadsKept
           \/ \E th \in Clients \cup Workers : (\E t \in Tasks : PostTask(th, t)) \/ CreateThread(th)
           \/ \E w \in Workers : WorkerStarts(w) \/ GetWorkFindsTask(w)
<1> USE DEF ThreadsKept, NoneStarts, Unstarted
<1> workerPc \in [Workers -> {"unborn", "starting", "getWork", "waiting", "running",
                             "exiting", "exited"}]
  BY DEF TypeOK
<1>1. ASSUME NEW th \in Clients \cup Workers, NEW t \in Tasks, PostTaskRefused(th, t)
      PROVE  ThreadsKept
  BY <1>1 DEF PostTaskRefused
<1>2. ASSUME NEW th \in Clients \cup Workers, SignalWorkers(th) \/ SpuriousWakeup(th)
      PROVE  ThreadsKept
  BY <1>2 DEF SignalWorkers, SpuriousWakeup
<1>3. ASSUME NEW w \in Workers, WorkerWakes(w) \/ WorkerExits(w) \/ DidRunWorkerTask(w)
      PROVE  ThreadsKept
  BY <1>3 DEF WorkerWakes, WorkerExits, DidRunWorkerTask, WorkerIs
<1>4. ASSUME NEW w \in Workers, GetWorkFindsNone(w)
      PROVE  ThreadsKept
  <2>1. /\ workerPc[w] = "getWork"
        /\ \/ workerPc' = [workerPc EXCEPT ![w] = "exiting"]
           \/ workerPc' = [workerPc EXCEPT ![w] = "waiting"]
        /\ UNCHANGED <<threads, threadBeingCreated, toCreate>>
    BY <1>4 DEF GetWorkFindsNone, WorkerIs
  <2> QED
    BY <2>1
<1>5. ASSUME NEW c \in Clients, ClientStep(c)
      PROVE  ThreadsKept
  BY <1>5 DEF ClientStep, FlushCalled, FlushChecks, ShutdownCalled, ShutdownChecks, DestroyPool,
              JoinsThreads
<1>6. CASE UNCHANGED vars
  BY <1>6 DEF vars
<1> QED
  BY <1>1, <1>2, <1>3, <1>4, <1>5, <1>6 DEF Next, Posting, WorkerStep, TakesLock, GetWork, ClientStep

(* What a step that finds another thread helpful sees: none is on its way. *)
LEMMA Helpful ==
    ASSUME TypeOK, ThreadInv, NEW P, NEW K, AnotherThreadHelps(P, K)
    PROVE  /\ toCreate = {} /\ Cardinality(threads) < MaxThreads
           /\ \A w \in Workers : workerPc[w] # "starting"
  BY DEF AnotherThreadHelps, ThreadInv

(* Every step keeps the account of the threads.                            *)
LEMMA ThreadInvInductive ==
    ASSUME TypeOK, ThreadInv, [Next]_vars
    PROVE  ThreadInv'
<1> USE WorkerStates, PoolAssumption DEF Unstarted, NoneStarts
<1>1. CASE ThreadsKept
  BY <1>1 DEF ThreadInv, ThreadsKept
<1>2. ASSUME NEW th \in Clients \cup Workers, UNCHANGED <<threads, threadBeingCreated, toCreate>>,
             NoneStarts
      PROVE  ThreadInv'
  BY <1>2 DEF ThreadInv
<1>3. ASSUME NEW th \in Clients \cup Workers, NEW P, NEW K, AnotherThreadHelps(P, K),
             threadBeingCreated' = TRUE, toCreate' = toCreate \cup {th}, UNCHANGED threads,
             NoneStarts
      PROVE  ThreadInv'
  <2>1. /\ toCreate = {} /\ Cardinality(threads) < MaxThreads
        /\ \A w \in Workers : workerPc[w] # "starting"
    BY <1>3, Helpful
  <2>2. toCreate' = {th} /\ \A w \in Workers : workerPc'[w] # "starting"
    BY <1>3, <2>1
  <2> QED
    BY <1>3, <2>1, <2>2 DEF ThreadInv
<1>4. ASSUME NEW th \in Clients \cup Workers, NEW t \in Tasks, PostTask(th, t)
      PROVE  ThreadInv'
  <2>1. /\ UNCHANGED <<threads, workerPc>>
        /\ \/ /\ AnotherThreadHelps(pendingTasks', currentSequences)
              /\ threadBeingCreated' = TRUE /\ toCreate' = toCreate \cup {th}
           \/ UNCHANGED <<threadBeingCreated, toCreate>>
    BY <1>4 DEF PostTask
  <2> QED
    BY <1>2, <1>3, <2>1
<1>5. ASSUME NEW w \in Workers, GetWorkFindsTask(w)
      PROVE  ThreadInv'
  <2>1. /\ UNCHANGED threads
        /\ workerPc[w] = "getWork" /\ workerPc' = [workerPc EXCEPT ![w] = "running"]
        /\ \/ /\ AnotherThreadHelps(pendingTasks', currentSequences')
              /\ threadBeingCreated' = TRUE /\ toCreate' = toCreate \cup {w}
           \/ UNCHANGED <<threadBeingCreated, toCreate>>
    BY <1>5 DEF GetWorkFindsTask, WorkerIs
  <2>2. NoneStarts
    BY <2>1
  <2> QED
    BY <1>2, <1>3, <2>1, <2>2
<1>6. ASSUME NEW th \in Clients \cup Workers, CreateThread(th)
      PROVE  ThreadInv'
  <2>1. PICK w \in Workers : workerPc[w] = "unborn" /\ workerPc' = [workerPc EXCEPT ![w] = "starting"]
    BY <1>6 DEF CreateThread, WorkerIs
  <2>2. th \in toCreate /\ toCreate' = toCreate \ {th} /\ UNCHANGED <<threads, threadBeingCreated>>
    BY <1>6 DEF CreateThread
  <2>3. threadBeingCreated /\ toCreate' = {} /\ \A v \in Workers : workerPc[v] # "starting"
    BY <2>2 DEF ThreadInv
  <2> QED
    BY <2>1, <2>2, <2>3 DEF ThreadInv
<1>7. ASSUME NEW w \in Workers, WorkerStarts(w)
      PROVE  ThreadInv'
  <2>1. /\ workerPc[w] = "starting" /\ workerPc' = [workerPc EXCEPT ![w] = "getWork"]
        /\ threadBeingCreated' = FALSE /\ threads' = threads \cup {w} /\ UNCHANGED toCreate
    BY <1>7 DEF WorkerStarts, WorkerIs
  <2>2. toCreate = {} /\ Cardinality(threads) < MaxThreads /\ w \notin threads
    BY <2>1 DEF ThreadInv
  <2>3. Cardinality(threads') = Cardinality(threads) + 1
    BY <2>1, <2>2, FS_AddElement
  <2>4. \A v \in Workers : workerPc'[v] # "starting"
    BY <2>1 DEF ThreadInv
  <2>5. \A v \in Workers : v \in threads' <=> workerPc'[v] \notin Unstarted
    BY <2>1 DEF ThreadInv
  <2> QED
    BY <2>1, <2>2, <2>3, <2>4, <2>5 DEF ThreadInv
<1> QED
  BY <1>1, <1>4, <1>5, <1>6, <1>7, ThreadSteps

(* The steps that change who waits; the others may wake or signal, but no  *)
(* one starts to wait and no worker returns from its wait.                 *)
WaitsKept ==
    /\ Waiting' = Waiting /\ UNCHANGED waitingThreadCount
    /\ cvWaiters' \subseteq cvWaiters

LEMMA WaitSteps ==
    ASSUME TypeOK, [Next]_vars
    PROVE  \/ WaitsKept /\ UNCHANGED <<clientPc, terminating>>
           \/ \E w \in Workers : WorkerWakes(w) \/ GetWorkFindsNone(w)
           \/ \E c \in Clients : ClientStep(c)
<1> USE DEF WaitsKept, Waiting, counterVars, shutdownVars
<1> workerPc \in [Workers -> {"unborn", "starting", "getWork", "waiting", "running",
                             "exiting", "exited"}]
  BY DEF TypeOK
<1>1. ASSUME NEW th \in Clients \cup Workers, NEW t \in Tasks,
             PostTaskRefused(th, t) \/ PostTask(th, t)
      PROVE  WaitsKept /\ UNCHANGED <<clientPc, terminating>>
  BY <1>1 DEF PostTaskRefused, PostTask
<1>2. ASSUME NEW th \in Clients \cup Workers, CreateThread(th)
      PROVE  WaitsKept /\ UNCHANGED <<clientPc, terminating>>
  BY <1>2 DEF CreateThread, WorkerIs
<1>3. ASSUME NEW th \in Clients \cup Workers, SignalWorkers(th) \/ SpuriousWakeup(th)
      PROVE  WaitsKept /\ UNCHANGED <<clientPc, terminating>>
  BY <1>3 DEF SignalWorkers, SpuriousWakeup, Signal, AfterSignal
<1>4. ASSUME NEW w \in Workers, WorkerStarts(w) \/ DidRunWorkerTask(w)
      PROVE  WaitsKept /\ UNCHANGED <<clientPc, terminating>>
  BY <1>4 DEF WorkerStarts, DidRunWorkerTask, WorkerIs
<1>5. ASSUME NEW w \in Workers, WorkerExits(w)
      PROVE  WaitsKept /\ UNCHANGED <<clientPc, terminating>>
  BY <1>5 DEF WorkerExits, WorkerIs, Signal, AfterSignal
<1>6. ASSUME NEW w \in Workers, GetWorkFindsTask(w)
      PROVE  WaitsKept /\ UNCHANGED <<clientPc, terminating>>
  <2>1. /\ workerPc[w] = "getWork" /\ workerPc' = [workerPc EXCEPT ![w] = "running"]
        /\ UNCHANGED <<cvWaiters, waitingThreadCount, clientPc, terminating>>
    BY <1>6 DEF GetWorkFindsTask, WorkerIs
  <2> QED
    BY <2>1
<1>7. CASE UNCHANGED vars
  BY <1>7 DEF vars
<1> QED
  BY <1>1, <1>2, <1>3, <1>4, <1>5, <1>6, <1>7 DEF Next, Posting, WorkerStep, TakesLock, GetWork

(* Every step keeps waiting_thread_count_ and the waiters right.           *)
LEMMA WaitInvInductive ==
    ASSUME TypeOK, WaitInv, [Next]_vars
    PROVE  WaitInv'
<1> USE PoolAssumption
<1> /\ workerPc \in [Workers -> {"unborn", "starting", "getWork", "waiting", "running",
                                "exiting", "exited"}]
    /\ clientPc \in [Clients -> {"idle", "flushing", "shuttingDown", "shutDown", "joining",
                                 "destroyed"}]
    /\ cvWaiters \subseteq Workers \cup Clients
  BY DEF TypeOK
<1> IsFiniteSet(Waiting) /\ Cardinality(Waiting) \in Nat
  BY FS_Subset, FS_CardinalityType DEF Waiting
<1>1. CASE WaitsKept /\ UNCHANGED <<clientPc, terminating>>
  <2>1. \A w \in Workers : workerPc'[w] = "waiting" <=> workerPc[w] = "waiting"
    BY <1>1 DEF WaitsKept, Waiting
  <2>2. waitingThreadCount' = Cardinality(Waiting')
    BY <1>1 DEF WaitsKept, WaitInv
  <2> QED
    BY <1>1, <2>1, <2>2 DEF WaitInv, WaitsKept
<1>2. ASSUME NEW w \in Workers, WorkerWakes(w)
      PROVE  WaitInv'
  <2>1. /\ workerPc[w] = "waiting" /\ w \notin cvWaiters
        /\ workerPc' = [workerPc EXCEPT ![w] = "getWork"]
        /\ waitingThreadCount' = waitingThreadCount - 1
        /\ UNCHANGED <<cvWaiters, clientPc, terminating>>
    BY <1>2 DEF WorkerWakes, WorkerIs, shutdownVars
  <2>2. Waiting' = Waiting \ {w} /\ w \in Waiting
    BY <2>1 DEF Waiting
  <2>3. Cardinality(Waiting') = Cardinality(Waiting) - 1
    BY <2>2, FS_RemoveElement
  <2>4. \A v \in Workers : v \in cvWaiters' => workerPc'[v] = "waiting"
    BY <2>1 DEF WaitInv
  <2> QED
    BY <2>1, <2>3, <2>4 DEF WaitInv
<1>3. ASSUME NEW w \in Workers, GetWorkFindsNone(w)
      PROVE  WaitInv'
  <2>1. workerPc[w] = "getWork" /\ UNCHANGED <<clientPc, terminating>>
    BY <1>3 DEF GetWorkFindsNone, shutdownVars
  <2>2. CASE terminating
    <3>1. workerPc' = [workerPc EXCEPT ![w] = "exiting"] /\ UNCHANGED <<cvWaiters, waitingThreadCount>>
      BY <1>3, <2>2 DEF GetWorkFindsNone, WorkerIs
    <3>2. Waiting' = Waiting
      BY <2>1, <3>1 DEF Waiting
    <3>3. \A v \in Workers : v \in cvWaiters' => workerPc'[v] = "waiting"
      BY <2>1, <3>1 DEF WaitInv
    <3> QED
      BY <2>1, <3>1, <3>2, <3>3 DEF WaitInv
  <2>3. CASE ~terminating
    <3>1. /\ workerPc' = [workerPc EXCEPT ![w] = "waiting"]
          /\ waitingThreadCount' = waitingThreadCount + 1
          /\ cvWaiters' \subseteq cvWaiters \cup {w}
      BY <1>3, <2>3 DEF GetWorkFindsNone, WorkerIs, AfterSignal
    <3>2. Waiting' = Waiting \cup {w} /\ w \notin Waiting
      BY <2>1, <3>1 DEF Waiting
    <3>3. Cardinality(Waiting') = Cardinality(Waiting) + 1
      BY <3>2, FS_AddElement
    <3>4. \A v \in Workers : v \in cvWaiters' => workerPc'[v] = "waiting"
      BY <2>1, <3>1 DEF WaitInv
    <3>5. \A c \in Clients : c \in cvWaiters' => c \in cvWaiters
      BY <3>1
    <3> QED
      BY <2>1, <3>1, <3>3, <3>4, <3>5 DEF WaitInv
  <2> QED
    BY <2>2, <2>3
<1>4. ASSUME NEW c \in Clients, ClientStep(c)
      PROVE  WaitInv'
  <2>1. UNCHANGED <<workerPc, waitingThreadCount>> /\ Waiting' = Waiting
    BY <1>4 DEF ClientStep, FlushCalled, FlushChecks, ShutdownCalled, ShutdownChecks, DestroyPool,
                JoinsThreads, counterVars, Waiting
  <2>2. CASE FlushCalled(c)
    <3>1. /\ clientPc[c] = "idle" /\ PoolInUse
          /\ clientPc' = [clientPc EXCEPT ![c] = "flushing"]
          /\ UNCHANGED <<cvWaiters, terminating>>
      BY <2>2 DEF FlushCalled, MayCall, ClientIs, shutdownVars
    <3> QED
      BY <2>1, <3>1 DEF WaitInv
  <2>3. CASE FlushChecks(c)
    <3>1. /\ clientPc[c] = "flushing" /\ c \notin cvWaiters /\ UNCHANGED terminating
          /\ \/ cvWaiters' = cvWaiters \cup {c} /\ UNCHANGED clientPc
             \/ UNCHANGED cvWaiters /\ clientPc' = [clientPc EXCEPT ![c] = "idle"]
      BY <2>3 DEF FlushChecks, ClientIs, shutdownVars
    <3> QED
      BY <2>1, <3>1 DEF WaitInv
  <2>4. CASE ShutdownCalled(c)
    <3>1. clientPc[c] = "idle" /\ c = Owner /\ terminating'
      BY <2>4 DEF ShutdownCalled, MayCall
    <3>2. cvWaiters' \subseteq cvWaiters
      BY <2>4 DEF ShutdownCalled, Signal, AfterSignal
    <3>3. \E pc \in {"shutDown", "shuttingDown"} : clientPc' = [clientPc EXCEPT ![c] = pc]
      BY <2>4 DEF ShutdownCalled, ClientIs
    <3> QED
      BY <2>1, <3>1, <3>2, <3>3 DEF WaitInv
  <2>5. CASE ShutdownChecks(c)
    <3>1. /\ clientPc[c] = "shuttingDown" /\ c \notin cvWaiters /\ UNCHANGED terminating
          /\ \/ cvWaiters' = cvWaiters \cup {c} /\ UNCHANGED clientPc
             \/ UNCHANGED cvWaiters /\ clientPc' = [clientPc EXCEPT ![c] = "shutDown"]
      BY <2>5 DEF ShutdownChecks, ClientIs, shutdownVars
    <3> QED
      BY <2>1, <3>1 DEF WaitInv
  <2>6. CASE DestroyPool(c) \/ JoinsThreads(c)
    <3>1. /\ clientPc[c] \in {"shutDown", "joining"} /\ UNCHANGED <<cvWaiters, terminating>>
          /\ \E pc \in {"joining", "destroyed"} : clientPc' = [clientPc EXCEPT ![c] = pc]
      BY <2>6 DEF DestroyPool, JoinsThreads, ClientIs, shutdownVars
    <3> QED
      BY <2>1, <3>1 DEF WaitInv
  <2> QED
    BY <1>4, <2>2, <2>3, <2>4, <2>5, <2>6 DEF ClientStep
<1> QED
  BY <1>1, <1>2, <1>3, <1>4, WaitSteps
-----------------------------------------------------------------------------
(* Three kinds of step keep a runnable task in sight.  A worker takes the  *)
(* lock, and will look for work ...                                        *)
LEMMA LockTaken ==
    ASSUME TypeOK, NEW w \in Workers, TakesLock(w)
    PROVE  workerPc'[w] = "getWork"
  BY DEF TypeOK, TakesLock, WorkerStarts, WorkerWakes, DidRunWorkerTask, WorkerIs

(* ... or a worker looked, and no task that could run was there ...        *)
LEMMA NoneFound ==
    ASSUME NEW w \in Workers, GetWorkFindsNone(w), ~terminating
    PROVE  ~SomeRunnable'
<1>1. /\ pendingTasks' \subseteq pendingTasks /\ UNCHANGED currentSequences
      /\ \A t \in pendingTasks : ~Takeable(t)
  BY DEF GetWorkFindsNone, Take
<1>2. \A t \in pendingTasks : ~Runnable(t)
  BY <1>1 DEF Takeable, Droppable
<1> QED
  BY <1>1, <1>2 DEF SomeRunnable, Runnable, RunnableWith

(* ... or the step neither moves a task nor sets a worker in motion.       *)
WorkersKept ==
    /\ UNCHANGED <<pendingTasks, currentSequences, threads, threadBeingCreated>>
    /\ terminating => terminating'
    /\ \A w \in Workers : workerPc[w] \in {"getWork", "waiting"} => workerPc'[w] = workerPc[w]
    /\ \A w \in Workers : workerPc'[w] = "waiting" => workerPc[w] = "waiting"

LEMMA WorkSteps ==
    ASSUME TypeOK, [Next]_vars
    PROVE  \/ WorkersKept
           \/ \E th \in Clients \cup Workers, t \in Tasks : PostTask(th, t)
           \/ \E w \in Workers : TakesLock(w) \/ GetWork(w)
<1> USE DEF WorkersKept, counterVars, shutdownVars, listVars
<1> workerPc \in [Workers -> {"unborn", "starting", "getWork", "waiting", "running",
                             "exiting", "exited"}]
  BY DEF TypeOK
<1>1. ASSUME NEW th \in Clients \cup Workers, NEW t \in Tasks, PostTaskRefused(th, t)
      PROVE  WorkersKept
  BY <1>1 DEF PostTaskRefused
<1>2. ASSUME NEW th \in Clients \cup Workers,
             CreateThread(th) \/ SignalWorkers(th) \/ SpuriousWakeup(th)
      PROVE  WorkersKept
  BY <1>2 DEF CreateThread, SignalWorkers, SpuriousWakeup, WorkerIs
<1>3. ASSUME NEW w \in Workers, WorkerExits(w)
      PROVE  WorkersKept
  BY <1>3 DEF WorkerExits, WorkerIs
<1>4. ASSUME NEW c \in Clients, ClientStep(c)
      PROVE  WorkersKept
  BY <1>4 DEF ClientStep, FlushCalled, FlushChecks, ShutdownCalled, ShutdownChecks, DestroyPool,
              JoinsThreads
<1>5. CASE UNCHANGED vars
  BY <1>5 DEF vars
<1> QED
  BY <1>1, <1>2, <1>3, <1>4, <1>5 DEF Next, Posting, WorkerStep

(* When no further thread would help, it is for one of the reasons that    *)
(* HelpInv lists.                                                          *)
LEMMA NotHelpful ==
    ASSUME TypeOK, ThreadInv, WaitInv, ~terminating, NEW P, NEW K,
           \E t \in P : RunnableWith(t, K), ~AnotherThreadHelps(P, K)
    PROVE  \/ threadBeingCreated
           \/ Waiting # {}
           \/ Cardinality(threads) = MaxThreads
<1> USE PoolAssumption
<1>1. threadBeingCreated \/ Cardinality(threads) >= MaxThreads \/ waitingThreadCount # 0
  BY WorkerStates DEF AnotherThreadHelps
<1>2. waitingThreadCount # 0 => Waiting # {}
  BY FS_EmptySet DEF WaitInv
<1> QED
  BY <1>1, <1>2, WorkerStates DEF ThreadInv

(* No step loses sight of a task that one more thread would run.           *)
LEMMA HelpInvInductive ==
    ASSUME TypeOK, ThreadInv, WaitInv, HelpInv, [Next]_vars
    PROVE  HelpInv'
<1> workerPc \in [Workers -> {"unborn", "starting", "getWork", "waiting", "running",
                             "exiting", "exited"}]
  BY DEF TypeOK
<1>1. CASE WorkersKept
  BY <1>1 DEF WorkersKept, HelpInv, SomeRunnable, Runnable, RunnableWith
<1>2. ASSUME NEW w \in Workers, TakesLock(w)
      PROVE  HelpInv'
  BY <1>2, LockTaken DEF HelpInv
<1>3. ASSUME NEW th \in Clients \cup Workers, NEW t \in Tasks, PostTask(th, t)
      PROVE  HelpInv'
  <2>1. /\ UNCHANGED <<threads, workerPc, currentSequences>> /\ ~terminating
        /\ threadBeingCreated' = TRUE \/ UNCHANGED threadBeingCreated
        /\ AnotherThreadHelps(pendingTasks', currentSequences) => threadBeingCreated' = TRUE
    BY <1>3 DEF PostTask
  <2>2. SomeRunnable' => \E u \in pendingTasks' : RunnableWith(u, currentSequences)
    BY <2>1 DEF SomeRunnable, Runnable
  <2>3. SomeRunnable' => \/ threadBeingCreated' \/ Waiting # {}
                         \/ Cardinality(threads) = MaxThreads
    BY <2>1, <2>2, NotHelpful
  <2> QED
    BY <2>1, <2>3 DEF HelpInv, Waiting
<1>4. ASSUME NEW w \in Workers, GetWorkFindsTask(w)
      PROVE  HelpInv'
  <2>1. /\ UNCHANGED <<threads, terminating>>
        /\ workerPc[w] = "getWork" /\ workerPc' = [workerPc EXCEPT ![w] = "running"]
        /\ threadBeingCreated' = TRUE \/ UNCHANGED threadBeingCreated
        /\ AnotherThreadHelps(pendingTasks', currentSequences') => threadBeingCreated' = TRUE
    BY <1>4 DEF GetWorkFindsTask, WorkerIs, shutdownVars
  <2>2. SomeRunnable' => \E u \in pendingTasks' : RunnableWith(u, currentSequences')
    BY DEF SomeRunnable, Runnable
  <2>3. (SomeRunnable' /\ ~terminating)
           => \/ threadBeingCreated' \/ Waiting # {}
              \/ Cardinality(threads) = MaxThreads
    BY <2>1, <2>2, NotHelpful
  <2>4. Waiting # {} => \E v \in Workers : workerPc'[v] = "waiting"
    BY <2>1 DEF Waiting
  <2> QED
    BY <2>1, <2>3, <2>4 DEF HelpInv
<1>5. ASSUME NEW w \in Workers, GetWorkFindsNone(w)
      PROVE  HelpInv'
  <2>1. UNCHANGED terminating
    BY <1>5 DEF GetWorkFindsNone, shutdownVars
  <2> QED
    BY <1>5, <2>1, NoneFound DEF HelpInv
<1> QED
  BY <1>1, <1>2, <1>3, <1>4, <1>5, WorkSteps DEF GetWork

(* Signal wakes a worker that waits, unless nobody waits: while no client  *)
(* flushes or shuts down, it cannot go to a client.                        *)
LEMMA SignalReachesWorker ==
    ASSUME TypeOK, WaitInv, \A c \in Clients : clientPc[c] = "idle", Signal
    PROVE  \/ \E w \in Workers : workerPc[w] = "waiting" /\ w \notin cvWaiters'
           \/ cvWaiters' = {}
<1>1. cvWaiters \subseteq Workers
  BY DEF TypeOK, WaitInv
<1>2. CASE cvWaiters = {}
  BY <1>2 DEF Signal, AfterSignal
<1>3. CASE cvWaiters # {}
  <2>1. PICK th \in cvWaiters : cvWaiters' = cvWaiters \ {th}
    BY <1>3 DEF Signal, AfterSignal
  <2> QED
    BY <1>1, <2>1 DEF WaitInv
<1> QED
  BY <1>2, <1>3

(* No step leaves a runnable task to workers that all sleep.               *)
LEMMA WakeInvInductive ==
    ASSUME TypeOK, WaitInv, WakeInv, [Next]_vars
    PROVE  WakeInv'
<1> USE PoolAssumption
<1> /\ workerPc \in [Workers -> {"unborn", "starting", "getWork", "waiting", "running",
                                "exiting", "exited"}]
    /\ clientPc \in [Clients -> {"idle", "flushing", "shuttingDown", "shutDown", "joining",
                                 "destroyed"}]
  BY DEF TypeOK
<1>1. ASSUME NEW w \in Workers, TakesLock(w)
      PROVE  WakeInv'
  BY <1>1, LockTaken DEF WakeInv
<1>2. ASSUME NEW th \in Clients \cup Workers, NEW t \in Tasks, PostTask(th, t)
      PROVE  WakeInv'
  <2>1. threadBeingCreated' \/ toSignal' # {}
    BY <1>2 DEF PostTask
  <2> QED
    BY <2>1 DEF WakeInv
<1>3. ASSUME NEW w \in Workers, GetWorkFindsTask(w)
      PROVE  WakeInv'
  <2>1. toSignal' # {}
    BY <1>3 DEF GetWorkFindsTask
  <2> QED
    BY <2>1 DEF WakeInv
<1>4. ASSUME NEW w \in Workers, GetWorkFindsNone(w)
      PROVE  WakeInv'
  <2>1. UNCHANGED <<terminating, clientPc>>
    BY <1>4 DEF GetWorkFindsNone, shutdownVars
  <2>2. terminating => ~\A c \in Clients : clientPc'[c] = "idle"
    BY <2>1 DEF WaitInv
  <2>3. ~terminating => ~SomeRunnable'
    BY <1>4, NoneFound
  <2> QED
    BY <2>2, <2>3 DEF WakeInv
<1>5. ASSUME NEW th \in Clients \cup Workers, SignalWorkers(th)
      PROVE  WakeInv'
  <2> SUFFICES ASSUME \A c \in Clients : clientPc'[c] = "idle" PROVE WakeInv'
    BY DEF WakeInv
  <2>1. UNCHANGED <<clientPc, workerPc>> /\ Signal
    BY <1>5 DEF SignalWorkers
  <2>2. \/ \E w \in Workers : workerPc'[w] = "waiting" /\ w \notin cvWaiters'
        \/ cvWaiters' = {}
    BY <2>1, SignalReachesWorker
  <2> QED
    BY <2>2 DEF WakeInv, Idle
<1>6. ASSUME NEW w \in Workers, WorkerExits(w)
      PROVE  WakeInv'
  <2> SUFFICES ASSUME \A c \in Clients : clientPc'[c] = "idle" PROVE WakeInv'
    BY DEF WakeInv
  <2>1. /\ UNCHANGED clientPc /\ Signal
        /\ workerPc[w] = "exiting" /\ workerPc' = [workerPc EXCEPT ![w] = "exited"]
    BY <1>6 DEF WorkerExits, WorkerIs
  <2>2. \/ \E v \in Workers : workerPc[v] = "waiting" /\ v \notin cvWaiters'
        \/ cvWaiters' = {}
    BY <2>1, SignalReachesWorker
  <2>3. \/ \E v \in Workers : workerPc'[v] = "waiting" /\ v \notin cvWaiters'
        \/ cvWaiters' = {}
    BY <2>1, <2>2
  <2> QED
    BY <2>3 DEF WakeInv, Idle
<1>7. ASSUME WorkersKept, UNCHANGED toSignal, cvWaiters' \subseteq cvWaiters,
             (\A c \in Clients : clientPc'[c] = "idle")
                => \A c \in Clients : clientPc[c] = "idle"
      PROVE  WakeInv'
  <2> SUFFICES ASSUME \A c \in Clients : clientPc'[c] = "idle", SomeRunnable' PROVE WakeInv'
    BY DEF WakeInv
  <2>1. (\A c \in Clients : clientPc[c] = "idle") /\ SomeRunnable
    BY <1>7 DEF WorkersKept, SomeRunnable, Runnable, RunnableWith
  <2>2. \A w \in Workers : Idle(w)' => Idle(w)
    BY <1>7 DEF Idle, WorkersKept
  <2>3. \A w \in Workers : workerPc[w] \in {"getWork", "waiting"} => workerPc'[w] = workerPc[w]
    BY <1>7 DEF WorkersKept
  <2>4. UNCHANGED <<toSignal, threadBeingCreated>>
    BY <1>7 DEF WorkersKept
  <2> QED
    BY <2>1, <2>2, <2>3, <2>4 DEF WakeInv
<1>8. ASSUME NEW th \in Clients \cup Workers,
             \/ \E t \in Tasks : PostTaskRefused(th, t)
             \/ CreateThread(th) \/ SpuriousWakeup(th)
      PROVE  WakeInv'
  <2>1. WorkersKept
    <3>1. /\ UNCHANGED <<pendingTasks, currentSequences, threads, threadBeingCreated, terminating>>
          /\ \/ UNCHANGED workerPc
             \/ \E w \in Workers : workerPc[w] = "unborn" /\ workerPc' = [workerPc EXCEPT ![w] = "starting"]
      BY <1>8 DEF PostTaskRefused, CreateThread, SpuriousWakeup, WorkerIs, listVars, shutdownVars
    <3> QED
      BY <3>1 DEF WorkersKept
  <2>2. UNCHANGED <<toSignal, clientPc>> /\ cvWaiters' \subseteq cvWaiters
    BY <1>8 DEF PostTaskRefused, CreateThread, SpuriousWakeup
  <2> QED
    BY <1>7, <2>1, <2>2
<1>9. ASSUME NEW c \in Clients, ClientStep(c)
      PROVE  WakeInv'
  <2>1. clientPc'[c] # "idle" \/ SomeRunnable' = FALSE
    <3>1. clientPc'[c] # "idle" \/ FlushChecks(c)
      BY <1>9 DEF ClientStep, FlushCalled, ShutdownCalled, ShutdownChecks, DestroyPool,
                  JoinsThreads, ClientIs
    <3>2. ASSUME FlushChecks(c), clientPc'[c] = "idle"
          PROVE  pendingTasks' = {}
      BY <3>2 DEF FlushChecks, ClientIs, listVars
    <3> QED
      BY <3>1, <3>2 DEF SomeRunnable
  <2> QED
    BY <2>1 DEF WakeInv
<1>10. CASE UNCHANGED vars
  <2>1. WorkersKept /\ UNCHANGED <<toSignal, clientPc, cvWaiters>>
    BY <1>10 DEF vars, WorkersKept, listVars, shutdownVars
  <2> QED
    BY <1>7, <2>1
<1> QED
  BY <1>1, <1>2, <1>3, <1>4, <1>5, <1>6, <1>8, <1>9, <1>10 DEF Next, Posting, WorkerStep, GetWork
-----------------------------------------------------------------------------
(* The four parts hold together in every state of the pool.                *)
LEMMA ThreadsInvariance == Spec => [](TypeOK /\ ThreadsInv)
<1>1. Init => TypeOK /\ ThreadsInv
  <2> SUFFICES ASSUME Init PROVE TypeOK /\ ThreadsInv
    OBVIOUS
  <2> USE PoolAssumption
  <2>1. TypeOK
    BY InitTypeOK
  <2>2. ThreadInv
    BY FS_EmptySet DEF Init, ThreadInv, Unstarted
  <2>3. WaitInv
    <3>1. Waiting = {}
      BY DEF Init, Waiting
    <3> QED
      BY <3>1, FS_EmptySet DEF Init, WaitInv
  <2>4. HelpInv /\ WakeInv
    BY DEF Init, HelpInv, WakeInv, SomeRunnable
  <2> QED
    BY <2>1, <2>2, <2>3, <2>4 DEF ThreadsInv
<1>2. (TypeOK /\ ThreadsInv) /\ [Next]_vars => (TypeOK /\ ThreadsInv)'
  BY TypeOKInductive, ThreadInvInductive, WaitInvInductive, HelpInvInductive, WakeInvInductive
     DEF ThreadsInv
<1> QED
  BY <1>1, <1>2, PTL DEF Spec

(* The tasks that run and block shutdown are as many as the workers that   *)
(* run them.                                                               *)
LEMMA RunnersOfBlocking ==
    ASSUME IInv
    PROVE  Cardinality({w \in Workers : Running(w) /\ Blocks(workerTask[w])})
             = Cardinality(BlockingTasks("running"))
<1> DEFINE S == {w \in Workers : Running(w) /\ Blocks(workerTask[w])}
           T == BlockingTasks("running")
           f == [w \in S |-> workerTask[w]]
<1> IsFiniteSet(S)
  BY PoolAssumption, FS_Subset
<1>1. \A w \in S : workerTask[w] # NoTask /\ workerTask[w] \in Tasks
  BY DEF IInv, TypeOK, OwnerInv, Running
<1>2. \A w \in S : f[w] \in T
  BY <1>1 DEF IInv, OwnerInv, BlockingTasks
<1>3. \A t \in T : \E w \in S : f[w] = t
  <2> SUFFICES ASSUME NEW t \in T PROVE \E w \in S : f[w] = t
    OBVIOUS
  <2>1. t \in Tasks /\ Blocks(t) /\ status[t] = "running"
    BY DEF BlockingTasks
  <2>2. PICK w \in Workers : workerTask[w] = t
    BY <2>1 DEF IInv, OwnerInv
  <2>3. t # NoTask
    BY <2>1, PoolAssumption
  <2>4. w \in S
    BY <2>1, <2>2, <2>3 DEF IInv, OwnerInv, Running
  <2> QED
    BY <2>2, <2>4
<1>4. \A v, w \in S : f[v] = f[w] => v = w
  BY <1>1 DEF IInv, OwnerInv
<1>5. f \in Bijection(S, T)
  BY <1>2, <1>3, <1>4 DEF Bijection, Injection, Surjection, IsInjective
<1>6. ExistsBijection(S, T)
  BY <1>5 DEF ExistsBijection
<1> HIDE DEF S, T
<1>7. Cardinality(T) = Cardinality(S)
  BY <1>6, FS_Bijection
<1> QED
  BY <1>7 DEF S, T

(* The three counters that decide on new threads, Flush and Shutdown count *)
(* what they claim to, in every state of a pool of any size.               *)
THEOREM CountersAgreeCorrect == Spec => []CountersAgree
<1>1. IInv /\ ThreadsInv => CountersAgree
  <2> SUFFICES ASSUME IInv, ThreadsInv PROVE CountersAgree
    OBVIOUS
  <2>1. {t \in pendingTasks : Blocks(t)} = BlockingTasks("pending")
    BY DEF IInv, ListInv, BlockingTasks
  <2>2. waitingThreadCount = Cardinality({w \in Workers : workerPc[w] = "waiting"})
    BY DEF ThreadsInv, WaitInv, Waiting
  <2>3. /\ blockingShutdownThreadCount = Cardinality(BlockingTasks("running"))
        /\ blockingShutdownPendingTaskCount = Cardinality(BlockingTasks("pending"))
    BY DEF IInv, CountInv
  <2> QED
    BY <2>1, <2>2, <2>3, RunnersOfBlocking DEF CountersAgree
<1> QED
  BY <1>1, Invariance, ThreadsInvariance, PTL

(* The pool never has more than max_threads_ threads, counting the one     *)
(* that is being created, and when Shutdown has returned each of them is   *)
(* in threads_, where ~Inner joins it.                                     *)
THEOREM ThreadsAccountedCorrect == Spec => []ThreadsAccounted
<1>1. IInv /\ ThreadsInv => ThreadsAccounted
  <2> SUFFICES ASSUME IInv, ThreadsInv PROVE ThreadsAccounted
    OBVIOUS
  <2> TypeOK /\ ThreadInv /\ ShutdownInv
    BY DEF IInv, ThreadsInv
  <2> USE PoolAssumption, WorkerStates DEF Unstarted
  <2> DEFINE Born == {w \in Workers : workerPc[w] # "unborn"}
  <2>1. Cardinality(Born) <= MaxThreads
    <3>1. CASE \A w \in Workers : workerPc[w] # "starting"
      <4>1. Born = threads
        BY <3>1 DEF ThreadInv, TypeOK
      <4> QED
        BY <4>1 DEF ThreadInv
    <3>2. CASE \E w \in Workers : workerPc[w] = "starting"
      <4>1. PICK w \in Workers : workerPc[w] = "starting"
        BY <3>2
      <4>2. Born = threads \cup {w} /\ w \notin threads /\ Cardinality(threads) < MaxThreads
        BY <4>1 DEF ThreadInv, TypeOK
      <4>3. Cardinality(threads \cup {w}) = Cardinality(threads) + 1
        BY <4>2, FS_AddElement
      <4> HIDE DEF Born
      <4> QED
        BY <4>2, <4>3
    <3> QED
      BY <3>1, <3>2
  <2>2. ShutDown => \A w \in Workers : workerPc[w] # "unborn" => w \in threads
    BY DEF ShutdownInv, ThreadInv
  <2> QED
    BY <2>1, <2>2 DEF ThreadsAccounted
<1> QED
  BY <1>1, Invariance, ThreadsInvariance, PTL

(* While nobody flushes or shuts down, a task that could run is never left *)
(* to workers that sleep: somebody is to look for it, to signal or to      *)
(* create a thread, or every worker the pool may have is busy.             *)
THEOREM NoForgottenTaskCorrect == Spec => []NoForgottenTask
<1>1. TypeOK /\ ThreadsInv => NoForgottenTask
  <2> SUFFICES ASSUME TypeOK, ThreadsInv, \A c \in Clients : clientPc[c] = "idle", SomeRunnable,
                      toCreate \cup toSignal = {}, ~threadBeingCreated,
                      \A w \in Workers : workerPc[w] # "getWork",
                      \A w \in Workers : workerPc[w] = "waiting" => Idle(w)
               PROVE  Cardinality(threads) = MaxThreads /\ \A w \in threads : ~Idle(w)
    BY DEF NoForgottenTask, SomeRunnable
  <2>1. \A w \in Workers : ~Idle(w)
    BY DEF ThreadsInv, WakeInv
  <2>2. ~terminating
    BY PoolAssumption DEF ThreadsInv, WaitInv
  <2>3. \A w \in Workers : workerPc[w] # "waiting"
    BY <2>1
  <2>4. Cardinality(threads) = MaxThreads
    BY <2>2, <2>3 DEF ThreadsInv, HelpInv
  <2> QED
    BY <2>1, <2>4 DEF TypeOK
<1> QED
  BY <1>1, ThreadsInvariance, PTL
=============================================================================
