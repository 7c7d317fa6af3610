-------------------------- MODULE SequencedWorkerPool --------------------------
(***************************************************************************)
(* base/threading/sequenced_worker_pool.{h,cc}: a pool of lazily created   *)
(* worker threads that runs tasks, those with the same sequence token one  *)
(* at a time and in order, and that on Shutdown runs the BLOCK_SHUTDOWN    *)
(* tasks and drops the others.  One lock protects the state of the pool    *)
(* and one condition variable serves the idle workers, Flush and Shutdown. *)
(*                                                                         *)
(* What a thread does while it holds the lock and calls out to nothing is  *)
(* one action; lock names the worker between taking the lock and GetWork.  *)
(* The list of pending tasks, which is only ever pushed at its back and    *)
(* erased from, is the set of its tasks and the position of each.          *)
(***************************************************************************)
EXTENDS Integers, FiniteSets

CONSTANTS
    Tasks,                   \* the tasks ever posted, each at most once
    Token,                   \* Token[t]: its sequence token, or NoToken
    Behavior,                \* Behavior[t]: its WorkerShutdown
    NoToken,                 \* the sequence token id 0
    Workers,                 \* the Worker objects the pool may create
    MaxThreads,              \* max_threads_
    Clients,                 \* the other threads
    Owner,                   \* the client that shuts the pool down
    Flushers,                \* the clients that call FlushForTesting
    SpuriousWakeups,         \* may the condition variable wake a thread for no reason?
    NoTask,
    NoThread

WorkerShutdown == {"CONTINUE", "SKIP", "BLOCK"}

ASSUME PoolAssumption ==
    /\ Behavior \in [Tasks -> WorkerShutdown]
    /\ DOMAIN Token = Tasks
    /\ Owner \in Clients /\ Flushers \subseteq Clients
    /\ NoTask \notin Tasks /\ NoThread \notin Workers
    /\ IsFiniteSet(Tasks) /\ IsFiniteSet(Workers)
    /\ Workers \cap Clients = {}
    /\ MaxThreads \in Nat \ {0}
    /\ SpuriousWakeups \in BOOLEAN

VARIABLES
    lock,                    \* the worker that holds lock_ between two actions
    cvWaiters,               \* the threads that wait on cond_var_
    pendingTasks,            \* pending_tasks_, the set of its tasks
    position,                \* ... and the order in which they were pushed; 0: never
    accepted,                \* the tasks pushed so far
    threads,                 \* threads_
    threadBeingCreated,      \* thread_being_created_
    waitingThreadCount,      \* waiting_thread_count_
    blockingShutdownThreadCount,       \* blocking_shutdown_thread_count_
    blockingShutdownPendingTaskCount,  \* blocking_shutdown_pending_task_count_
    currentSequences,        \* current_sequences_
    terminating,             \* terminating_
    shutdownCalled,          \* shutdown_called_
    workerPc,                \* where each worker is in ThreadLoop
    workerTask,              \* the task it took
    toCreate,                \* the threads that left the lock and owe a new thread ...
    toSignal,                \* ... or owe cond_var_ a Signal
    clientPc,                \* where each client is in Flush, Shutdown, ~Inner
    status                   \* what has become of each task

listVars == <<pendingTasks, position, accepted>>
counterVars == <<waitingThreadCount, blockingShutdownThreadCount,
                 blockingShutdownPendingTaskCount>>
shutdownVars == <<terminating, shutdownCalled>>
vars == <<lock, cvWaiters, listVars, threads, threadBeingCreated, counterVars,
          currentSequences, shutdownVars, workerPc, workerTask, toCreate, toSignal,
          clientPc, status>>
-----------------------------------------------------------------------------
Blocks(t) == Behavior[t] = "BLOCK"
(* Slip: the count of blocking tasks without its test.                     *)
CountAlways(condition) == 1
Count(condition) == IF condition THEN 1 ELSE 0
(* Slip: current_sequences_ without the test of the sequence token.        *)
TokensOfAny(t) == {Token[t]}
TokensOf(t) == {Token[t]} \ {NoToken}

WorkerIs(w, pc) == workerPc' = [workerPc EXCEPT ![w] = pc]
ClientIs(c, pc) == clientPc' = [clientPc EXCEPT ![c] = pc]

(* cond_var_.Signal(): what it may leave of the waiters; it wakes any one. *)
AfterSignal == IF cvWaiters = {} THEN {{}} ELSE {cvWaiters \ {th} : th \in cvWaiters}
Signal == cvWaiters' \in AfterSignal

(* IsSequenceTokenRunnable().                                              *)
(* Slip: a token that is in use is not looked at.                          *)
RunnableAlways(t, sequences) == TRUE
RunnableWith(t, sequences) == TokensOf(t) \cap sequences = {}
Runnable(t) == RunnableWith(t, currentSequences)

(* PrepareToStartAdditionalThreadIfHelpful(): is another thread helpful,   *)
(* with these pending tasks and sequences?                                 *)
(* Slip: a second thread is never helpful.                                 *)
OnlyFirstThreadHelps(pending, sequences) ==
    /\ ~terminating /\ ~threadBeingCreated
    /\ threads = {}
    /\ \E t \in pending : RunnableWith(t, sequences)
AnotherThreadHelps(pending, sequences) ==
    /\ ~terminating /\ ~threadBeingCreated
    /\ Cardinality(threads) < MaxThreads
    /\ waitingThreadCount = 0
    /\ \E t \in pending : RunnableWith(t, sequences)

(* CanShutdown().                                                          *)
(* Slips: it overlooks the thread that starts, or the tasks not yet begun. *)
CanShutdownDuringStart == /\ blockingShutdownThreadCount = 0
                          /\ blockingShutdownPendingTaskCount = 0
CanShutdownEarly == ~threadBeingCreated /\ blockingShutdownThreadCount = 0
CanShutdown == /\ ~threadBeingCreated
               /\ blockingShutdownThreadCount = 0
               /\ blockingShutdownPendingTaskCount = 0

PoolInUse == clientPc[Owner] \notin {"joining", "destroyed"}
-----------------------------------------------------------------------------
Init ==
    /\ lock = NoThread
    /\ cvWaiters = {}
    /\ pendingTasks = {}
    /\ position = [t \in Tasks |-> 0]
    /\ accepted = 0
    /\ threads = {}
    /\ threadBeingCreated = FALSE
    /\ waitingThreadCount = 0
    /\ blockingShutdownThreadCount = 0
    /\ blockingShutdownPendingTaskCount = 0
    /\ currentSequences = {}
    /\ terminating = FALSE
    /\ shutdownCalled = FALSE
    /\ workerPc = [w \in Workers |-> "unborn"]
    /\ workerTask = [w \in Workers |-> NoTask]
    /\ toCreate = {}
    /\ toSignal = {}
    /\ clientPc = [c \in Clients |-> "idle"]
    /\ status = [t \in Tasks |-> "new"]

(* PostTask(), by a client or by a task that runs on a worker: what it     *)
(* does under the lock.                                                    *)
MayCall(th) ==
    /\ th \notin toCreate \cup toSignal
    /\ \/ th \in Clients /\ clientPc[th] = "idle" /\ PoolInUse
       \/ th \in Workers /\ workerPc[th] = "running"

PostTaskRefused(th, t) ==
    /\ MayCall(th) /\ lock = NoThread
    /\ status[t] = "new"
    /\ terminating
    /\ status' = [status EXCEPT ![t] = "refused"]
    /\ UNCHANGED <<lock, cvWaiters, listVars, threads, threadBeingCreated, counterVars,
                   currentSequences, shutdownVars, workerPc, workerTask, toCreate, toSignal,
                   clientPc>>

PostTask(th, t) ==
    /\ MayCall(th) /\ lock = NoThread
    /\ status[t] = "new"
    /\ ~terminating
    /\ status' = [status EXCEPT ![t] = "pending"]
    /\ pendingTasks' = pendingTasks \cup {t}
    /\ accepted' = accepted + 1
    /\ position' = [position EXCEPT ![t] = accepted']
    /\ blockingShutdownPendingTaskCount' = blockingShutdownPendingTaskCount + Count(Blocks(t))
    /\ IF AnotherThreadHelps(pendingTasks', currentSequences)
       THEN /\ threadBeingCreated' = TRUE
            /\ toCreate' = toCreate \cup {th}
            /\ UNCHANGED toSignal
       ELSE /\ toSignal' = toSignal \cup {th}
            /\ UNCHANGED <<threadBeingCreated, toCreate>>
    /\ UNCHANGED <<lock, cvWaiters, threads, waitingThreadCount,
                   blockingShutdownThreadCount, currentSequences, shutdownVars, workerPc,
                   workerTask, clientPc>>

(* ... and after it: create the thread, or signal.                         *)
CreateThread(th) ==
    /\ th \in toCreate \ toSignal
    /\ toCreate' = toCreate \ {th}
    /\ \E w \in Workers : workerPc[w] = "unborn" /\ WorkerIs(w, "starting")
    /\ UNCHANGED <<lock, cvWaiters, listVars, threads, threadBeingCreated, counterVars,
                   currentSequences, shutdownVars, workerTask, toSignal, clientPc, status>>

(* Slip: the Signal that is owed is not given.                             *)
SignalWorkersForgets(th) ==
    /\ th \in toSignal
    /\ toSignal' = toSignal \ {th}
    /\ UNCHANGED <<lock, cvWaiters, listVars, threads, threadBeingCreated, counterVars,
                   currentSequences, shutdownVars, workerPc, workerTask, toCreate, clientPc,
                   status>>
SignalWorkers(th) ==
    /\ th \in toSignal
    /\ toSignal' = toSignal \ {th}
    /\ Signal
    /\ UNCHANGED <<lock, listVars, threads, threadBeingCreated, counterVars,
                   currentSequences, shutdownVars, workerPc, workerTask, toCreate, clientPc,
                   status>>
-----------------------------------------------------------------------------
(* ThreadLoop().  A worker takes the lock: when it starts, when its wait   *)
(* ends, and when its task has run (DidRunWorkerTask).                     *)
WorkerStarts(w) ==
    /\ workerPc[w] = "starting" /\ lock = NoThread
    /\ lock' = w
    /\ threadBeingCreated' = FALSE
    /\ threads' = threads \cup {w}
    /\ WorkerIs(w, "getWork")
    /\ UNCHANGED <<cvWaiters, listVars, counterVars, currentSequences, shutdownVars,
                   workerTask, toCreate, toSignal, clientPc, status>>

WorkerWakes(w) ==
    /\ workerPc[w] = "waiting" /\ w \notin cvWaiters /\ lock = NoThread
    /\ lock' = w
    /\ waitingThreadCount' = waitingThreadCount - 1
    /\ WorkerIs(w, "getWork")
    /\ UNCHANGED <<cvWaiters, listVars, threads, threadBeingCreated,
                   blockingShutdownThreadCount, blockingShutdownPendingTaskCount,
                   currentSequences, shutdownVars, workerTask, toCreate, toSignal, clientPc,
                   status>>

DidRunWorkerTask(w) ==
    LET t == workerTask[w]
    IN  /\ workerPc[w] = "running" /\ w \notin toCreate \cup toSignal
        /\ lock = NoThread
        /\ lock' = w
        /\ blockingShutdownThreadCount' = blockingShutdownThreadCount - Count(Blocks(t))
        /\ currentSequences' = currentSequences \ TokensOf(t)
        /\ workerTask' = [workerTask EXCEPT ![w] = NoTask]
        /\ status' = [status EXCEPT ![t] = "done"]
        /\ WorkerIs(w, "getWork")
        /\ UNCHANGED <<cvWaiters, listVars, threads, threadBeingCreated, waitingThreadCount,
                       blockingShutdownPendingTaskCount, shutdownVars, toCreate, toSignal,
                       clientPc>>

(* GetWork() walks the list in order and passes over what is not runnable. *)
(* While terminating it drops what does not block shutdown.                *)
(* Slips: GetWork drops nothing, or walks the list from its back.          *)
DroppableNever(t) == FALSE
AheadFromBack(t) == {u \in pendingTasks : position[u] > position[t]}
Droppable(t) == Runnable(t) /\ terminating /\ ~Blocks(t)
Takeable(t) == Runnable(t) /\ ~Droppable(t)
Ahead(t) == {u \in pendingTasks : position[u] < position[t]}

Take(dropped, taken) ==
    /\ pendingTasks' = pendingTasks \ (dropped \cup taken)
    /\ status' = [t \in Tasks |-> IF t \in taken THEN "running"
                                  ELSE IF t \in dropped THEN "deleted" ELSE status[t]]
    /\ UNCHANGED <<position, accepted>>

(* It found a task: WillRunWorkerTask(), and out of the lock.  The worker  *)
(* then signals, creates the thread if one helps and runs the task.        *)
GetWorkFindsTask(w) ==
    /\ workerPc[w] = "getWork" /\ lock = w
    /\ \E t \in pendingTasks :
         /\ Takeable(t)
         /\ \A u \in Ahead(t) : ~Takeable(u)
         /\ Take({u \in Ahead(t) : Droppable(u)}, {t})
         /\ blockingShutdownPendingTaskCount' =
                blockingShutdownPendingTaskCount - Count(Blocks(t))
         /\ currentSequences' = currentSequences \cup TokensOf(t)
         /\ blockingShutdownThreadCount' = blockingShutdownThreadCount + Count(Blocks(t))
         /\ workerTask' = [workerTask EXCEPT ![w] = t]
    /\ IF AnotherThreadHelps(pendingTasks', currentSequences')
       THEN threadBeingCreated' = TRUE /\ toCreate' = toCreate \cup {w}
       ELSE UNCHANGED <<threadBeingCreated, toCreate>>
    /\ toSignal' = toSignal \cup {w}
    /\ WorkerIs(w, "running")
    /\ lock' = NoThread
    /\ UNCHANGED <<cvWaiters, threads, waitingThreadCount, shutdownVars, clientPc>>

(* It found none: the worker leaves the loop when terminating, otherwise   *)
(* it signals and waits.                                                   *)
GetWorkFindsNone(w) ==
    /\ workerPc[w] = "getWork" /\ lock = w
    /\ \A t \in pendingTasks : ~Takeable(t)
    /\ Take({t \in pendingTasks : Droppable(t)}, {})
    /\ lock' = NoThread
    /\ IF terminating
       THEN /\ WorkerIs(w, "exiting")
            /\ UNCHANGED <<cvWaiters, waitingThreadCount>>
       ELSE /\ WorkerIs(w, "waiting")
            /\ waitingThreadCount' = waitingThreadCount + 1
            /\ \E left \in AfterSignal : cvWaiters' = left \cup {w}
    /\ UNCHANGED <<threads, threadBeingCreated, blockingShutdownThreadCount,
                   blockingShutdownPendingTaskCount, currentSequences, shutdownVars,
                   workerTask, toCreate, toSignal, clientPc>>

(* The last thing a worker does is wake the next one.                      *)
(* Slip: it just leaves.                                                   *)
WorkerExitsSilently(w) ==
    /\ workerPc[w] = "exiting"
    /\ WorkerIs(w, "exited")
    /\ UNCHANGED <<lock, cvWaiters, listVars, threads, threadBeingCreated, counterVars,
                   currentSequences, shutdownVars, workerTask, toCreate, toSignal, clientPc,
                   status>>
WorkerExits(w) ==
    /\ workerPc[w] = "exiting"
    /\ Signal
    /\ WorkerIs(w, "exited")
    /\ UNCHANGED <<lock, listVars, threads, threadBeingCreated, counterVars,
                   currentSequences, shutdownVars, workerTask, toCreate, toSignal, clientPc,
                   status>>

(* The condition variables of Windows may wake a thread for no reason.     *)
SpuriousWakeup(th) ==
    /\ SpuriousWakeups
    /\ th \in cvWaiters
    /\ cvWaiters' = cvWaiters \ {th}
    /\ UNCHANGED <<lock, listVars, threads, threadBeingCreated, counterVars,
                   currentSequences, shutdownVars, workerPc, workerTask, toCreate, toSignal,
                   clientPc, status>>
-----------------------------------------------------------------------------
(* Flush(): wait until nothing is pending and all workers wait, then       *)
(* signal.                                                                 *)
FlushCalled(c) ==
    /\ c \in Flushers /\ MayCall(c)
    /\ ClientIs(c, "flushing")
    /\ UNCHANGED <<lock, cvWaiters, listVars, threads, threadBeingCreated, counterVars,
                   currentSequences, shutdownVars, workerPc, workerTask, toCreate, toSignal,
                   status>>

FlushChecks(c) ==
    /\ clientPc[c] = "flushing" /\ c \notin cvWaiters /\ lock = NoThread
    /\ IF pendingTasks # {} \/ waitingThreadCount < Cardinality(threads)
       THEN /\ cvWaiters' = cvWaiters \cup {c}
            /\ UNCHANGED <<clientPc, toSignal>>
       ELSE /\ ClientIs(c, "idle")
            /\ toSignal' = toSignal \cup {c}
            /\ UNCHANGED cvWaiters
    /\ UNCHANGED <<lock, listVars, threads, threadBeingCreated, counterVars,
                   currentSequences, shutdownVars, workerPc, workerTask, toCreate, status>>

(* Slip: Shutdown without the Signal that tickles the threads.             *)
ShutdownCalledSilently(c) ==
    /\ c = Owner /\ MayCall(c) /\ lock = NoThread
    /\ ~shutdownCalled
    /\ shutdownCalled' = TRUE
    /\ terminating' = TRUE
    /\ ClientIs(c, IF CanShutdown THEN "shutDown" ELSE "shuttingDown")
    /\ UNCHANGED <<lock, cvWaiters, listVars, threads, threadBeingCreated, counterVars,
                   currentSequences, workerPc, workerTask, toCreate, toSignal, status>>

(* Shutdown(): refuse new tasks and tickle the threads; return at once if  *)
(* nothing blocks shutdown ...                                             *)
ShutdownCalled(c) ==
    /\ c = Owner /\ MayCall(c) /\ lock = NoThread
    /\ ~shutdownCalled
    /\ shutdownCalled' = TRUE
    /\ terminating' = TRUE
    /\ Signal
    /\ ClientIs(c, IF CanShutdown THEN "shutDown" ELSE "shuttingDown")
    /\ UNCHANGED <<lock, listVars, threads, threadBeingCreated, counterVars,
                   currentSequences, workerPc, workerTask, toCreate, toSignal, status>>

(* ... or wait until nothing does.                                         *)
ShutdownChecks(c) ==
    /\ clientPc[c] = "shuttingDown" /\ c \notin cvWaiters /\ lock = NoThread
    /\ IF CanShutdown
       THEN ClientIs(c, "shutDown") /\ UNCHANGED cvWaiters
       ELSE cvWaiters' = cvWaiters \cup {c} /\ UNCHANGED clientPc
    /\ UNCHANGED <<lock, listVars, threads, threadBeingCreated, counterVars,
                   currentSequences, shutdownVars, workerPc, workerTask, toCreate, toSignal,
                   status>>

(* ~Inner(), once no other client uses the pool: join the threads.         *)
DestroyPool(c) ==
    /\ clientPc[c] = "shutDown"
    /\ \A d \in Clients \ {c} : clientPc[d] = "idle" /\ d \notin toSignal \cup toCreate
    /\ ClientIs(c, "joining")
    /\ UNCHANGED <<lock, cvWaiters, listVars, threads, threadBeingCreated, counterVars,
                   currentSequences, shutdownVars, workerPc, workerTask, toCreate, toSignal,
                   status>>

JoinsThreads(c) ==
    /\ clientPc[c] = "joining"
    /\ \A w \in threads : workerPc[w] = "exited"
    /\ ClientIs(c, "destroyed")
    /\ UNCHANGED <<lock, cvWaiters, listVars, threads, threadBeingCreated, counterVars,
                   currentSequences, shutdownVars, workerPc, workerTask, toCreate, toSignal,
                   status>>
-----------------------------------------------------------------------------
Posting(th) == \E t \in Tasks : PostTask(th, t) \/ PostTaskRefused(th, t)

TakesLock(w) == WorkerStarts(w) \/ WorkerWakes(w) \/ DidRunWorkerTask(w)

GetWork(w) == GetWorkFindsTask(w) \/ GetWorkFindsNone(w)

WorkerStep(w) == TakesLock(w) \/ GetWork(w) \/ WorkerExits(w)

ClientStep(c) == \/ FlushCalled(c) \/ FlushChecks(c)
                 \/ ShutdownCalled(c) \/ ShutdownChecks(c)
                 \/ DestroyPool(c) \/ JoinsThreads(c)

Next == \/ \E th \in Clients \cup Workers :
             Posting(th) \/ CreateThread(th) \/ SignalWorkers(th) \/ SpuriousWakeup(th)
        \/ \E w \in Workers : WorkerStep(w)
        \/ \E c \in Clients : ClientStep(c)

Spec == Init /\ [][Next]_vars

(* Threads get the processor, the lock starves none of them, and tasks     *)
(* return.  Nothing has to post, to call Flush or to shut the pool down.   *)
Fairness ==
    /\ \A w \in Workers : /\ SF_vars(TakesLock(w))
                          /\ WF_vars(GetWork(w))
                          /\ WF_vars(WorkerExits(w))
    /\ \A th \in Clients \cup Workers : WF_vars(CreateThread(th)) /\ WF_vars(SignalWorkers(th))
    /\ \A c \in Clients : /\ SF_vars(FlushChecks(c))
                          /\ SF_vars(ShutdownChecks(c))
                          /\ WF_vars(JoinsThreads(c))

FairSpec == Spec /\ Fairness
-----------------------------------------------------------------------------
(* Every variable keeps its type.                                          *)
TypeOK ==
    /\ lock \in Workers \cup {NoThread}
    /\ cvWaiters \subseteq Workers \cup Clients
    /\ pendingTasks \subseteq Tasks
    /\ position \in [Tasks -> Nat] /\ accepted \in Nat
    /\ threads \subseteq Workers
    /\ threadBeingCreated \in BOOLEAN
    /\ waitingThreadCount \in Int
    /\ blockingShutdownThreadCount \in Int
    /\ blockingShutdownPendingTaskCount \in Int
    /\ currentSequences \subseteq {Token[t] : t \in Tasks} \ {NoToken}
    /\ terminating \in BOOLEAN /\ shutdownCalled \in BOOLEAN
    /\ workerPc \in [Workers -> {"unborn", "starting", "getWork", "waiting", "running",
                                 "exiting", "exited"}]
    /\ workerTask \in [Workers -> Tasks \cup {NoTask}]
    /\ toCreate \subseteq Workers \cup Clients /\ toSignal \subseteq Workers \cup Clients
    /\ clientPc \in [Clients -> {"idle", "flushing", "shuttingDown", "shutDown", "joining",
                                 "destroyed"}]
    /\ status \in [Tasks -> {"new", "refused", "pending", "running", "done", "deleted"}]

(* The header guarantees that tasks with the same sequence token execute   *)
(* in order: one starts only when all those posted before it have run to   *)
(* their end or were dropped, on whichever workers.                        *)
PostedBefore(t, u) == 0 < position[t] /\ position[t] < position[u]
SameSequence(t, u) == Token[t] = Token[u] /\ Token[t] # NoToken

SequenceOrder ==
    \A t, u \in Tasks :
        (PostedBefore(t, u) /\ SameSequence(t, u) /\ status[u] \in {"running", "done"})
            => status[t] \in {"done", "deleted"}

(* Two workers never run tasks of one sequence at the same time, and the   *)
(* pool's set of sequences is exactly what its workers run.                *)
Running(w) == workerPc[w] = "running"

SequenceExclusion ==
    /\ \A v, w \in Workers : (v # w /\ Running(v) /\ Running(w))
                                => ~SameSequence(workerTask[v], workerTask[w])
    /\ currentSequences = UNION {TokensOf(workerTask[w]) : w \in {v \in Workers : Running(v)}}

(* The three counters that decide on new threads, Flush and Shutdown are   *)
(* what they claim to count, through every interleaving of the workers.    *)
CountersAgree ==
    /\ waitingThreadCount = Cardinality({w \in Workers : workerPc[w] = "waiting"})
    /\ blockingShutdownThreadCount =
         Cardinality({w \in Workers : Running(w) /\ Blocks(workerTask[w])})
    /\ blockingShutdownPendingTaskCount =
         Cardinality({t \in pendingTasks : Blocks(t)})

(* No thread escapes the accounting: there are never more than MaxThreads, *)
(* and none is still starting, unknown to threads_, once Shutdown returned *)
(* and the pool may be destroyed.                                          *)
ShutDown == clientPc[Owner] \in {"shutDown", "joining", "destroyed"}

ThreadsAccounted ==
    /\ Cardinality({w \in Workers : workerPc[w] # "unborn"}) <= MaxThreads
    /\ ShutDown => \A w \in Workers : workerPc[w] # "unborn" => w \in threads

(* BLOCK_SHUTDOWN: when Shutdown returns, every such task the pool         *)
(* accepted has run to its end.                                            *)
BlockingTasksDone ==
    ShutDown => \A t \in Tasks : Blocks(t) => status[t] \in {"new", "refused", "done"}

(* A task that does not block shutdown never starts once the pool is       *)
(* terminating, and one that does is never dropped.                        *)
NoStartAfterShutdown ==
    [][ \A t \in Tasks : /\ terminating /\ status'[t] = "running" /\ status[t] = "pending"
                              => Blocks(t)
                         /\ status'[t] = "deleted" => ~Blocks(t) ]_vars

(* While nobody flushes or shuts down, no runnable task is forgotten: some *)
(* worker is on its way to look for work, or somebody owes a Signal or a   *)
(* thread, or the pool has all the workers it may have and all are busy.   *)
Idle(w) == workerPc[w] = "waiting" /\ w \in cvWaiters

NoForgottenTask ==
    ( /\ \A c \in Clients : clientPc[c] = "idle"
      /\ \E t \in pendingTasks : Runnable(t) )
        => \/ toCreate \cup toSignal # {}
           \/ threadBeingCreated
           \/ \E w \in Workers : workerPc[w] = "getWork"
                                   \/ (workerPc[w] = "waiting" /\ ~Idle(w))
           \/ Cardinality(threads) = MaxThreads /\ \A w \in threads : ~Idle(w)

(* A task that blocks shutdown and was accepted runs to its end, whatever  *)
(* happens after.                                                          *)
BlockingTaskRuns == \A t \in Tasks : (status[t] = "pending" /\ Blocks(t)) ~> (status[t] = "done")

(* Shutdown returns.                                                       *)
ShutdownReturns == shutdownCalled ~> ShutDown

(* The destructor's Join of every worker returns: the Signals of Shutdown  *)
(* and of the exiting workers reach every waiting worker.                  *)
JoinReturns == (clientPc[Owner] = "joining") ~> (clientPc[Owner] = "destroyed")

(* sequenced_worker_pool.h says of SKIP_ON_SHUTDOWN that tasks already in  *)
(* progress will be completed: none runs on when Shutdown has returned.    *)
SkipTasksCompleted ==
    ShutDown => \A t \in Tasks : Behavior[t] = "SKIP" => status[t] # "running"

(* sequenced_worker_pool.h says that Flush returns when there is no more   *)
(* work in the queue, whoever posts meanwhile; with the tasks bounded, a   *)
(* call of Flush before Shutdown returns.                                  *)
FlushReturns ==
    \A c \in Clients : (clientPc[c] = "flushing") ~> (clientPc[c] = "idle" \/ shutdownCalled)
=============================================================================
