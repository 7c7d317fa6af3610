# A verification project for chromium_base

TLA+ models of the concurrent core of this repository, a Windows build of
Chromium's `base` with `ui`, `skia` and a few companions: what runs tasks, on
which thread, in which order, and how that ends; what waits and wakes; what is
created once and destroyed in order. TLC checks the models on small instances.
TLAPS proves, for every value of the constants, the most important results about
the message loop and its proxy, the Windows pumps, the worker pool, the clients of a
thread's loop, the condition variable, the watchdog, the static objects and the weak
pointers: all the safety that the passing runs check.

Contents: [the system](#the-system), [plan](#plan), [modules](#modules),
[runs](#runs), [bounds](#bounds), [fairness](#fairness), [proofs](#proofs),
[where code and documentation differ](#where-code-and-documentation-differ),
[what is not modelled](#what-is-not-modelled).

To repeat everything:

    tlc -workers 2 -config MCMessageLoop.cfg MCMessageLoop         # and the other .cfg files
    tlapm SequencedWorkerPoolProofs.tla
    tlapm MessageLoopProxyProofs.tla
    tlapm WindowsPumpsProofs.tla
    tlapm LoopClientsProofs.tla    # about seven minutes
    tlapm PrimitivesProofs.tla     # after those it builds on: SequenceLemmas,
                                   # WatchdogProofs, LifetimesProofs

The five runs called "violation" below end with a counterexample: that is their
result.

## The system

Only the Windows sources are in the tree (`*_win.cc`, no `*_posix.cc`), so the
models follow those.

### Components with a protocol of their own

**MessageLoop** (`base/message_loop.{h,cc}`, `base/pending_task.{h,cc}`).
State: the incoming queue that any thread may push on, and three queues that only
its own thread touches (work, deferred non-nestable, delayed); the run state of
the innermost `Run`; whether nestable tasks are allowed; a cached clock.
Operations: the `PostTask` family, `Run`, `RunAllPending`, `Quit`, `QuitNow`,
`SetNestableTasksAllowed`, the three callbacks of the pump and the destructor.
Hard: a task may run the loop again; a post on another thread races with the end
of the loop's sleep and with the destructor; closures that are deleted may post.
Correct when: no task is lost or runs twice, immediate and delayed tasks keep
their orders, none runs early, a non-nestable one never runs nested, and the
destructor comes to the limit of its rounds only if tasks keep coming.

**MessagePumpDefault** (`base/message_pump_default.{h,cc}`).
State: `keep_running_`, an auto-reset event, `delayed_work_time_`, all three
shared by the nested `Run`s. It calls `DoWork`, `DoDelayedWork` and `DoIdleWork`
of the loop and sleeps on the event. Hard: the order of the tests of
`keep_running_`, and the decision to sleep against a concurrent `ScheduleWork`.
Correct when: it never sleeps on work.

**MessageLoopProxy** (`base/message_loop_proxy_impl.{h,cc}`).
State: a pointer to the loop under a lock. Other threads post through it, and the
loop's destructor clears the pointer under the same lock. Hard: a post that
overlaps the destructor; a thread may also post directly, and the task may lead to
the destruction before the post has returned. Correct when: nobody touches a dead
loop, and a post is either refused or its task runs or is deleted.

**SequencedWorkerPool** (`base/threading/sequenced_worker_pool.{h,cc}`).
State: a list of pending tasks, the threads, the sequences now running, three
counters, two shutdown flags; one lock, one condition variable. Workers are
created one at a time and outside the lock. Hard: idle workers, `Flush` and
`Shutdown` share the condition variable and use `Signal`, never `Broadcast`;
work continues after the unlock; one owner tears down what others use. Correct
when: tasks of one sequence never overlap and keep their order, no runnable task
is forgotten, and `Shutdown` and the destructor return having run exactly what
`BLOCK_SHUTDOWN` promises.

**ConditionVariable** (`base/synchronization/condition_variable_win.cc`, `lock.h`).
On Windows XP: a list of events that threads wait on, a list of recycled events, a
count of events, all under an internal lock, and the user's lock; on Vista the
system's own. Operations: `Wait`, `TimedWait`, `Signal`, `Broadcast`. Hard:
`Signal` sets the event after it has left the internal lock, and a waiter that
timed out meanwhile recycles an event which is signalled later, in the hands of
another thread. Correct when: it is a condition variable with spurious wake-ups,
as the model of the pool assumes.

**Watchdog** (`base/threading/watchdog.{h,cc}`).
State: armed, disarmed, shut down or joinable; the start time; for all watchdogs
of the process, the last break in a debugger. The owner arms, disarms, cleans up
and destroys; the watchdog's thread sleeps on a condition variable and alarms.
Hard: every call races with the thread between its tests, sleeps and the alarm;
`Disarm` wakes nobody. Correct when: no alarm is early or on account of a
cancelled arming, an armed watchdog does not oversleep, the destructor returns.

**Thread** (`base/threading/thread.{h,cc}`).
State: `message_loop_`, `started_`, `stopping_`. The owner starts, stops and
restarts; `ThreadMain` creates, runs and destroys a loop. Hard: the two sides read
and write the same fields, and a loop may be told to quit more than once. Correct
when: `Stop` returns, and only after the tasks that were in the queue have run.

**PostTaskAndReply** (`base/threading/post_task_and_reply_impl.cc`): a relay that
belongs to nobody but the closures on two loops, either of which may end first.
It must reply once, on the loop it came from, or be deleted there or leaked.

**ObjectWatcher** (`base/win/object_watcher.{h,cc}`). State: the registration with
the system, a callback bound to a weak pointer. A wait thread of the system posts
to the loop, by its address, while the loop's thread stops the watch, is told of
the loop's end, or destroys the watcher. Correct when: only a watch in force
notifies, once, and the system's thread never posts to a dead loop.

**Timer** (`base/timer.{h,cc}`): one-shot, repeating and delay timers. A timer
cannot take its delayed task back, so it orphans it; `DelayTimer` moves its time
without posting. Correct when: nothing is called too early, after `Stop`, or on
account of an orphan, and what runs does call.

**Observer lists** (`base/observer_list.h`, `observer_list_threadsafe.h`).
State: a context for each thread, with a list in which a removed observer leaves
an empty slot while an iteration lasts. Notifications are tasks that carry the
context's address. Hard: observers come and go inside notifications, also nested
ones, and the context may be deleted and its address used again. Correct when: an
observer is called once for a notification, and none that stays is passed over.

**AtExit, Singleton, LazyInstance** (`base/at_exit.cc`, `memory/singleton.{h,cc}`,
`lazy_instance.{h,cc}`). State: a word for each object (empty, in creation, a
pointer), the stack of exit callbacks. Hard: several threads get an object for the
first time; constructors get other objects; the object is visible before its
destruction is registered. Correct when: it is created once, is whole for whoever
gets it, and is destroyed once, before what it was made from.

**Reference counts and weak pointers** (`base/memory/ref_counted.{h,cc}`,
`weak_ptr.{h,cc}`). State: a counted flag, shared by an object and its weak
pointers. Hard: the owner asks whether anyone else holds the flag, while other
threads copy and drop it. Correct when: exactly the weak pointers since the last
invalidation are valid, and a flag lives as long as it is held.

**The Windows pumps** (`base/message_pump_win.{h,cc}`, `message_pump_embed_win.*`).
State: `have_work_`, which stands for one message in the thread's queue or one
packet on its completion port; `delayed_work_time_` and a `WM_TIMER`; for IO, the
completions set aside by a filtered wait. Hard: the flag is exchanged by any
thread while the pump takes the message and resets the flag in separate steps;
native modal loops, which the pump does not control, dispatch its messages.
Correct when: a wake-up is never lost, a `Run` never sleeps on work, completions
of a handler keep their order.

**Notification service, SystemMonitor**: clients of the observer lists with little
state of their own; not modelled.

### How they interact

    any thread --PostTask--> MessageLoopProxy --lock--> MessageLoop.incoming_queue_
                                                            | ScheduleWork (event)
    the loop's thread:  MessagePumpDefault::Run --DoWork/DoDelayedWork/DoIdleWork-->
                        MessageLoop --RunTask--> closure --Run, PostTask, Quit--> MessageLoop
    any thread --PostTask--> SequencedWorkerPool::Inner (lock_) <--GetWork-- Worker threads
                                      \__ cond_var_ : idle workers, Flush, Shutdown __/

    owner --Start, Stop--> Thread: ThreadMain --creates, runs, destroys--> MessageLoop
    Timer, ObjectWatcher, ObserverListThreadSafe, PostTaskAndReply --post--> that loop
    UI messages, completions, other threads --> MessagePumpWin --DoWork...--> MessageLoop
    Watchdog, the pool --wait, signal--> ConditionVariable
    Singleton, LazyInstance --RegisterCallback--> AtExitManager
    Timer, ObjectWatcher, WeakPtr --> flags, counted by any thread

`SystemMonitor` and the notification service are built from the observer lists.
Parts that share no state are in different models: the loop with its default pump,
the pool, the Windows pumps, the clients of a thread's loop, and the primitives.

### Components without one

Values, strings, files, processes, containers, graphics, widgets, metrics and
vendored code: listed in `PROJECT.json` with the reason each is left out. Most are
sequential, or wrap a system call. Candidates among them: `FocusManager`, the
text field's undo history, `AnimationContainer` and `MRUCache`.

## Plan

In place:

1. **Tasks.** `PendingTask`, `MessagePumpDefault`, `MessageLoop` and
   `MessageLoopProxy`, which composes them; `SequencedWorkerPool` and its proofs.
2. **What the pool stands on.** `ConditionVariable`, an abstract specification,
   and `ConditionVariableXP`, which implements it; `Watchdog` on the latter.
3. **What stands on the loop.** `Thread` with an abstract loop, and on it `Timer`,
   `ObjectWatcher`, `PostTaskAndReply`, `ObserverListThreadSafe`; `LoopClients`
   composes them.
4. **Lifetimes.** `StaticInstances` and `WeakReferences`, with `Watchdog` in
   `Primitives`; the proofs of all four.
5. **The other pumps.** `WinMessageLoop`, the pumps for UI, IO and a host program,
   composed in `WindowsPumps`.

What is left, in this order:

- The abstract loop of `Thread` is a model of its own: that `MessageLoopProxy`
  implements it for immediate, nestable tasks is argued below and not checked.
- Smaller parts: the destructor passes of thread-local storage, `ObserverList`
  with deletion while it is iterated, `AnimationContainer`, `FocusManager`.

## Modules

| Module | Code | What it is |
|---|---|---|
| `PendingTask` | `pending_task.{h,cc}`, the sequence numbers of `message_loop.cc` | the order of the delayed queue, with the wrap of an int |
| `MessagePumpDefault` | `message_pump_default.{h,cc}` | the pump's state, `Quit`, `ScheduleWork`, the two waits, the clock |
| `MessageLoop` | `message_loop.{h,cc}`, `MessagePumpDefault::Run` | the loop as its own thread sees it |
| `MessageLoopProxy` | `message_loop_proxy_impl.{h,cc}`, `AddToIncomingQueue` on another thread | composition with posting threads; the specification and properties of the loop |
| `SequencedWorkerPool` | `sequenced_worker_pool.{h,cc}` | the pool, its specification and properties |
| `WinMessageLoop` | `message_loop.cc`, `MessagePumpWin` in `message_pump_win.{h,cc}` | the loop as the Windows pumps call it; posts of other threads |
| `MessagePumpForUI` | `message_pump_win.cc` | window messages, `WM_TIMER`, native modal loops |
| `MessagePumpForIO` | `message_pump_win.cc` | the completion port and waits for one handler |
| `MessagePumpForEmbed` | `message_pump_embed_win.{h,cc}`, `message_loop_embed.{h,cc}` | a loop inside a host program with its own message loop |
| `WindowsPumps` | | composition of the three; specification and properties |
| `ConditionVariable` | `condition_variable_win.cc`, the Vista wrapper | abstract specification |
| `ConditionVariableXP` | `condition_variable_win.cc`, `WinXPCondVar` | the detailed one, and the refinement mapping |
| `Watchdog` | `watchdog.{h,cc}` | the watchdog, its thread and its owner, on `ConditionVariableXP` |
| `StaticInstances` | `at_exit.cc`, `singleton.{h,cc}`, `lazy_instance.{h,cc}` | creation by compare-and-swap, destruction at exit |
| `WeakReferences` | `weak_ptr.{h,cc}`, `ref_counted.{h,cc}` | an object, its weak pointers and their counted flags |
| `Primitives` | | composition: specification, fairness and properties of the four above |
| `Thread` | `threading/thread.{h,cc}` | the owner, `ThreadMain` and the loop as clients see it |
| `Timer` | `timer.{h,cc}` | the three kinds of timer |
| `ObjectWatcher` | `win/object_watcher.{h,cc}` | the watcher and the system's wait thread |
| `PostTaskAndReply` | `post_task_and_reply_impl.cc` | relays between two loops, and posts of other threads |
| `ObserverListThreadSafe` | `observer_list{,_threadsafe}.h` | the context of one thread, and notifications from any |
| `LoopClients` | | composition: specification, fairness and properties of the five above |
| `MCMessageLoop`, `MCSequencedWorkerPool`, `MCWindowsPumps`, `MCPrimitives`, `MCLoopClients` | | instances |
| `MessageLoopProxyProofs`, `WindowsPumpsProofs`, `SequencedWorkerPoolProofs`, `LoopClientsProofs`, `SequenceLemmas`, `WatchdogProofs` (with the condition variable), `LifetimesProofs`, `PrimitivesProofs` | | theorems and lemmas |

`map` in `PROJECT.json` gives the lines behind every definition. A definition
whose comment begins "Slip" stands just before the one it distorts, with one
plausible mistake in it, and no specification uses it. Put in the place of the
correct definition it breaks a property, which shows that the property depends on
that piece of code; `mutants` in `PROJECT.json` says which.

### The loop

`frames` is the stack of active `Run`s. A frame holds what the C++ stack holds:
the stage of `MessagePumpDefault::Run`, `did_work`, the task that runs,
`quit_received`, and whether a `ScopedNestableTaskAllower` is around the nested
call. The queues, flags and times are variables of the code's names. `status`
and `posted` are history: what became of each task, and the order in which the
tasks were queued.

The actions are the turns of the three callbacks (`DoWorkTakesTask`,
`DoWorkFindsNothing`, and so on), the two halves of the sleep (`PrepareToSleep`
decides, `WakeUp` leaves), what a task may do (`OwnThreadPost`, `RunNested`,
`Quit`, `QuitNow`, `FinishTask`), what the program may do outside `Run`, and the
steps of the destructor. A callback that returns to the pump does so in the same
action (`DelegateReturned`): the test of `keep_running_`, the next stage, or the
end of the `Run` with its `AutoRunState` and allower. `DoDelayedWork` with a
deferred task, for one, ends in the same step in which it pushes.

A post from another thread takes three steps, because between them the loop can
act: the run time is computed, with the proxy's lock held, or without it by a
thread that has a `MessageLoop*`; then the push under `incoming_queue_lock_`;
then, outside that lock and only if the queue was empty, `ScheduleWork`. A post by
the loop's own thread is one step, since only that thread takes from the queues,
tests the event or ends the loop; a poster that pushes between its push and its
signal finds the queue not empty either way.

A direct post, as `Thread::StopSoon` makes it, has no lock that keeps the loop. Its
thread must know that the loop lives until the task is in the queue (`MayDestroy`),
and no longer: "the incoming_queue_ may contain a task that destroys this message
loop" (`message_loop.cc:609-614`). So the loop may run that task, end and be
destroyed while the poster still has its `ScheduleWork` to do. `pumpRefs` are the
posters that hold the reference to the pump which the code takes on the stack for
this case, and `NoUseAfterDestruction` asks that the pump exists when it is woken.
Through the proxy there is no condition on the owner:
`WillDestroyCurrentMessageLoop` and the lock have to do it.

The destructor's loop is `DeletePendingTasks` and `ReloadWorkQueue` in turn; `round`
counts as `i` does, and at the limit (`LastRound`) the loop goes on to its end with
whatever is left, as a build without `DCHECK(!did_work)` does. `RoundsArePaidFor`
says when that can be: `postedBefore` is history, how many tasks had been queued
when the destructor began.

### The pool

What a thread does while it holds the lock and calls nothing is one action. The
code leaves the lock to create a thread, to signal after `PostTask` or before it
runs a task, and to run it: `toCreate` and `toSignal` are the threads that have
such a duty left, `CreateThread` and `SignalWorkers` do it. The calls of `Signal`
under the lock are part of the action that makes them. `lock` names a worker only
between `TakesLock` and `GetWork`, the two halves of a turn of `ThreadLoop`.

`pending_tasks_` is only pushed at its back and erased from, so it is a set and a
`position` for each task. `GetWork` takes the first task that may run, drops the
tasks before it that shutdown forbids, and passes over those whose sequence is
busy. `Signal` lets one waiter go, of whichever kind. The condition variable is
the set `cvWaiters`, and the constant `SpuriousWakeups` says whether a waiter may
leave it for no reason, as the documentation of Windows allows.

### The Windows pumps

Here `frames` is the stack of the loop's thread: `Run`, a task or handler of the
program, a native modal loop, the two message handlers of the pump's window, a
filtered wait. Only the top frame acts. `pc` is its stage; a stage that has called
something is `done` when the frame above it is gone, and `UIStageDone` or
`IOStageDone` then goes to the next stage, or breaks out if `should_quit` is set,
exactly where the code tests it. `queue` is the message queue of the thread, or
the completion port: in the code, too, a loop has one or the other.

`have_work_` is exchanged in one step and the message posted in the next
(`PosterExchanges`, `PosterPosts`); on the other side the message is taken, and
the flag reset in a later step (`PeekNext` and `ExchangeHaveWork`, `GetIOItem` and
`ProcessInternalIOItem`, `UIDispatch` and `WorkMessageOutsideRun`). A modal loop
dispatches what it finds; what it finds first, posted messages before a
`WM_TIMER`, is `Peeked`. The program of a behaviour is one of `Programs`: its
pump and the tasks, operations and clicks it uses.

A task or handler may run the loop again, or open a native loop, inside a
`ScopedNestableTaskAllower` or without one. `Run` itself sets nothing
(`message_loop.cc:298-307`): without an allower, a `Run` that a task nests gets FALSE
from every `DoWork` and sleeps over the tasks that are queued. Such a frame `Forbids`,
and the properties that speak of sleep and of progress leave it out by that name.

### The primitives

A behaviour of `Primitives` is about one of four things, `users`, chosen in `Init`:
they share no state, and one specification serves their runs and their proofs.

- *Condition variable.* `at` is where a thread is in `TimedWait`, `Signal` or
  `Broadcast`. What a call does under `internal_lock_` is one step: `BeginWait`
  (`GetEventForWaiting` and the queue), `TakeEvents`, `RecycleEvent`. The steps
  between are the unlock of the user's lock, the wait and its two ends, and, one
  at a time, `SetEvent` on the events that were taken. Some threads only signal,
  without the lock.
- *Watchdog.* `ThreadMain` is a step for each turn of its loop that leaves the
  lock (`ThreadWaits`, `ThreadSleeps`, `DecideToAlarm`, `SkipBreak`, ...). A call
  of the owner is its critical section, then its signal (`AfterSignal`). A break
  is a jump of the clock in which nobody moves, in this watchdog's alarm or in
  another's, which records it later than it happens.
- *Static objects.* `stage` says, for each thread and object, where the thread's
  call of `Pointer` or `get` is; a thread in a constructor is in several calls at
  once. `LazyInstance` and `Singleton` differ in no step. `late` is history: parts
  that another thread had yet to register when the whole was registered.
- *Weak pointers.* A count goes up or down atomically. `GetRef` is three steps,
  the question, the new flag and the copy: others drop references in between.

### The clients of a loop

`Thread` has the loop as its clients see it: a queue, the delayed tasks by the time
left, the task that runs, and `main`, where `ThreadMain` is. It follows from
`MessageLoop`: immediate tasks run in order (`FifoOrder`), delayed ones by run time
(`DelayedOrder`), `Quit` drains first (`QuitDrains`), the end is the deletion of
pending tasks, then the destruction observers and the proxy. A client's task is a
record of a kind and a number, and running it is an action of the client. At most
one task runs, except that an observer's method may deliver another notification,
as a nested loop would.

A time is the time left, so that no clock is needed; a timer that runs for ever is
a cycle of the state graph. The addresses of timer tasks, contexts and weak flags
are numbers that are used again, as an allocator would: what carries an old
address must not be taken for the new object. `TimerTasksDeleted`, `QueueLost` and
`NoticesLost` are what the deletion of a task does to its client.

## Runs

| Run | Configuration | States | Shows |
|---|---|---|---|
| `loop_safety` | `MCMessageLoop.cfg` | 1.3 million, 1-2 min | conservation of tasks, FIFO, no early and no nested run, no lost wake-up, no use of a dead loop, a `Quit` that drains, a destructor that goes another round only for a task that came meanwhile |
| `loop_progress` | `MCMessageLoopLive.cfg` | 150 000, 1-2 min | every queued nestable task runs while its `Run` lasts; delayed ones in order |
| `loop_nonnestable_order` | `MCMessageLoopFifo.cfg` | violation | two non-nestable tasks run in the opposite order of their posts |
| `pool_safety` | `MCSequencedWorkerPool.cfg` | 400 000, 30 s | order and exclusion in a sequence, honest counters, no forgotten task, the promises of shutdown |
| `pool_progress` | `MCSequencedWorkerPoolLive.cfg` | 16 000, 25 s | blocking tasks run, `Shutdown` returns, the joins return |
| `pool_flush` | `MCSequencedWorkerPoolFlush.cfg` | violation | `Flush` may wait for ever |
| `pool_skip` | `MCSequencedWorkerPoolSkip.cfg` | violation | `Shutdown` returns while a `SKIP_ON_SHUTDOWN` task runs |
| `windows_pumps` | `MCWindowsPumps.cfg` | 139 000, 2 min | `have_work_` accounted for, no sleep on work, completions in order, `QuitNow`, everything handled while `Run` lasts |
| `native_loop_starves` | `MCWindowsPumpsNative.cfg` | violation | a task in the work queue starves while a native loop lasts |
| `embed_nested` | `MCWindowsPumpsEmbed.cfg` | violation | a task posted in a modal loop of an embedded loop may never run |
| `primitives` | `MCPrimitives.cfg` | 84 000, 2-3 min | the XP condition variable implements the abstract one, the watchdog alarms when due, static objects and weak pointers keep their promises, nobody waits for ever |
| `loop_clients` | `MCLoopClients.cfg` | 39 000, 2-3 min | timers, the watcher, relays, observers and `Stop`: nothing comes that was cancelled, what was promised comes |

What the properties of the loop say beyond their comments:

- `TaskConservation` places every queued task in exactly one queue at exactly one
  index. It fails when the swap of `ReloadWorkQueue` becomes a copy.
- `NoLostWakeup` is the argument for the pump's sleep: the loop tests its queues
  before it waits and the poster signals after it pushes, so a loop asleep with a
  task in its incoming queue is one whose poster has not signalled yet. It fails
  when the event is reset before the wait.
- `NoUseAfterDestruction` fails when the proxy is told without its lock, and when a
  direct poster has a plain pointer to the pump.
- `RoundsArePaidFor` is why the limit of the destructor and its `DCHECK` do no harm:
  the hundredth round needs 99 tasks that were queued while the destructor ran. It
  fails when the swap of `ReloadWorkQueue` becomes a copy, and with it one round
  would be left to the same tasks as the last.
- `QuitDrains` holds because `quit_received` is tested after the deferred queue.

And those of the pool:

- `NoForgottenTask` is stated for a pool that nobody flushes or shuts down. A
  thread in `Flush` can take the one signal a `PostTask` gives, which is what
  `pool_flush` shows; while `Shutdown` waits, the workers pass the signal on when
  they exit, and `BlockingTaskRuns` covers it.
- `BlockingTasksDone` and `NoStartAfterShutdown` are the two sides of
  `BLOCK_SHUTDOWN`: all of them are done when `Shutdown` returns, and nothing else
  starts once it was called.

Those of the Windows pumps:

- `HaveWorkAccounted` counts the messages in the queue, the threads about to post
  one and the frames that took one out and have not reset the flag: one if
  `have_work_` is set, else none. It is what the three `DCHECK`s of the pumps
  assume, and why a wake-up is neither lost nor doubled.
- `SleepsOnNothing` fails when a stage's result is forgotten before the sleep. It is
  about every `Run` but one that `Forbids`, whatever was nested in it before, a `Run`
  that forbids included.
- `WorkIsDone` presumes that native loops end, and lets a task off that a `Run` which
  forbids nestable tasks sleeps over. What starves while a native loop lasts is the
  subject of `native_loop_starves`.
- `QuitStopsRun` leaves out the one place where the code does not keep it (see
  below).

Those of the primitives:

- `ImplementsConditionVariable` is the abstract specification, with its fairness,
  under a refinement mapping. A thread waits, for the abstract condition variable,
  from the moment its event is in `waiting_list_` until the event is taken off it,
  and it has released the lock as soon as it has committed to wait. A stale signal
  is a wake-up for no reason. A `Broadcast` and several `Signal`s at once are not
  told apart by the variables: taking events in order is in `TakeEvents` only.
- `AlarmsOnlyWhenDue` relates an alarm to the arming in force, not to the
  start time that the thread works with and shifts. A tick stands for a millisecond
  or more. Below that the code is less exact: `watchdog.cc:129` drops the rest of a
  remaining duration, and an alarm may come less than a millisecond early.
- `StaticsPromises` and `WeakPromises` are conjunctions with a mutant for each of
  the hazards they stand for.

Those of the clients: `CallsOnlyWhenDue` is what must never happen, a conjunction
over each step of one promise for each client; `CallsCome` is what must happen. That
`Stop` returns (`StopEnds`) has two exceptions, its premises: the loop is never idle
because of a slow repeating timer (`KeepsUp`), or because the program starts a watch
again and again after the loop was told to quit (`WatchesForEver`), as a delegate
does that continues to watch a signaled object.
`waited`, `watch`, `due`, `beforeStop` are the history the promises speak of: the
time since a timer was last started or reset, whether a watch is in force, who has
to be called yet, which tasks `Stop` must wait for.

## Bounds

| Bound | Value | Why it is enough |
|---|---|---|
| tasks of the loop | 3: plain, non-nestable, delayed; or plain and two delayed | one of each kind that the code tells apart, each posted once, from anywhere, at any time; two delayed ones for their order |
| `Posters` | 2 and 1 | two, so that one finds the queue not empty because of the other, whose signal is late |
| `MaxDepth` | 2 | the code asks only whether the depth is 1 |
| `MaxTime` | 3 and 2 | a delayed task posted at two different times; one not yet due, just due, and overdue |
| `SeqModulus`, `FirstSeqNum` | 8; 0 or 7 | `next_sequence_num_` of a new loop, and in `loop_progress` that of a loop about to roll over: of its two delayed tasks the first has number 7, the second 0. As in the code, fewer than half of the numbers are in the queue at once |
| posts in the destructor | one per `DeletePendingTasks`, as many as there are fresh tasks | a deleted closure that posts again, in each round |
| `MaxRounds` | 2, for the 100 of the code | a first round, one that deletes a task which came in the first, and the limit; with three tasks, both the end by empty queues and the end by the limit come up. The proof is for any limit |
| tasks of the pool | 4: two of one sequence that block, one `SKIP`, one `CONTINUE` | all three behaviours, and a sequence whose second task waits for the first |
| `Workers` | 3 and 2 | three, so that a signal can go to the wrong one of two sleepers while the third creates a thread |
| `Clients` | 2 | the owner of the pool and one that posts and flushes |
| Windows `Programs` | 8: two or three of plain and delayed tasks, operations and clicks on each pump | each pair of things that interact, on each pump: a task and a timer, two tasks of two threads, a task and an input, three completions of two handlers, a handler that leaves |
| Windows `MaxDepth` | 4 frames under which a program nests | `Run`, a task, a modal loop or nested `Run`, a task in it |
| Windows `MaxTime` | 2 | a delayed task due later than it is posted; a timer that is set twice |
| `Thread`, `Signalers` | 3, one of which only signals | a waiter, one that recycles its event meanwhile, one that signals without the lock |
| `Duration`, `MaxTime`, `MaxBreak` | 2, 3, 1 | an alarm that is early by one tick, and one after a break |
| static objects | 4 | one that gets another, and one in static memory that gets a leaky one; two threads |
| `Flags`, `References` | 3, 3 | a flag in use, an invalidated one that is still held, and one that takes its place |
| timers, timer tasks | one of each kind; 3 addresses | a running task, an orphan and a new one |
| `Notices`, `Observers`, `MaxList`, `MaxNotify` | 2, 2, 3, 2 | a notification within another, an observer removed and added again meanwhile |
| relays, posts | 1, 1 | the code handles each on its own; the post shows what `Stop` waits for |

The clients have no bound on time, starts or stops: addresses and times left are
used again, and the state graph is finite. A program that notifies observers stops
by `Stop` alone.

`Posters` and `Workers` are symmetric sets in the safety runs; no liveness run
uses symmetry. Deadlock is not checked: a program that has destroyed its loop or
pool, or has nothing left to post, stops.

## Fairness

For the loop: the loop's thread goes on inside the pump, a
poster inside a post finishes it, the clock advances (all weak), and a task
returns. The last is strong: a nested `Run` keeps disabling the return of the
task that made it, and the fairness is on the innermost task, which may be another
one each time. Nothing says that anybody posts, quits, runs or destroys the loop:
the progress properties are of the form "the task runs or the `Run` ends".

For the pool: `GetWork`, the end of a worker, the creation of a thread, a signal
that is owed and the joins are weakly fair, for once possible they stay so until
they happen. Taking the lock is strongly fair: others take it in between, and a
critical section of Windows starves no thread for ever. This includes the return
of a task, which is followed by taking the lock. A spurious wake-up is never
assumed to happen, and no client has to do anything.

For the Windows pumps: the loop's thread goes on, tasks and handlers return, the
clock advances, a poster finishes its post, an operation completes (weak); the
user closes a modal loop that could be closed again and again (strong: other
input comes in between). This last is nothing that code guarantees: `WorkIsDone`
is a promise about programs whose native loops end.

For the primitives: a thread inside a call goes on, the watchdog's thread and an
owner in the destructor go on, the clock advances, exit goes on (weak); a thread
that wants a lock gets it if it is free again and again (strong): the user's lock
of the condition variable, and `lock_` of the `AtExitManager`. A thread that spins
on a word leaves when the word stays changed (weak). Nobody has to call `Signal`
or release a lock.

For the clients of a loop: the threads, the system's wait thread and the clock go
on (weak). A turn of the loop tries `DoWork`, then `DoDelayedWork`, then, if they
did nothing, `DoIdleWork`, so each gets its chance again and again (strong). An
observer's method returns, though nested deliveries interrupt it, and the owner's
loop runs its replies, though the owner does other things (strong).

## Proofs

### The pool

`SequencedWorkerPoolProofs` proves, from `PoolAssumption` alone (finite sets of
tasks and workers, one behaviour for each task, the owner among the clients, at
least one thread), for every value of the constants and with or without spurious
wake-ups:

| Theorem | Result |
|---|---|
| `TypeCorrect` | `Spec => []TypeOK` |
| `SequenceOrderCorrect` | `Spec => []SequenceOrder` |
| `SequenceExclusionCorrect` | `Spec => []SequenceExclusion` |
| `BlockingTasksDoneCorrect` | `Spec => []BlockingTasksDone` |
| `NoStartAfterShutdownCorrect` | `Spec => NoStartAfterShutdown` |
| `CountersAgreeCorrect` | `Spec => []CountersAgree` |
| `ThreadsAccountedCorrect` | `Spec => []ThreadsAccounted` |
| `NoForgottenTaskCorrect` | `Spec => []NoForgottenTask` |

The argument. Most actions move threads and leave the list, the workers' tasks
and the statuses alone; lemma `StepKinds` sorts every step of the system into
those quiet ones, a post, a refused post, the two outcomes of `GetWork` and the
end of a task, and the lemmas `Posted`, `Refused`, `FoundTask`, `FoundNone` and
`DidRun` say what each of them does. Every invariant is then proved over these
six kinds. The inductive invariant is the conjunction of

- `ListInv`: a task is pending exactly when it is in the list, positions are
  given out once and grow, and only tasks that do not block are dropped;
- `OwnerInv`: a task that runs has one worker, and a worker that runs has a task;
- `SequenceInv`: the sequences in `current_sequences_` are those of the running
  tasks, and no two workers run one sequence;
- `SequenceOrder` itself;
- `CountInv`: the two counters of blocking tasks count them;
- `ShutdownInv`: from the call of `Shutdown` on the pool is terminating, and once it
  has returned no blocking task is pending or running and no thread is being created.

None of the three state properties is inductive alone. `GetWork` keeps
`SequenceOrder` only because an earlier task of the same sequence is either still
in the list, and then ahead of the one it takes and not runnable before it, or
runs on some worker, and then its sequence is in `current_sequences_`: that needs
`ListInv`, `OwnerInv` and `SequenceInv`. `Shutdown` decides by two counters, so
`BlockingTasksDone` needs `CountInv` when it returns and `ShutdownInv` for ever
after: no task may be accepted, and none that blocks may be left to start. Lemmas
`CountOneMore` and `CountOneLess` relate a counter to the cardinality it stands
for.

The last three theorems rest on a second inductive invariant, `ThreadsInv`, about
the threads themselves:

- `ThreadInv`: `thread_being_created_` stands for exactly one thread, which somebody
  owes to create or which is starting, and `threads_` has all others;
- `WaitInv`: `waiting_thread_count_` counts the workers inside `Wait`, of which some
  may have been woken already;
- `HelpInv`: a runnable task has a worker awake or waiting, a thread on its way, or
  a pool that is full;
- `WakeInv`: while nobody flushes or shuts down, a runnable task has a worker that
  looks for work, a signal that is owed, or no worker asleep to signal.

`NoForgottenTask` is where the three ways meet in which the code finds somebody for
a task: the poster's `Signal`, the thread that the poster or a worker creates, and
the worker that takes one task and signals or creates for the next. A worker that
falls asleep keeps `WakeInv` only because it found nothing runnable under the lock,
and one that starts a task because it either signals, or creates, or knows that
nobody sleeps.

### The loop

`MessageLoopProxyProofs` proves of `Spec`, from `LoopAssumption`,
`PosterAssumption`, `MaxTimeAssumption` and `SeqModulusAssumption`, for any tasks
and delays, any number of posting threads and any depth of nesting:

| Theorem | Result |
|---|---|
| `LoopTypeCorrect` | `Spec => []TypeOK` |
| `TaskConservationCorrect` | `Spec => []TaskConservation` |
| `NonNestableNeverNestedCorrect` | `Spec => []NonNestableNeverNested` |
| `FifoOrderCorrect` | `Spec => []FifoOrder` |
| `NeverEarlyCorrect` | `Spec => []NeverEarly` |
| `NoLostWakeupCorrect` | `Spec => []NoLostWakeup` |
| `NoUseAfterDestructionCorrect` | `Spec => []NoUseAfterDestruction` |
| `RoundsArePaidForCorrect` | `Spec => []RoundsArePaidFor` |
| `QuitDrainsCorrect` | `Spec => QuitDrains` |
| `DelayedOrderCorrect` | `Spec => []DelayedOrder`, if `FewDelayedTasks` |

All but the last follow from one inductive invariant, `LoopInv`: `TypeOK` and nine parts.
Each has a lemma of its own, which names the parts it leans on:

- `TypeOK`, which needs `PosterInv` for the task that a poster pushes;
- `FrameInv`: which task is in which `Run`. A task starts from a queue, so it needs
  `QueueInv`: a task in a queue runs nowhere;
- `QueueInv`: the four queues are disjoint, repeat nothing, and hold exactly the
  tasks with status "queued". Every move between queues is a lemma about sets
  (`QueuesGrow`, `QueuesDelay`, `QueuesDefer`, `QueuesShrink`, `QueuesEmptied`);
- `TimeInv`: what started or was deferred was due. `recent_time_` may be behind the
  clock, never ahead of it, which is why trusting it cannot be early;
- `FifoInv`: `FifoOrder` is not inductive, because it says nothing of tasks that
  still wait. Added is that the work queue and then the incoming queue are in the
  order of the posts, and that all that was posted after a task in them is in them
  too. So the task `DoWork` takes is the oldest there, and of those before it that
  are immediate and nestable none can be in the delayed or the deferred queue;
- `PosterInv`: who holds the proxy's lock is inside a post, so when the proxy forgets
  the loop nobody is inside; who posts directly pushes on a live loop, and who is to
  wake the pump, on a live loop or a dead one, holds a reference to it;
- `PhaseInv`: what the destructor has emptied at each phase. A post from a closure
  that is deleted goes to the incoming queue, which only the last phases empty;
- `RoundInv`: `RoundsArePaidFor` is not inductive, for a round is paid by the tasks of
  the one before. Added is that a round after the first begins with nothing but the
  incoming queue, and that what the reload moves from there, and what comes there
  after it, are two different tasks queued since the destructor began;
- `AllowInv`: nestable tasks are forbidden in a task and in a nested `Run` that was
  entered without an allower. Alone it is not inductive when a nested `Run` ends:
  the frame below is in a task that was started where nested tasks were allowed, so
  the frames below the top must say with which allower they were entered;
- `WakeInv`: at each stage between `DoWork` and the wait, what is known to be empty,
  and who will signal if something was posted behind the stage that looked. In a
  nested `Run` that forbids nested tasks it says nothing: there the loop really
  sleeps on work, until the task that made it returns.

`EarliestIsFirst` is the lemma about the delayed queue: its top has the earliest run
time, however the sequence numbers wrapped. Among tasks with the same run time the
numbers decide, and an int that wraps orders them only while those compared are less
than half of the ints apart. `DelayedOrderCorrect` therefore has a hypothesis,
`FewDelayedTasks`: there are finitely many delayed tasks, at most half as many as
ints. (A task of the model is posted once, so this bounds the delayed posts in the
life of a loop. The code needs the bound only for the tasks that wait together.)
`FirstSeqNum` is any number, so the wrap may come at any of them. Its invariant,
`DelayInv`, is inductive relative to `LoopInv`:

- `NumberInv`: the age of a waiting task, how many numbers were given since its own,
  is at least 1, at most the number of tasks numbered so far, and greater than the
  age of those that wait and were queued after it. `OlderLeads` turns ages into what
  the comparison of two wrapped ints says;
- `ServedInOrder`: `DelayedOrder`, said of the tasks that were deferred as well as
  of those that started, since the first may start later without another look at
  the delayed queue.

When `DoDelayedWork` takes the top of the queue (`NotOvertaken`), a nestable task
that was queued before it and not for a later time has left the line, for the line is
in order; it was not deferred and nothing was deleted; and it does not wait in the
delayed queue, where the oldest of the earliest tasks leads all others and so must
be the top. It has started.

### The Windows pumps

`WindowsPumpsProofs` proves of `Spec`, from `WinMessageLoopAssumption`,
`IOAssumption` and `ProgramsAssumption`, for any programs, tasks, operations and
handlers, any number of posting threads and any depth of nesting:

| Theorem | Result |
|---|---|
| `PumpsTypeCorrect` | `Spec => []TypeOK` |
| `HaveWorkAccountedCorrect` | `Spec => []HaveWorkAccounted` |
| `SleepsOnNothingCorrect` | `Spec => []SleepsOnNothing` |
| `QuitStopsRunCorrect` | `Spec => QuitStopsRun` |
| `CompletionOrderCorrect` | `Spec => []CompletionOrder` |

The argument. Some thirty actions move one stack of nine kinds of frames, under
three pumps. Lemma `NextMoves` shows that every step does one of eight things to
the stack (`StackMoves`: it stays, the top frame turns to another stage, calls one
frame or two, ends, is replaced, a first frame begins, or a flag of a `Run` is
set), and the invariants of the stack are proved over those eight:

- `StackInv`: a frame has a stage of its kind and pump (`WellFormed`), and one that
  has another frame on it waits there, at a stage after which it looks for work
  again (`Waits`, `Comes`). Only a `Run` or a message that stands for work has the
  replacement of that message on it;
- `AllowInv`: where no task and no native loop is above the last `Run` that does not
  forbid nestable tasks (`Opens`), they are allowed, and what was entered there
  restores that. A `Run` nested without an allower restores, when it ends, what it
  found, so it leaves no trace below it.

On them stand, each inductive with what it names:

- `TypeInv`, which adds to `TypeOK` what can be in the queue of each pump;
- `HaveWorkInv`: the flag is set exactly when its message is in the queue, about to
  be posted, or taken by the frame on top, and in one of these places only. Every
  step leaves flag and message alone, sets both, moves the message or resets the flag
  (`FlagMoves`). That a frame which has taken the message is on top, `MustReset`, is
  why at most one has, and why its reset finds the flag set;
- `RestInv`: for a `Run` on top that does not forbid nestable tasks and did nothing
  in this turn yet, at each stage, what the earlier stages have found empty:
  `work_queue_`, then what was saved of the completions, then the delayed tasks that
  are due. A task that another thread has posted since has its wake-up on the way
  (`Noticed`). A frame that returns to such a `Run` makes it come round again, so
  nothing needs to be known below the top. It needs `AllowInv`: a `Run` that could
  not look would sleep on work;
- `HeldOld`: a task in a queue was posted, which keeps the time of a delayed task
  fixed while the loop sleeps until it;
- `OrderInv`: `CompletionOrder` is not inductive, because it says nothing of what is
  still to be handled. Added is that the items set aside, and then those on the
  port, lie in the order in which they were reported (`Sorted`, `SavedFirst`), that
  they are exactly the ones not handled yet, and that what was handled of a handler
  still there was delivered. So when an item is delivered, every earlier one of its
  handler was too: one set aside would have matched first, and one on the port would
  lie ahead of it.

### The primitives

`PrimitivesProofs` proves of `Spec`, the specification without fairness:

| Theorem | Result |
|---|---|
| `PrimitivesTypeCorrect` | `Spec => []TypeOK` |
| `EventsAreConserved` | `Spec => []EventsConserved` |
| `NoSignalIsLost` | `Spec => []NoSignalLost` |
| `IsConditionVariable` | `Spec => CV!SafetySpec` |
| `AlarmsComeWhenDue` | `Spec => AlarmsOnlyWhenDue` |
| `StaticObjectsKeepTheirPromises` | `Spec => []StaticsPromises` |
| `WeakPointersKeepTheirPromises` | `Spec => []WeakPromises` |

Each part has an inductive invariant and a lemma that its steps keep it
(`CVStepInv`, `WatchdogStepInv`, `StaticsStepInv`, `WeakStepInv`), the first two in
`WatchdogProofs`, the last two in `LifetimesProofs`; the lemmas `ConditionPart`,
`WatchdogPart` and `PartsApart` show that a
step of the whole is a step of each part or leaves it alone. The assumptions are
`NoThreadAssumption`, `WatchdogAssumption`, `InstancesAssumption` and
`FlagsAssumption`; that parts are acyclic (`PartsAcyclic`) is only needed for
liveness, and so only by the run.

- *Condition variable.* `CVInv` adds to the two properties `EventsApart`,
  which says of events and threads one by one what `EventsConserved` says of sets:
  the two lists are injective, the events of waits are distinct and none of them
  is in the recycling list; and `Whereabouts`: who
  has an event is where, and who has signals to set is setting. Recycling keeps
  `NoSignalLost` because the event it appends is no other waiter's, and a stale
  signal may set only more. For the refinement each action is mapped: `BeginWait`
  to `Wait`, `TakeEvents` to `Revive` (of one, or of all), a time-out that finds
  its event in the list to `EndsByItself`, `EndWait` to `Return`, the others to a
  stutter. `SequenceLemmas` has what pushing, popping and taking out of a sequence
  do to its elements.
- *Watchdog.* That no alarm is early is not inductive: the thread compares the
  clock with a start time that it shifts over breaks. `Arming` says that the
  shifted time is not before the arming and not in the future; `BreaksApart` that
  breaks are over when they are known, and that a break recorded late does not
  cross the one recorded before; `BreaksMadeUp` that a break which the start time
  has passed was made up for. The last needs the second: otherwise a shift over
  one break could pass another one and not make up for it.
- *Static objects.* `StaticsInv` adds `DeadStay`, who may hold which stage of a
  static-memory singleton that is dead; `ExitInProgress`, that only survivors are
  used while callbacks run; and `PartsGot`, that what a constructor got exists
  until its whole is registered. `PartsOutlive` needs the last two.
- *Weak pointers.* `WeakInv` adds `OwnersFlag`: between the question of `GetRef`
  and its use, a flag that only the owner has stays so, since no reference to copy
  exists. `HoldersOneMore` and `HoldersOneLess` relate counts and cardinalities.

### The clients of a loop

`LoopClientsProofs` proves of `Spec`, from `TimerAssumption`, `WeakFlagsAssumption`,
`ObserversAssumption` and `ProgramsAssumption`, for any programs, timers and delays,
watches, relays, posts and observers:

| Theorem | Result |
|---|---|
| `ClientsTypeCorrect` | `Spec => []TypeOK` |
| `ClientsCallOnlyWhenDue` | `Spec => CallsOnlyWhenDue` |

Both follow from `ClientsInvariant`, which proves the inductive invariant
`ClientsInv`. It has a part for the thread and its loop and one for each client:

- `QueueInv` and `BusyInv`: the queue has no task twice and is empty when the loop is
  gone, and code runs only while `ThreadMain` is in `Run`;
- `LifeInv`: how far the owner and `ThreadMain` can be apart. A thread that has
  started and was not told to stop is in `Run`; the task that quits is in the queue
  only after `Stop`, and only once;
- `WatcherInv`: a registration, a flag in force and the system's wait go together.
  Until the wait thread has posted, its flag is in no task of the queue, which is why
  a flag's address that is used again does not revive an old notification;
- `RelayInv` and `StopInv`: a task that waits has not run, and each task that was in
  the queue at `Stop` has run or lies ahead of the task that quits. The order is
  needed: `StopWaitsForTasks` says only what is so when `Stop` returns;
- `TimerInv`: timers and their tasks point to each other (`PairsInv`), the task of a
  running timer waits or runs, and is not in the delayed queue twice (`DelayedInv`).
  `DelaysInv` is the account of time: for a `Timer`, what is left of the delay and
  what has passed since the start are the whole of it; for a `DelayTimer`, which
  postpones its trigger without a new task, what is left until the trigger and what
  has passed are;
- `ObserversInv`: `StackInv` says that nested deliveries are of different
  notifications and that the loop is busy with the innermost one; `ListsInv` that an
  observer is in a list once, that a context lives as long as the map or an iteration
  has it, and that a list has empty slots only under an iteration; `NoticesInv`, for
  every notification and every iteration, that whom it still has to call is
  registered and lies ahead, and that whom it has called and is registered lies
  behind. Alone, neither half is inductive: `RemoveObserver` only clears a slot while
  somebody iterates, `AddObserver` appends, and the compaction at the end of the outermost
  iteration moves everybody. Then no iteration is left that would mind.

The argument for one client is about its own variables. What the others do to it
goes through the loop alone, and needs two facts: a client's step brings or takes
tasks of one kind and leaves the others in their order (`OnlyKind`, `OrderKept`), and
makes the loop busy, if at all, with tasks of its own kinds (`OnlyBusy`). Each action
is shown to keep the part of its own client and to be such a step; lemmas `...Kept` carry
the parts of the others over any such step. Lemma `StepsOfClients` sorts the steps of
`Next` by client. What touches all of them, the deletion of the loop with its tasks and the
destruction observers, has a lemma for each part.

Of the seven clauses of `CallsOnlyWhenDue`, `TimersInTime`, `WatchesInForce` and
`ContextsBelong` follow from the invariant in every state. `StopWaits` finds
the queue empty when `Stop` returns, so that nothing of `beforeStop` can lie ahead of
the task that quits and all of it has run. `CalledOnce` uses that the slot called is
ahead of the index, so that its observer was not called, and `PassesOverNobody` looks
at each of the ways in which a notification ends.

### Only model-checked

- All liveness, the fairness part of the refinement, and `ENABLED`, which are out of
  the prover's reach.
- The runs that end in a violation: what they refute is no theorem.

## Where code and documentation differ

Each of these is a run that ends in a violation.

- **Non-nestable tasks are not FIFO** (`loop_nonnestable_order`).
  `message_loop.h:151-157` gives the `NonNestable` variants the order of the
  others. A nested `Run` moves a non-nestable task to the deferred queue, which is
  served when the loop is idle, and a later one still in the work queue overtakes
  it.
- **`Flush` may never return** (`pool_flush`). `PostTask` signals once, and
  `Flush` waits on the same condition variable as the workers. When the flushing
  thread takes the signal it finds a task pending and waits again, and no worker
  wakes. With spurious wake-ups the model may escape but need not.
- **`SKIP_ON_SHUTDOWN` tasks in progress are not waited for** (`pool_skip`).
  `sequenced_worker_pool.h:71-74` says that they will be completed; only
  `BLOCK_SHUTDOWN` tasks are counted.
- **A task starves in a native loop** (`native_loop_starves`). `message_pump.h:101-105`
  says that `DoWork` and `DoDelayedWork` must be provided also in nested loops outside
  of the pump's control, and that `DoWork` must not be starved until it returns false.
  Two tasks share one wake-up; the first has run, the second is in `work_queue_`, and
  the next message is an input whose handler opens a native loop. No message stands for
  the second task, and it waits until the loop ends or another task is posted.
- **A task posted in a modal loop of an embedded loop may never run**
  (`embed_nested`). `message_loop.h:274-276` promises that it runs when the task
  that opened the modal loop completes. The embedded pump uses up the message that
  stands for it while nestable tasks are not allowed, and nothing polls later.

The models also show these, for which there is no run of their own. A property
leaves each of them out, by a clause that its comment names, or the model's
contract rules it out:

- The IO pump does not test `should_quit` after `WaitForWork`
  (`message_pump_win.cc:477`): a completion handler that calls `QuitNow` there is
  followed by one more turn, against `message_pump.h:96`. `QuitStopsRun` allows it.
- Delayed work waits in a native loop while the task that opened it came from
  `WM_TIMER`, whose handler kills the timer first (`message_pump_win.cc:303`), against
  the same lines of `message_pump.h`. `WorkIsDone` promises tasks only once the native
  loop ends, and presumes that it ends.
- A `Run` that a task of the UI pump nests without a `ScopedNestableTaskAllower`
  sleeps over its tasks, and a queued task starves if it never ends. No document
  promises otherwise; `SleepsOnNothing` and `WorkIsDone` leave it out (`Forbids`).
- Two idle workers of the pool can wake each other without end, for each signals the
  shared variable before it waits (`sequenced_worker_pool.cc:388`), for the sake of
  `Flush`. No task is delayed by it, and no property speaks of it.
- A static object is visible before its destruction is registered
  (`lazy_instance.cc:51`), so that another thread may register an object made from
  it first, and exit destroys the part before the whole. `PartsOutlive` leaves
  these parts out (`late`).
- A waiter for a static-memory singleton that is dead finds the creation marker of
  one failed attempt after the other, and may spin as long as others try
  (`singleton.h`, `singleton.cc:11-28`). `GetReturns` leaves it out.
- `ProcessCallbacksNow` runs the top callback and then pops the stack
  (`at_exit.cc:70-74`); a callback that registers another would run twice and the
  new one be lost. The contract forbids it, and no destructor of the model gets an
  object.
- "All pending tasks queued on the thread's message loop will run to completion
  before the thread is terminated" (`thread.h:20-22`), but delayed tasks are dropped;
  `StopWaitsForTasks` speaks of immediate tasks. `Stop` "returns once the thread has
  exited" (`thread.h:79`), but `DoIdleWork`, which quits, never comes while a repeating
  timer whose method takes longer than its delay runs, or while a delegate starts its
  watch of a signaled object again in each notification, as `object_watcher.h:52-53`
  tells it to. `StopEnds` has these two as premises.
- A watchdog remembers only the last break of the process (`watchdog.cc:26-30`): of
  two breaks within its duration, it makes up for one. `AlarmsOnlyWhenDue` speaks
  of the last.
- A notification in transit skips an observer that is removed, and reaches it if it
  is added again in time. `CallsOnlyWhenDue` counts it as a new observer.

## What is not modelled

Inside the modelled components:

- MessageLoop: destruction and task observers as lists, histograms, the
  high-resolution timer lease, structured exceptions, the `UI` and `IO` types.
  `DeleteSoon` and `ReleaseSoon` are posts.
- A task makes its calls one after another and posts any fresh task; what it
  computes does not matter.
- MessageLoopProxy: `OnDestruct` and `BelongsToCurrentThread`. The deletion of a
  closure that the proxy refused is its status.
- SequencedWorkerPool: the table of named tokens (a token is a value), the testing
  observer, thread names and tracing. Only `Owner` calls `Shutdown`, once, and
  destroys the pool when no other client is inside a call, as the reference that
  each of them holds requires.
- The lock and the event are the primitives of the system: mutual exclusion, and a
  flag that one wait resets.
- Windows pumps: a nested `Run` of the IO pump (nested waits for one handler are
  modelled), dispatchers, observers and message filters, `WM_QUIT`, sent
  messages, `PumpOutPendingPaintMessages`, the mouse work-around of `WaitForWork`,
  `os_modal_loop_` (nothing in the tree sets it), a full message queue. The embedded
  pump is started before the host's loop, as in the sample.
- ConditionVariable: the 10 ms that the destructor grants to hasty callers, and the
  choice between the two implementations. Watchdog: one that is not enabled.
- Static objects: the destructor of the `AtExitManager`, stacked managers,
  `Resurrect`, destructors that get objects, memory ordering (an atomic operation is
  one step). Weak pointers: `RefCounted` for one thread, the thread checker.
- Thread: a loop that quits by itself, so that `StopSoon` finds it ending or gone;
  a `DCHECK` (`thread.cc:167`) rules it out. A thread that cannot be created,
  `Init` and `CleanUp` of subclasses beyond calls to the loop's clients,
  `SimpleThread`. ObjectWatcher: failing system calls.
- Observer lists: `Clear`, a list that is deleted while it is iterated, a thread id
  that the system uses again.

The components that are not modelled at all, with their reasons, are in
`PROJECT.json`. Nearly all of the tree is of this kind: `ui`, `skia`, vendored
libraries, and sequential code of `base` for values, strings and files, where a
test or a proof about one function serves better than a model of states. The models
cover the parts of `base` whose state several threads, callbacks or messages share,
so the share of the tree's lines that they map stays small.
