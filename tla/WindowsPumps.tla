---------------------------- MODULE WindowsPumps -----------------------------
(***************************************************************************)
(* The three Windows pumps, each with a message loop, the program on its   *)
(* thread and other threads that post: their specification and properties. *)
(* A behaviour runs one of the Programs, which has one of the pumps and    *)
(* uses some tasks, operations and clicks.                                 *)
(***************************************************************************)
EXTENDS MessagePumpForEmbed, MessagePumpForIO

CONSTANT Programs

ASSUME ProgramsAssumption ==
    \A program \in Programs :
        /\ program.pump \in {"UI", "IO", "Embed"}
        /\ program.tasks \subseteq Tasks /\ program.operations \subseteq Operations
        /\ program.leaving \subseteq Handlers
        /\ program.operations # {} => program.pump = "IO"
        /\ program.clicks \in Nat /\ (program.pump = "IO" => program.clicks = 0)

vars == <<pump, taskVars, nestableAllowed, frames, scheduleVars, timeVars, now, posting,
          started, clicks, ioVars>>

Init ==
    /\ \E program \in Programs :
         /\ pump = program.pump
         /\ status = [t \in Tasks |-> IF t \in program.tasks THEN "new" ELSE "unused"]
         /\ state = [o \in Operations |-> IF o \in program.operations THEN "pending"
                                          ELSE "unused"]
         /\ handler = [h \in Handlers |-> IF h \in program.leaving THEN "leaving"
                                          ELSE "staying"]
         /\ clicks = program.clicks
    /\ incoming = <<>> /\ work = <<>> /\ delayed = <<>>
    /\ runTime = [t \in Tasks |-> Null]
    /\ nestableAllowed = TRUE
    /\ haveWork = FALSE /\ queue = <<>>
    /\ delayedWorkTime = Null /\ wmTimer = Null /\ now = 1
    /\ posting = [p \in Posters |-> "idle"]
    /\ EmbedInit
    /\ IOInit

(* What the loop's thread does of itself, in the loop and the pumps.       *)
LoopStep == /\ \/ DoWorkFindsNothing \/ DoWorkTakesTask \/ DoIdleWork
               \/ DoDelayedWorkFindsNothing \/ DoDelayedWorkTakesTask
            /\ UNCHANGED <<pump, started, clicks, ioVars>>
WindowStep == \/ /\ \/ PeekNext \/ PeekReplacement \/ ExchangeHaveWork \/ DispatchReplacement
                    \/ UIStageDone \/ UIWaitReturns \/ UIDispatch \/ WorkMessageOutsideRun
                    \/ WorkMessageEnds \/ TimerMessageEnds
                 /\ UNCHANGED <<pump, started, clicks, ioVars>>
              \/ /\ EmbedDispatch \/ EmbedWorkMessage
                 /\ UNCHANGED <<pump, clicks, ioVars>>
IOStep == /\ \/ TakeSavedItem \/ GetIOItem \/ NoIOItem \/ ProcessInternalIOItem
             \/ IOStageDone \/ WaitForIOEnds
          /\ UNCHANGED <<pump, started, clicks>>
ThreadStep == LoopStep \/ WindowStep \/ IOStep

(* What the program and the user do.                                       *)
Returns == Finish /\ UNCHANGED <<pump, started, clicks, ioVars>>
Closes == CloseModal /\ UNCHANGED <<pump, started, clicks, ioVars>>
Program == \/ /\ OwnThreadPost \/ Quit \/ UIRun \/ UIRunNested \/ OpenModal
              /\ UNCHANGED <<pump, started, clicks, ioVars>>
           \/ UserInput /\ UNCHANGED <<pump, started, ioVars>>
           \/ EmbedQuit /\ UNCHANGED <<pump, clicks, ioVars>>
           \/ /\ IORun \/ WaitForIOCompletion \/ \E h \in Handlers : HandlerGone(h)
              /\ UNCHANGED <<pump, started, clicks>>

(* Other threads and the system.                                           *)
PosterStep(p) == /\ PosterExchanges(p) \/ PosterPosts(p)
                 /\ UNCHANGED <<pump, started, clicks, ioVars>>
Post(p) == PosterPushes(p) /\ UNCHANGED <<pump, started, clicks, ioVars>>
Completion(o) == CompleteIO(o) /\ UNCHANGED <<pump, started, clicks>>
Clock == Tick /\ UNCHANGED <<pump, started, clicks, ioVars>>

Next == \/ ThreadStep \/ Returns \/ Closes \/ Program \/ Clock
        \/ \E p \in Posters : PosterStep(p) \/ Post(p)
        \/ \E o \in Operations : Completion(o)

(* The operating system runs each thread; tasks and handlers return, and   *)
(* the user closes what he is asked to close, whatever else he does.       *)
Fairness == /\ WF_vars(ThreadStep) /\ WF_vars(Returns) /\ SF_vars(Closes) /\ WF_vars(Clock)
            /\ \A p \in Posters : WF_vars(PosterStep(p))
            /\ \A o \in Operations : WF_vars(Completion(o))

Spec == Init /\ [][Next]_vars
FairSpec == Spec /\ Fairness
-----------------------------------------------------------------------------
Messages == {HaveWork, Input} \cup Operations

TypeOK ==
    /\ pump \in {"UI", "IO", "Embed"}
    /\ incoming \in Seq(Tasks) /\ work \in Seq(Tasks) /\ delayed \in Seq(Tasks)
    /\ runTime \in [Tasks -> 0 .. MaxTime]
    /\ status \in [Tasks -> {"unused", "new", "queued", "running", "ran"}]
    /\ nestableAllowed \in BOOLEAN /\ haveWork \in BOOLEAN /\ started \in BOOLEAN
    /\ queue \in Seq(Messages) /\ clicks \in Nat
    /\ delayedWorkTime \in 0 .. MaxTime /\ wmTimer \in 0 .. MaxTime + 2
    /\ now \in 1 .. MaxTime + 1
    /\ posting \in [Posters -> {"idle", "exchange", "post"}]
    /\ completedIo \in Seq(Operations)
    /\ state \in [Operations -> {"unused", "pending", "completed", "saved", "done"}]
    /\ handler \in [Handlers -> {"staying", "leaving", "gone"}]

(* have_work_ is set exactly while one message stands for it: in the       *)
(* queue, about to be posted, or taken out by a pump that has not reset    *)
(* the flag yet.  So no second kMsgHaveWork is ever peeked, and a pump     *)
(* that resets the flag finds it set (the two DCHECKs of message_pump_win  *)
(* and the one of message_pump_embed_win); a wake-up is never lost.        *)
Resetting == {i \in DOMAIN frames :
    frames[i].pc \in {"PeekReplacement", "ResetOnly", "ResetInput", "ResetTimer", "Reset",
                      "Internal"} /\ ~frames[i].done}
InFlight == {p \in Posters : posting[p] = "post"}
HaveWorkAccounted ==
    /\ Cardinality({i \in DOMAIN queue : queue[i] = HaveWork}) + Cardinality(InFlight)
         + Cardinality(Resetting) = IF haveWork THEN 1 ELSE 0
    /\ ~At("Spurious")

(* A Run that sleeps, with no message and no wake-up on the way, has no    *)
(* task and no completion left to handle, and wakes up for the first       *)
(* delayed task.  The exception is a Run that a task nests without a       *)
(* ScopedNestableTaskAllower: it sleeps over its tasks until it ends.      *)
Settled == queue = <<>> /\ \A p \in Posters : posting[p] = "idle"
Asleep == /\ Settled /\ (At("Wait") \/ (At("WaitIO") /\ Top.fn = "Run"))
          /\ ~Forbids(Top)
SleepsOnNothing ==
    Asleep => /\ incoming = <<>> /\ work = <<>> /\ completedIo = <<>>
              /\ delayed # <<>> => /\ delayedWorkTime # Null
                                   /\ delayedWorkTime <= runTime[Earliest(delayed)]

(* A completion is handled at most once, after the system has reported    *)
(* it; those of one IO handler are handled in the order in which they were *)
(* reported, however waits for other handlers set some aside.              *)
Precedes(s, o, q) == \E i, j \in DOMAIN s : i < j /\ s[i] = o /\ s[j] = q
CompletionOrder ==
    /\ IsInjective(deliveries) /\ ToSet(deliveries) \subseteq ToSet(completions)
    /\ \A o, q \in Operations :
         /\ HandlerOfIO[o] = HandlerOfIO[q] /\ handler[HandlerOfIO[o]] # "gone"
         /\ Precedes(completions, o, q) /\ q \in ToSet(deliveries)
         => Precedes(deliveries, o, q)

(* "No further work is done once the quit flag is set" (message_pump.h):   *)
(* a Run whose should_quit is set starts no task itself.  Left open: what  *)
(* a native loop above it runs, and the turn of the IO pump that follows a *)
(* sleep, for DoRunLoop does not test the flag after WaitForWork().        *)
StartsTask == \E t \in Tasks : status[t] = "queued" /\ status'[t] = "running"
QuitStopsRun ==
    [][StartsTask /\ Top.fn = "Run" /\ Top.quit => pump = "IO" /\ At("DoWork")]_vars

SleepsForbidding == At("Wait") /\ Forbids(Top)
TaskRuns == pump # "Embed" =>
    \A t \in Tasks : (Running /\ status[t] = "queued")
                        ~> (~Running \/ status[t] # "queued" \/ SleepsForbidding)

CompletionHandled ==
    \A o \in Operations : (Running /\ state[o] \in {"completed", "saved"})
                             ~> (~Running \/ state[o] = "done")

(* A task that is posted runs, immediate or delayed, as long as the loop   *)
(* is in Run, whatever native loops come and go (message_pump_win.cc       *)
(* 222-276, 457-486); so is a completion handled, set aside or not.  Two   *)
(* things are presumed: every native loop ends (Fairness), for within one  *)
(* a task may starve (ServedInNativeLoops); and the task does not have to  *)
(* outlast a nested Run that forbids nestable tasks and sleeps.            *)
WorkIsDone == TaskRuns /\ CompletionHandled

(* "DoWork in particular must never be starved for time slices unless it   *)
(* returns false", also in nested loops outside of the pump's control      *)
(* (message_pump.h:101-105): when a native loop within Run waits for a     *)
(* message, nestable tasks are allowed and none is on its way, no task is  *)
(* left in the work queue, where DoWork would return true.                 *)
NativeLoopIdle == pump = "UI" /\ Running /\ At("Modal") /\ Settled
ServedInNativeLoops == NativeLoopIdle /\ nestableAllowed => work = <<>>

(* "With NestableTasksAllowed set to true, the task #2 will run right away. *)
(* Otherwise, it will get executed right after task #1 completes" (comment  *)
(* of SetNestableTasksAllowed, message_loop.h): once a host program with an *)
(* embedded pump is back in its own message loop, and there is no message   *)
(* left to dispatch, no task waits to be executed.                          *)
HostIdle == pump = "Embed" /\ started /\ Len(frames) = 1 /\ Settled
RunsAfterNestedLoop == HostIdle => incoming = <<>> /\ work = <<>>
=============================================================================
