--------------------------- MODULE StaticInstances ---------------------------
(***************************************************************************)
(* Objects that are created by whoever gets them first and destroyed at     *)
(* exit: LazyInstance and Singleton, which differ in no step, and the       *)
(* AtExitManager. The word of an object is 0 ("none"), the marker of a      *)
(* creation ("creating") or a pointer ("created"). A constructor may get    *)
(* other objects; a destructor gets none.                                   *)
(***************************************************************************)
EXTENDS Naturals, SequencesExt

CONSTANTS Callers, Main, \* the threads, and the one that processes the callbacks
          Instances,
          Leaky,         \* those with LeakyLazyInstanceTraits or LeakySingletonTraits
          StaticMemory,  \* those with StaticMemorySingletonTraits
          Parts          \* of each instance: those its constructor gets

Survivors == Leaky \union StaticMemory  \* may be used while others are destroyed

ASSUME InstancesAssumption ==
    /\ Main \in Callers
    /\ Leaky \subseteq Instances /\ StaticMemory \subseteq Instances \ Leaky
    /\ Parts \in [Instances -> SUBSET Instances]
    /\ \A i \in Survivors : Parts[i] \subseteq Survivors
ASSUME PartsAcyclic ==
    \A S \in SUBSET Instances : S # {} => \E i \in S : Parts[i] \cap S = {}

VARIABLES
    instance,   \* of each: its word, private_instance_ or instance_
    object,     \* of each: its memory, before, in and after its life
    dead,       \* StaticMemorySingletonTraits::dead_
    stage,      \* of each thread and instance: where the thread's call is
    got,        \* of each: the parts that its constructor got so far
    stack,      \* stack_ of the AtExitManager
    processing, \* where ProcessCallbacksNow is
    late        \* history: parts that were not registered before the instance
staticsVars == <<instance, object, dead, stage, got, stack, processing, late>>

StaticsInit ==
    /\ instance = [i \in Instances |-> "none"] /\ object = [i \in Instances |-> "none"]
    /\ dead = {}
    /\ stage = [t \in Callers |-> [i \in Instances |-> "out"]]
    /\ got = [i \in Instances |-> {}]
    /\ stack = <<>> /\ processing = "no"
    /\ late = [i \in Instances |-> {}]

Moves(t, i, to) == stage' = [stage EXCEPT ![t] = [@ EXCEPT ![i] = to]]
Outside(t) == \A i \in Instances : stage[t][i] = "out"

-----------------------------------------------------------------------------
(* LazyInstance::Pointer and Singleton::get. A call that finds the pointer  *)
(* returns it at once; what follows is the call that does not. While main   *)
(* destroys instances, only those made for it may be used.                  *)
Get(t, i) ==
    /\ Outside(t)
    /\ processing = "no" \/ (t # Main /\ i \in Survivors)
    /\ instance[i] # "created"
    /\ Moves(t, i, "racing")
    /\ UNCHANGED <<instance, object, dead, got, stack, processing, late>>

(* Slip: the word is read and written in two steps, without the compare.    *)
MustCreateUnlessCreated(i) == instance[i] # "created"

MustCreate(i) == instance[i] = "none"

(* Slip: the buffer is used again after the object's destruction.           *)
RefusesNever(i) == FALSE

(* StaticMemorySingletonTraits::New gives NULL but for the first time.      *)
Refuses(i) == i \in dead

CompareAndSwap(t, i) ==
    /\ stage[t][i] = "racing"
    /\ IF ~ MustCreate(i)
       THEN Moves(t, i, "waiting") /\ UNCHANGED <<instance, dead, got>>
       ELSE /\ instance' = [instance EXCEPT ![i] = "creating"]
            /\ dead' = dead \union ({i} \cap StaticMemory)
            /\ got' = [got EXCEPT ![i] = {}]
            /\ Moves(t, i, IF Refuses(i) THEN "refused" ELSE "constructing")
    /\ UNCHANGED <<object, stack, processing, late>>

(* Type(), as the innermost call of its thread.                             *)
InConstructor(t, i) ==
    /\ stage[t][i] = "constructing"
    /\ \A j \in Parts[i] : stage[t][j] = "out"

ConstructorGets(t, i, j) ==
    /\ InConstructor(t, i) /\ j \in Parts[i] \ got[i]
    /\ got' = [got EXCEPT ![i] = @ \union {j}]
    /\ IF instance[j] = "created" THEN UNCHANGED stage ELSE Moves(t, j, "racing")
    /\ UNCHANGED <<instance, object, dead, stack, processing, late>>

(* The pointer is stored before the destruction is registered.              *)
ConstructorReturns(t, i) ==
    /\ InConstructor(t, i) /\ got[i] = Parts[i]
    /\ object' = [object EXCEPT ![i] = "alive"]
    /\ instance' = [instance EXCEPT ![i] = "created"]
    /\ Moves(t, i, IF i \in Leaky THEN "out" ELSE "registering")
    /\ UNCHANGED <<dead, got, stack, processing, late>>

StoreNull(t, i) ==
    /\ stage[t][i] = "refused"
    /\ instance' = [instance EXCEPT ![i] = "none"]
    /\ Moves(t, i, "out")
    /\ UNCHANGED <<object, dead, got, stack, processing, late>>

(* Slip: the callbacks run in the order in which they were registered.      *)
PushedBelow(i) == <<i>> \o stack

Pushed(i) == Append(stack, i)

(* AtExitManager::RegisterCallback, under lock_.                            *)
RegisterCallback(t, i) ==
    /\ stage[t][i] = "registering" /\ processing = "no"
    /\ stack' = Pushed(i)
    /\ late' = [late EXCEPT ![i] =
                  {j \in Parts[i] : \E u \in Callers : stage[u][j] = "registering"}]
    /\ Moves(t, i, "out")
    /\ UNCHANGED <<instance, object, dead, got, processing>>

(* Slip: a thread that lost the race takes what it finds.                   *)
WaitForInstanceNot(t, i) ==
    /\ stage[t][i] = "waiting"
    /\ Moves(t, i, "out")
    /\ UNCHANGED <<instance, object, dead, got, stack, processing, late>>

(* WaitForInstance and the loop of NeedsLazyInstance: spin while another    *)
(* thread creates.                                                          *)
WaitForInstance(t, i) ==
    /\ stage[t][i] = "waiting" /\ instance[i] # "creating"
    /\ Moves(t, i, "out")
    /\ UNCHANGED <<instance, object, dead, got, stack, processing, late>>

-----------------------------------------------------------------------------
(* ProcessCallbacksNow holds lock_ from here until the stack is empty. No   *)
(* thread is in a call of an instance that must not be used meanwhile.      *)
BeginProcessing ==
    /\ processing = "no" /\ stack # <<>> /\ Outside(Main)
    /\ \A t \in Callers, i \in Instances : stage[t][i] # "out" => i \in Survivors
    /\ processing' = "callback"
    /\ UNCHANGED <<instance, object, dead, stage, got, stack, late>>

(* OnExit of the instance on top: Traits::Delete ...                        *)
DeleteInstance ==
    /\ processing = "callback"
    /\ object' = [object EXCEPT ![Last(stack)] = "destroyed"]
    /\ dead' = dead \union ({Last(stack)} \cap StaticMemory)
    /\ processing' = "deleted"
    /\ UNCHANGED <<instance, stage, got, stack, late>>

(* ... and its word is reset; the callback is popped.                       *)
FinishCallback ==
    /\ processing = "deleted"
    /\ instance' = [instance EXCEPT ![Last(stack)] = "none"]
    /\ stack' = Front(stack)
    /\ processing' = IF Len(stack) = 1 THEN "no" ELSE "callback"
    /\ UNCHANGED <<object, dead, stage, got, late>>

-----------------------------------------------------------------------------
InGet(t, i) ==
    \/ CompareAndSwap(t, i) \/ ConstructorReturns(t, i) \/ StoreNull(t, i)
    \/ RegisterCallback(t, i)
    \/ \E j \in Instances : ConstructorGets(t, i, j)
CallerStep(t) == \E i \in Instances : InGet(t, i)
ProcessCallbacks == DeleteInstance \/ FinishCallback

StaticsStep ==
    \/ \E t \in Callers, i \in Instances : Get(t, i) \/ WaitForInstance(t, i)
    \/ \E t \in Callers : CallerStep(t)
    \/ BeginProcessing \/ ProcessCallbacks

-----------------------------------------------------------------------------
Words == {"none", "creating", "created"}
Stages == {"out", "racing", "waiting", "constructing", "refused", "registering"}
StaticsTypeOK ==
    /\ instance \in [Instances -> Words]
    /\ object \in [Instances -> {"none", "alive", "destroyed"}]
    /\ dead \subseteq StaticMemory
    /\ stage \in [Callers -> [Instances -> Stages]]
    /\ got \in [Instances -> SUBSET Instances]
    /\ stack \in Seq(Instances \ Leaky)
    /\ processing \in {"no", "callback", "deleted"}
    /\ late \in [Instances -> SUBSET Instances]

Creates(t, i) == stage[t][i] \in {"constructing", "refused"}
Registers(t, i) == stage[t][i] = "registering"
ToDestroy(i) == processing = "deleted" /\ i = Last(stack)

ConstructedOnce ==
    \A i \in Instances :
        /\ instance[i] = "creating" <=> \E t \in Callers : Creates(t, i)
        /\ \A t, u \in Callers : Creates(t, i) /\ Creates(u, i) => t = u

ObjectsWhole ==
    \A i \in Instances :
        /\ instance[i] = "created" => object[i] = "alive" \/ ToDestroy(i)
        /\ \A t \in Callers : stage[t][i] = "waiting" /\ instance[i] = "none" =>
             i \in StaticMemory /\ object[i] = "destroyed"

ExitAccounted ==
    /\ IsInjective(stack)
    /\ \A i \in Instances \ Leaky :
         /\ instance[i] = "created" <=> i \in ToSet(stack) \/ \E t \in Callers : Registers(t, i)
         /\ \A t \in Callers : Registers(t, i) =>
              i \notin ToSet(stack) /\ \A u \in Callers : Registers(u, i) => t = u

NeverRevived ==
    \A i \in StaticMemory, t \in Callers :
        stage[t][i] = "constructing" => object[i] = "none"

PartsOutlive ==
    \A k \in DOMAIN stack : \A j \in Parts[stack[k]] \ (Survivors \union late[stack[k]]) :
        \E l \in 1 .. k - 1 : stack[l] = j

(* What static objects promise (lazy_instance.cc 15-58, singleton.h 94-136, *)
(* 232-287, at_exit.cc 54-75): one thread at a time creates an object, the   *)
(* others wait for it; whoever has a pointer has a whole object, until its  *)
(* callback destroys it, and only a dead static-memory singleton gives      *)
(* NULL; every object that is not leaky has one callback or is about to     *)
(* register it; a static-memory singleton is not made again after its       *)
(* destruction; and an object is destroyed before those its constructor     *)
(* got, but for those that another thread had yet to register.              *)
StaticsPromises ==
    ConstructedOnce /\ ObjectsWhole /\ ExitAccounted /\ NeverRevived /\ PartsOutlive
=============================================================================
