--------------------------- MODULE LifetimesProofs ---------------------------
(***************************************************************************)
(* Proofs about the two parts that say how long an object lives: about      *)
(* StaticInstances, for any threads, any instances and any parts, and about *)
(* WeakReferences, for any flags and any finite number of weak references.  *)
(***************************************************************************)
EXTENDS StaticInstances, WeakReferences, SequenceLemmas, FiniteSetTheorems, TLAPS

(* Why the promises are kept. A static-memory singleton is dead from its    *)
(* first creation on, so that the next one finds it destroyed.              *)
DeadStay ==
    \A i \in Instances :
        /\ i \in StaticMemory /\ object[i] # "none" => i \in dead
        /\ i \in dead /\ instance[i] = "none" => object[i] = "destroyed"
        /\ \A t \in Callers :
             /\ stage[t][i] = "constructing" /\ i \in StaticMemory => i \in dead
             /\ stage[t][i] = "refused" => i \in StaticMemory /\ object[i] = "destroyed"
             /\ stage[t][i] = "registering" => i \notin Leaky

(* While callbacks run, threads are in calls of survivors only.             *)
ExitInProgress ==
    /\ processing # "no" =>
         /\ stack # <<>>
         /\ \A t \in Callers, i \in Instances : stage[t][i] # "out" => i \in Survivors
    /\ processing = "deleted" => object[Last(stack)] = "destroyed"

(* What a constructor got exists, and exists until its instance registers.  *)
PartsGot ==
    \A t \in Callers, i \in Instances :
        /\ got[i] \subseteq Parts[i]
        /\ stage[t][i] = "constructing" =>
             \A j \in got[i] :
                 j \in Survivors \/ instance[j] = "created" \/ stage[t][j] # "out"
        /\ stage[t][i] = "registering" =>
             \A j \in Parts[i] : j \in Survivors \/ instance[j] = "created"

StaticsInv ==
    /\ StaticsTypeOK /\ StaticsPromises
    /\ DeadStay /\ ExitInProgress /\ PartsGot

-----------------------------------------------------------------------------
LEMMA MovesOne ==
    ASSUME StaticsTypeOK, NEW t \in Callers, NEW i \in Instances,
           NEW to \in Stages, Moves(t, i, to)
    PROVE  /\ stage' \in [Callers -> [Instances -> Stages]]
           /\ \A u \in Callers, j \in Instances :
                stage'[u][j] = IF u = t /\ j = i THEN to ELSE stage[u][j]
BY DEF StaticsTypeOK, Moves

LEMMA SurvivorsParts ==
    ASSUME NEW i \in Instances, NEW j \in Parts[i]
    PROVE  j \in Instances /\ (i \in Survivors => j \in Survivors)
BY InstancesAssumption

LEMMA PartsUndisturbed ==
    ASSUME PartsOutlive, stack' = stack, late' = late
    PROVE  PartsOutlive'
BY DEF PartsOutlive

LEMMA SurvivorsAre ==
    Survivors \subseteq Instances /\ StaticMemory \subseteq Survivors /\ Leaky \subseteq Survivors
BY InstancesAssumption DEF Survivors

-----------------------------------------------------------------------------
LEMMA StaticsInitInv ==
    ASSUME StaticsInit
    PROVE  StaticsInv
<1> USE DEF StaticsInit
<1>1. StaticsTypeOK
  BY DEF StaticsTypeOK, Words, Stages
<1>2. ConstructedOnce /\ ObjectsWhole /\ NeverRevived
  BY InstancesAssumption DEF ConstructedOnce, ObjectsWhole, NeverRevived, Creates
<1>3. ExitAccounted /\ PartsOutlive
  BY DEF ExitAccounted, PartsOutlive, IsInjective, ToSet, Registers
<1>4. DeadStay /\ ExitInProgress /\ PartsGot
  BY DEF DeadStay, ExitInProgress, PartsGot
<1> QED
  BY <1>1, <1>2, <1>3, <1>4 DEF StaticsInv, StaticsPromises

(* Get, which only asks.                                                    *)
LEMMA GetKeeps ==
    ASSUME StaticsInv, NEW t \in Callers, NEW i \in Instances, Get(t, i)
    PROVE  StaticsInv'
<1> USE DEF StaticsInv, StaticsPromises, StaticsTypeOK
<1>1. /\ stage' \in [Callers -> [Instances -> Stages]]
      /\ \A u \in Callers, j \in Instances :
          stage'[u][j] = IF u = t /\ j = i THEN "racing" ELSE stage[u][j]
      /\ Outside(t) /\ (processing = "no" \/ i \in Survivors)
      /\ UNCHANGED <<instance, object, dead, got, stack, processing, late>>
  BY MovesOne DEF Get, Stages
<1>2. \A u \in Callers, j \in Instances :
        (Creates(u, j)' <=> Creates(u, j)) /\ (Registers(u, j)' <=> Registers(u, j))
  BY <1>1 DEF Creates, Registers, Outside
<1>3. ConstructedOnce' /\ ExitAccounted'
  <2>1. ConstructedOnce'
    BY <1>1, <1>2 DEF ConstructedOnce
  <2>2. ExitAccounted'
    BY <1>1, <1>2 DEF ExitAccounted
  <2> QED
    BY <2>1, <2>2
<1>4. ObjectsWhole' /\ NeverRevived' /\ PartsOutlive'
  <2>1. ObjectsWhole'
    BY <1>1, SurvivorsAre DEF ObjectsWhole, ToDestroy
  <2>2. NeverRevived'
    BY <1>1, SurvivorsAre DEF NeverRevived
  <2>3. PartsOutlive'
    BY <1>1, PartsUndisturbed
  <2> QED
    BY <2>1, <2>2, <2>3
<1>5. DeadStay' /\ ExitInProgress'
  <2>1. DeadStay'
    BY <1>1 DEF DeadStay
  <2>2. ExitInProgress'
    BY <1>1 DEF ExitInProgress
  <2> QED
    BY <2>1, <2>2
<1>6. PartsGot'
  BY <1>1 DEF PartsGot, Outside
<1> QED
  BY <1>1, <1>3, <1>4, <1>5, <1>6

LEMMA WaitForInstanceKeeps ==
    ASSUME StaticsInv, NEW t \in Callers, NEW i \in Instances, WaitForInstance(t, i)
    PROVE  StaticsInv'
<1> USE DEF StaticsInv, StaticsPromises, StaticsTypeOK
<1>1. /\ stage' \in [Callers -> [Instances -> Stages]]
      /\ \A u \in Callers, j \in Instances :
          stage'[u][j] = IF u = t /\ j = i THEN "out" ELSE stage[u][j]
      /\ stage[t][i] = "waiting" /\ instance[i] # "creating"
      /\ UNCHANGED <<instance, object, dead, got, stack, processing, late>>
  BY MovesOne DEF WaitForInstance, Stages
<1>2. \A u \in Callers, j \in Instances :
        (Creates(u, j)' <=> Creates(u, j)) /\ (Registers(u, j)' <=> Registers(u, j))
  BY <1>1 DEF Creates, Registers
<1>3. ConstructedOnce' /\ ExitAccounted'
  <2>1. ConstructedOnce'
    BY <1>1, <1>2 DEF ConstructedOnce
  <2>2. ExitAccounted'
    BY <1>1, <1>2 DEF ExitAccounted
  <2> QED
    BY <2>1, <2>2
<1>4. ObjectsWhole' /\ NeverRevived' /\ PartsOutlive'
  <2>1. ObjectsWhole'
    BY <1>1, SurvivorsAre DEF ObjectsWhole, ToDestroy
  <2>2. NeverRevived'
    BY <1>1, SurvivorsAre DEF NeverRevived
  <2>3. PartsOutlive'
    BY <1>1, PartsUndisturbed
  <2> QED
    BY <2>1, <2>2, <2>3
<1>5. DeadStay' /\ ExitInProgress'
  <2>1. DeadStay'
    BY <1>1 DEF DeadStay
  <2>2. ExitInProgress'
    BY <1>1 DEF ExitInProgress
  <2> QED
    BY <2>1, <2>2
<1>6. instance[i] = "created" \/ i \in Survivors
  BY <1>1, SurvivorsAre DEF ObjectsWhole, Words
<1>7. PartsGot'
  BY <1>1, <1>6 DEF PartsGot
<1> QED
  BY <1>1, <1>3, <1>4, <1>5, <1>7

LEMMA StoreNullKeeps ==
    ASSUME StaticsInv, NEW t \in Callers, NEW i \in Instances, StoreNull(t, i)
    PROVE  StaticsInv'
<1> USE DEF StaticsInv, StaticsPromises, StaticsTypeOK
<1>1. /\ stage' \in [Callers -> [Instances -> Stages]]
      /\ \A u \in Callers, j \in Instances :
          stage'[u][j] = IF u = t /\ j = i THEN "out" ELSE stage[u][j]
      /\ stage[t][i] = "refused"
      /\ instance' = [instance EXCEPT ![i] = "none"]
      /\ UNCHANGED <<object, dead, got, stack, processing, late>>
  BY MovesOne DEF StoreNull, Stages
<1>2. /\ \A j \in Instances : instance'[j] = IF j = i THEN "none" ELSE instance[j]
      /\ instance' \in [Instances -> Words]
  BY <1>1 DEF Words
<1>3. \A u \in Callers, j \in Instances :
        /\ Creates(u, j)' <=> Creates(u, j) /\ ~ (u = t /\ j = i)
        /\ Registers(u, j)' <=> Registers(u, j)
  BY <1>1 DEF Creates, Registers
<1>4. /\ Creates(t, i) /\ instance[i] = "creating"
      /\ \A u \in Callers : Creates(u, i) => u = t
  BY <1>1 DEF ConstructedOnce, Creates
<1>5. i \in StaticMemory /\ object[i] = "destroyed"
  BY <1>1 DEF DeadStay
<1>6. ConstructedOnce'
  BY <1>2, <1>3, <1>4 DEF ConstructedOnce
<1>7. ExitAccounted'
  BY <1>1, <1>2, <1>3, <1>4 DEF ExitAccounted
<1>8. ObjectsWhole' /\ NeverRevived' /\ PartsOutlive'
  <2>1. ObjectsWhole'
    BY <1>1, <1>2, <1>5, SurvivorsAre DEF ObjectsWhole, ToDestroy
  <2>2. NeverRevived'
    BY <1>1, <1>2, <1>5, SurvivorsAre DEF NeverRevived
  <2>3. PartsOutlive'
    BY <1>1, <1>2, <1>5, PartsUndisturbed
  <2> QED
    BY <2>1, <2>2, <2>3
<1>9. DeadStay' /\ ExitInProgress'
  <2>1. DeadStay'
    BY <1>1, <1>2, <1>5 DEF DeadStay
  <2>2. ExitInProgress'
    BY <1>1, <1>2, <1>5 DEF ExitInProgress
  <2> QED
    BY <2>1, <2>2
<1>10. PartsGot'
  <2>1. \A j \in Instances : instance'[j] = instance[j] \/ j \in Survivors
    BY <1>2, <1>5, SurvivorsAre
  <2>2. \A u \in Callers, j \in Instances :
          stage'[u][j] = stage[u][j] \/ (j \in Survivors /\ stage'[u][j] = "out")
    BY <1>1, <1>5, SurvivorsAre
  <2>3. \A h \in Instances : got[h] \subseteq Instances /\ Parts[h] \subseteq Instances
    BY InstancesAssumption
  <2>4. got' = got
    BY <1>1
  <2> HIDE DEF StaticsTypeOK
  <2> QED
    BY <2>1, <2>2, <2>3, <2>4 DEF PartsGot
<1> QED
  BY <1>1, <1>2, <1>6, <1>7, <1>8, <1>9, <1>10

LEMMA ConstructorReturnsKeeps ==
    ASSUME StaticsInv, NEW t \in Callers, NEW i \in Instances, ConstructorReturns(t, i)
    PROVE  StaticsInv'
<1> USE DEF StaticsInv, StaticsPromises, StaticsTypeOK
<1>1. /\ stage' \in [Callers -> [Instances -> Stages]]
      /\ \A u \in Callers, j \in Instances :
          stage'[u][j] = IF u = t /\ j = i THEN (IF i \in Leaky THEN "out" ELSE "registering")
                         ELSE stage[u][j]
      /\ stage[t][i] = "constructing" /\ \A j \in Parts[i] : stage[t][j] = "out"
      /\ got[i] = Parts[i]
      /\ object' = [object EXCEPT ![i] = "alive"]
      /\ instance' = [instance EXCEPT ![i] = "created"]
      /\ UNCHANGED <<dead, got, stack, processing, late>>
  BY MovesOne DEF ConstructorReturns, InConstructor, Stages
<1>2. /\ \A j \in Instances : instance'[j] = IF j = i THEN "created" ELSE instance[j]
      /\ \A j \in Instances : object'[j] = IF j = i THEN "alive" ELSE object[j]
      /\ instance' \in [Instances -> Words]
      /\ object' \in [Instances -> {"none", "alive", "destroyed"}]
  BY <1>1 DEF Words
<1>3. \A u \in Callers, j \in Instances :
        /\ Creates(u, j)' <=> Creates(u, j) /\ ~ (u = t /\ j = i)
        /\ Registers(u, j)' <=> Registers(u, j) \/ (u = t /\ j = i /\ i \notin Leaky)
  BY <1>1 DEF Creates, Registers
<1>4. /\ Creates(t, i) /\ instance[i] = "creating"
      /\ \A u \in Callers : Creates(u, i) => u = t
  BY <1>1 DEF ConstructedOnce, Creates
<1>5. i \notin Leaky => i \notin ToSet(stack) /\ \A u \in Callers : ~ Registers(u, i)
  BY <1>4 DEF ExitAccounted
<1>6. ConstructedOnce'
  BY <1>2, <1>3, <1>4 DEF ConstructedOnce
<1>7. ExitAccounted'
  BY <1>1, <1>2, <1>3, <1>4, <1>5 DEF ExitAccounted
<1>8. PartsOutlive' /\ NeverRevived'
  <2>1. \A u \in Callers : stage'[u][i] # "constructing"
    BY <1>1, <1>4 DEF Creates
  <2> QED
    BY <1>1, <1>2, <2>1, SurvivorsAre, PartsUndisturbed DEF NeverRevived
<1>9. ObjectsWhole'
  BY <1>1, <1>2 DEF ObjectsWhole, ToDestroy
<1>10. DeadStay'
  <2>1. \A u \in Callers : stage'[u][i] # "refused"
    BY <1>1, <1>4 DEF Creates
  <2> QED
    BY <1>1, <1>2, <2>1 DEF DeadStay
<1>11. ExitInProgress'
  <2>1. processing # "no" => Last(stack) # i
    <3>1. CASE processing # "no"
      <4>1. stack # <<>> /\ IsInjective(stack)
        BY <3>1 DEF ExitInProgress, ExitAccounted
      <4>2. Last(stack) \in ToSet(stack) /\ Last(stack) \in Instances \ Leaky
        BY <4>1, PoppedFrom
      <4> QED
        BY <1>5, <4>2
    <3> QED
      BY <3>1
  <2> QED
    BY <1>1, <1>2, <2>1 DEF ExitInProgress
<1>12. PartsGot'
  BY <1>1, <1>2 DEF PartsGot
<1> QED
  BY <1>1, <1>2, <1>6, <1>7, <1>8, <1>9, <1>10, <1>11, <1>12

LEMMA RegisterCallbackKeeps ==
    ASSUME StaticsInv, NEW t \in Callers, NEW i \in Instances, RegisterCallback(t, i)
    PROVE  StaticsInv'
<1> USE DEF StaticsInv, StaticsPromises, StaticsTypeOK
<1>1. /\ stage' \in [Callers -> [Instances -> Stages]]
      /\ \A u \in Callers, j \in Instances :
          stage'[u][j] = IF u = t /\ j = i THEN "out" ELSE stage[u][j]
      /\ stage[t][i] = "registering" /\ processing = "no"
      /\ stack' = Append(stack, i)
      /\ late' = [late EXCEPT ![i] =
            {j \in Parts[i] : \E u \in Callers : stage[u][j] = "registering"}]
      /\ UNCHANGED <<instance, object, dead, got, processing>>
  BY MovesOne DEF RegisterCallback, Pushed, Stages
<1>2. \A u \in Callers, j \in Instances :
        /\ Creates(u, j)' <=> Creates(u, j)
        /\ Registers(u, j)' <=> Registers(u, j) /\ ~ (u = t /\ j = i)
  BY <1>1 DEF Creates, Registers
<1>3. /\ Registers(t, i) /\ i \notin Leaky /\ instance[i] = "created" /\ i \notin ToSet(stack)
      /\ \A u \in Callers : Registers(u, i) => u = t
  BY <1>1 DEF ExitAccounted, Registers, DeadStay
<1>4. /\ stack' \in Seq(Instances \ Leaky) /\ ToSet(stack') = ToSet(stack) \union {i}
      /\ IsInjective(stack')
  BY <1>1, <1>3, PushedOnto DEF ExitAccounted
<1>5. /\ late' \in [Instances -> SUBSET Instances]
      /\ \A j \in Instances \ {i} : late'[j] = late[j]
      /\ \A j \in Parts[i] : (\E u \in Callers : Registers(u, j)) => j \in late'[i]
  <2>1. {j \in Parts[i] : \E u \in Callers : stage[u][j] = "registering"} \in SUBSET Instances
    BY InstancesAssumption
  <2> QED
    BY <1>1, <2>1 DEF Registers
<1>6. StaticsTypeOK'
  BY <1>1, <1>4, <1>5
<1>7. ConstructedOnce'
  BY <1>1, <1>2 DEF ConstructedOnce
<1>8. ExitAccounted'
  BY <1>1, <1>2, <1>3, <1>4 DEF ExitAccounted
<1>9. ObjectsWhole' /\ NeverRevived'
  <2>1. ObjectsWhole'
    BY <1>1 DEF ObjectsWhole, ToDestroy
  <2>2. NeverRevived'
    BY <1>1, SurvivorsAre DEF NeverRevived
  <2> QED
    BY <2>1, <2>2
<1>10. DeadStay' /\ ExitInProgress' /\ PartsGot'
  <2>1. DeadStay'
    BY <1>1 DEF DeadStay
  <2>2. ExitInProgress'
    BY <1>1 DEF ExitInProgress
  <2>3. \A j \in Instances : instance[j] = "created" \/ j \in Survivors \/ j # i
    BY <1>3
  <2>4. ASSUME NEW u \in Callers, NEW j \in Instances
        PROVE  /\ got'[j] \subseteq Parts[j]
               /\ stage'[u][j] = "constructing" =>
                    \A k \in got'[j] :
                        k \in Survivors \/ instance'[k] = "created" \/ stage'[u][k] # "out"
               /\ stage'[u][j] = "registering" =>
                    \A k \in Parts[j] : k \in Survivors \/ instance'[k] = "created"
    <3>1. /\ got' = got /\ instance' = instance
          /\ stage'[u][j] # "out" => stage[u][j] = stage'[u][j]
          /\ \A k \in Instances : stage'[u][k] = stage[u][k] \/ k = i
      BY <1>1
    <3>2. /\ got[j] \subseteq Parts[j] /\ Parts[j] \subseteq Instances
          /\ stage[u][j] = "constructing" =>
               \A k \in got[j] :
                   k \in Survivors \/ instance[k] = "created" \/ stage[u][k] # "out"
          /\ stage[u][j] = "registering" =>
               \A k \in Parts[j] : k \in Survivors \/ instance[k] = "created"
      BY InstancesAssumption DEF PartsGot
    <3> HIDE DEF StaticsInv, StaticsPromises, StaticsTypeOK
    <3> QED
      BY <2>3, <3>1, <3>2
  <2>5. PartsGot'
    BY <2>4 DEF PartsGot
  <2> QED
    BY <2>1, <2>2, <2>5
<1>11. PartsOutlive'
  <2>1. \A j \in Parts[i] \ (Survivors \union late'[i]) : j \in ToSet(stack)
    <3>1. ASSUME NEW j \in Parts[i], j \notin Survivors, j \notin late'[i]
          PROVE  j \in ToSet(stack)
      <4>1. j \in Instances \ Leaky
        BY <3>1, SurvivorsAre, InstancesAssumption
      <4>2. instance[j] = "created"
        BY <1>1, <3>1 DEF PartsGot
      <4>3. \A u \in Callers : ~ Registers(u, j)
        BY <1>5, <3>1
      <4> QED
        BY <4>1, <4>2, <4>3 DEF ExitAccounted
    <3> QED
      BY <3>1
  <2>2. /\ DOMAIN stack' = 1 .. Len(stack) + 1 /\ stack'[Len(stack) + 1] = i /\ Len(stack) \in Nat
        /\ \A k \in 1 .. Len(stack) : stack'[k] = stack[k] /\ stack[k] \in Instances \ {i}
        /\ DOMAIN stack = 1 .. Len(stack)
    BY <1>1, <1>3 DEF ToSet
  <2>3. ASSUME NEW k \in DOMAIN stack', NEW j \in Parts[stack'[k]] \ (Survivors \union late'[stack'[k]])
        PROVE  \E l \in 1 .. k - 1 : stack'[l] = j
    <3>1. CASE k = Len(stack) + 1
      <4>1. PICK l \in 1 .. Len(stack) : stack[l] = j
        BY <2>1, <2>2, <2>3, <3>1 DEF ToSet
      <4>2. l \in 1 .. k - 1 /\ stack'[l] = j
        <5>1. k - 1 = Len(stack)
          BY <2>2, <3>1
        <5>2. stack'[l] = stack[l]
          BY <2>2, <4>1
        <5> QED
          BY <4>1, <5>1, <5>2
      <4> QED
        BY <4>2
    <3>2. CASE k \in 1 .. Len(stack)
      <4>1. k \in DOMAIN stack /\ j \in Parts[stack[k]] \ (Survivors \union late[stack[k]])
        BY <1>5, <2>2, <2>3, <3>2
      <4>2. PICK l \in 1 .. k - 1 : stack[l] = j
        BY <4>1 DEF PartsOutlive
      <4> QED
        BY <2>2, <3>2, <4>2
    <3> QED
      BY <2>2, <3>1, <3>2
  <2> QED
    BY <2>3 DEF PartsOutlive
<1> QED
  BY <1>6, <1>7, <1>8, <1>9, <1>10, <1>11

LEMMA ConstructorGetsKeeps ==
    ASSUME StaticsInv, NEW t \in Callers, NEW i \in Instances, NEW k \in Instances,
           ConstructorGets(t, i, k)
    PROVE  StaticsInv'
<1> USE DEF StaticsInv, StaticsPromises, StaticsTypeOK
<1>1. /\ stage' \in [Callers -> [Instances -> Stages]]
      /\ k \in Parts[i] /\ stage[t][i] = "constructing" /\ stage[t][k] = "out"
      /\ \A u \in Callers, j \in Instances :
          stage'[u][j] = IF u = t /\ j = k /\ instance[k] # "created" THEN "racing" ELSE stage[u][j]
      /\ got' = [got EXCEPT ![i] = @ \union {k}]
      /\ UNCHANGED <<instance, object, dead, stack, processing, late>>
  BY MovesOne DEF ConstructorGets, InConstructor, Stages
<1>2. /\ got' \in [Instances -> SUBSET Instances]
      /\ \A j \in Instances : got'[j] = IF j = i THEN got[i] \union {k} ELSE got[j]
  BY <1>1
<1>3. \A u \in Callers, j \in Instances :
        (Creates(u, j)' <=> Creates(u, j)) /\ (Registers(u, j)' <=> Registers(u, j))
  BY <1>1 DEF Creates, Registers
<1>4. ConstructedOnce' /\ ExitAccounted'
  <2>1. ConstructedOnce'
    BY <1>1, <1>3 DEF ConstructedOnce
  <2>2. ExitAccounted'
    BY <1>1, <1>3 DEF ExitAccounted
  <2> QED
    BY <2>1, <2>2
<1>5. ObjectsWhole' /\ NeverRevived' /\ PartsOutlive'
  <2>1. ObjectsWhole'
    BY <1>1 DEF ObjectsWhole, ToDestroy
  <2>2. NeverRevived' /\ PartsOutlive'
    BY <1>1, SurvivorsAre, PartsUndisturbed DEF NeverRevived
  <2> QED
    BY <2>1, <2>2
<1>6. DeadStay' /\ ExitInProgress'
  <2>1. DeadStay'
    BY <1>1, SurvivorsParts DEF DeadStay
  <2>2. ExitInProgress'
    BY <1>1, SurvivorsParts DEF ExitInProgress
  <2> QED
    BY <2>1, <2>2
<1>7. PartsGot'
  <2>1. ASSUME NEW u \in Callers, NEW h \in Instances, stage'[u][h] = "constructing",
               NEW j \in got'[h]
        PROVE  j \in Survivors \/ instance'[j] = "created" \/ stage'[u][j] # "out"
    <3>1. stage[u][h] = "constructing"
      BY <1>1, <2>1
    <3>2. CASE j \in got[h]
      <4>1. j \in Instances
        BY <3>2
      <4>2. j \in Survivors \/ instance[j] = "created" \/ stage[u][j] # "out"
        BY <3>1, <3>2 DEF PartsGot
      <4> QED
        BY <1>1, <4>1, <4>2
    <3>3. CASE j \notin got[h]
      <4>1. h = i /\ j = k
        BY <1>2, <2>1, <3>3
      <4>2. u = t
        BY <1>1, <3>1, <4>1 DEF ConstructedOnce, Creates
      <4> QED
        BY <1>1, <4>1, <4>2
    <3> QED
      BY <3>2, <3>3
  <2>2. ASSUME NEW u \in Callers, NEW h \in Instances, stage'[u][h] = "registering",
               NEW j \in Parts[h]
        PROVE  j \in Survivors \/ instance'[j] = "created"
    BY <1>1, <2>2 DEF PartsGot
  <2>3. \A h \in Instances : got'[h] \subseteq Parts[h]
    BY <1>1, <1>2 DEF PartsGot
  <2> QED
    BY <2>1, <2>2, <2>3 DEF PartsGot
<1> QED
  BY <1>1, <1>2, <1>4, <1>5, <1>6, <1>7

(* The thread that loses the race, and the one that wins it.                *)
LEMMA LosesRaceKeeps ==
    ASSUME StaticsInv, NEW t \in Callers, NEW i \in Instances, CompareAndSwap(t, i),
           instance[i] # "none"
    PROVE  StaticsInv'
<1> USE DEF StaticsInv, StaticsPromises, StaticsTypeOK
<1>1. /\ stage' \in [Callers -> [Instances -> Stages]]
      /\ \A u \in Callers, j \in Instances :
          stage'[u][j] = IF u = t /\ j = i THEN "waiting" ELSE stage[u][j]
      /\ stage[t][i] = "racing"
      /\ UNCHANGED <<instance, object, dead, got, stack, processing, late>>
  BY MovesOne DEF CompareAndSwap, MustCreate, Stages
<1>2. \A u \in Callers, j \in Instances :
        (Creates(u, j)' <=> Creates(u, j)) /\ (Registers(u, j)' <=> Registers(u, j))
  BY <1>1 DEF Creates, Registers
<1>3. ConstructedOnce' /\ ExitAccounted'
  <2>1. ConstructedOnce'
    BY <1>1, <1>2 DEF ConstructedOnce
  <2>2. ExitAccounted'
    BY <1>1, <1>2 DEF ExitAccounted
  <2> QED
    BY <2>1, <2>2
<1>4. ObjectsWhole' /\ NeverRevived' /\ PartsOutlive'
  <2>1. ObjectsWhole'
    BY <1>1, SurvivorsAre DEF ObjectsWhole, ToDestroy
  <2>2. NeverRevived'
    BY <1>1, SurvivorsAre DEF NeverRevived
  <2>3. PartsOutlive'
    BY <1>1, PartsUndisturbed
  <2> QED
    BY <2>1, <2>2, <2>3
<1>5. DeadStay' /\ ExitInProgress'
  <2>1. DeadStay'
    BY <1>1 DEF DeadStay
  <2>2. ExitInProgress'
    BY <1>1 DEF ExitInProgress
  <2> QED
    BY <2>1, <2>2
<1>6. PartsGot'
  BY <1>1 DEF PartsGot
<1> QED
  BY <1>1, <1>3, <1>4, <1>5, <1>6

LEMMA WinsRaceKeeps ==
    ASSUME StaticsInv, NEW t \in Callers, NEW i \in Instances, CompareAndSwap(t, i),
           instance[i] = "none"
    PROVE  StaticsInv'
<1> USE DEF StaticsInv, StaticsPromises, StaticsTypeOK
<1>1. /\ stage' \in [Callers -> [Instances -> Stages]]
      /\ \A u \in Callers, j \in Instances :
          stage'[u][j] = IF u = t /\ j = i THEN (IF i \in dead THEN "refused" ELSE "constructing")
                         ELSE stage[u][j]
      /\ stage[t][i] = "racing"
      /\ instance' = [instance EXCEPT ![i] = "creating"]
      /\ dead' = dead \union ({i} \cap StaticMemory)
      /\ got' = [got EXCEPT ![i] = {}]
      /\ UNCHANGED <<object, stack, processing, late>>
  BY MovesOne DEF CompareAndSwap, MustCreate, Refuses, Stages
<1>2. /\ \A j \in Instances : instance'[j] = IF j = i THEN "creating" ELSE instance[j]
      /\ \A j \in Instances : got'[j] = IF j = i THEN {} ELSE got[j]
      /\ instance' \in [Instances -> Words] /\ got' \in [Instances -> SUBSET Instances]
      /\ dead' \subseteq StaticMemory
  BY <1>1 DEF Words
<1>3. \A u \in Callers, j \in Instances :
        /\ Creates(u, j)' <=> Creates(u, j) \/ (u = t /\ j = i)
        /\ Registers(u, j)' <=> Registers(u, j)
  BY <1>1 DEF Creates, Registers
<1>4. \A u \in Callers : ~ Creates(u, i)
  BY DEF ConstructedOnce
<1>5. ConstructedOnce'
  BY <1>2, <1>3, <1>4 DEF ConstructedOnce
<1>6. ExitAccounted'
  BY <1>1, <1>2, <1>3 DEF ExitAccounted
<1>7. i \in dead => i \in StaticMemory /\ object[i] = "destroyed"
  BY DEF DeadStay
<1>8. i \in StaticMemory /\ i \notin dead => object[i] = "none"
  BY DEF DeadStay
<1>9. ObjectsWhole' /\ PartsOutlive'
  <2>1. ObjectsWhole'
    BY <1>1, <1>2, PartsUndisturbed DEF ObjectsWhole, ToDestroy
  <2>2. PartsOutlive'
    BY <1>1, <1>2, PartsUndisturbed DEF ToDestroy
  <2> QED
    BY <2>1, <2>2
<1>10. NeverRevived'
  BY <1>1, <1>8, SurvivorsAre DEF NeverRevived
<1>11. DeadStay'
  BY <1>1, <1>2, <1>7 DEF DeadStay
<1>12. ExitInProgress'
  BY <1>1 DEF ExitInProgress
<1>13. PartsGot'
  BY <1>1, <1>2 DEF PartsGot
<1> QED
  BY <1>1, <1>2, <1>5, <1>6, <1>9, <1>10, <1>11, <1>12, <1>13

LEMMA BeginProcessingKeeps ==
    ASSUME StaticsInv, BeginProcessing
    PROVE  StaticsInv'
<1> USE DEF StaticsInv, StaticsPromises, StaticsTypeOK
<1>1. /\ stack # <<>> /\ processing = "no" /\ processing' = "callback"
      /\ \A t \in Callers, i \in Instances : stage[t][i] # "out" => i \in Survivors
      /\ UNCHANGED <<instance, object, dead, stage, got, stack, late>>
  BY DEF BeginProcessing
<1>2. ConstructedOnce' /\ ExitAccounted' /\ NeverRevived' /\ PartsOutlive' /\ DeadStay' /\ PartsGot'
  <2>1. ConstructedOnce'
    BY <1>1 DEF ConstructedOnce, Creates, Registers
  <2>2. ExitAccounted'
    BY <1>1 DEF ExitAccounted, Creates, Registers
  <2>3. NeverRevived'
    BY <1>1 DEF NeverRevived, Creates, Registers
  <2>4. PartsOutlive'
    BY <1>1 DEF PartsOutlive, Creates, Registers
  <2>5. DeadStay'
    BY <1>1 DEF DeadStay, Creates, Registers
  <2>6. PartsGot'
    BY <1>1 DEF PartsGot, Creates, Registers
  <2> QED
    BY <2>1, <2>2, <2>3, <2>4, <2>5, <2>6
<1>3. ObjectsWhole' /\ ExitInProgress'
  <2>1. ObjectsWhole'
    BY <1>1 DEF ObjectsWhole, ToDestroy
  <2>2. ExitInProgress'
    BY <1>1 DEF ExitInProgress, ToDestroy
  <2> QED
    BY <2>1, <2>2
<1> QED
  BY <1>1, <1>2, <1>3

(* The callback on top of the stack is that of an instance that exists.     *)
LEMMA TopExists ==
    ASSUME StaticsInv, processing # "no"
    PROVE  /\ stack # <<>> /\ IsInjective(stack)
           /\ Last(stack) \in Instances \ Leaky /\ Last(stack) \in ToSet(stack)
           /\ instance[Last(stack)] = "created"
           /\ \A t \in Callers : ~ Creates(t, Last(stack)) /\ ~ Registers(t, Last(stack))
<1> USE DEF StaticsInv, StaticsPromises, StaticsTypeOK
<1>1. stack # <<>> /\ IsInjective(stack)
  BY DEF ExitInProgress, ExitAccounted
<1>2. Last(stack) \in Instances \ Leaky /\ Last(stack) \in ToSet(stack)
  BY <1>1, PoppedFrom
<1>3. instance[Last(stack)] = "created" /\ \A t \in Callers : ~ Registers(t, Last(stack))
  BY <1>2 DEF ExitAccounted
<1>4. \A t \in Callers : ~ Creates(t, Last(stack))
  BY <1>2, <1>3 DEF ConstructedOnce
<1> QED
  BY <1>1, <1>2, <1>3, <1>4

LEMMA DeleteInstanceKeeps ==
    ASSUME StaticsInv, DeleteInstance
    PROVE  StaticsInv'
<1> USE DEF StaticsInv, StaticsPromises, StaticsTypeOK
<1> DEFINE top == Last(stack)
<1>1. /\ processing = "callback" /\ processing' = "deleted"
      /\ object' = [object EXCEPT ![top] = "destroyed"]
      /\ dead' = dead \union ({top} \cap StaticMemory)
      /\ UNCHANGED <<instance, stage, got, stack, late>>
  BY DEF DeleteInstance
<1>2. /\ stack # <<>> /\ top \in Instances /\ instance[top] = "created"
      /\ \A t \in Callers : ~ Creates(t, top)
  BY <1>1, TopExists
<1>3. /\ \A j \in Instances : object'[j] = IF j = top THEN "destroyed" ELSE object[j]
      /\ object' \in [Instances -> {"none", "alive", "destroyed"}] /\ dead' \subseteq StaticMemory
  BY <1>1
<1> HIDE DEF top
<1>4. ConstructedOnce' /\ ExitAccounted' /\ PartsOutlive' /\ PartsGot'
  <2>1. ConstructedOnce'
    BY <1>1 DEF ConstructedOnce, Creates, Registers
  <2>2. ExitAccounted'
    BY <1>1 DEF ExitAccounted, Creates, Registers
  <2>3. PartsOutlive'
    BY <1>1 DEF PartsOutlive, Creates, Registers
  <2>4. PartsGot'
    BY <1>1 DEF PartsGot, Creates, Registers
  <2> QED
    BY <2>1, <2>2, <2>3, <2>4
<1>5. ObjectsWhole'
  BY <1>1, <1>3 DEF ObjectsWhole, ToDestroy, top
<1>6. NeverRevived'
  BY <1>1, <1>2, <1>3 DEF NeverRevived, Creates
<1>7. DeadStay'
  BY <1>1, <1>2, <1>3 DEF DeadStay, Creates
<1>8. ExitInProgress'
  BY <1>1, <1>2, <1>3 DEF ExitInProgress, top
<1> QED
  BY <1>1, <1>3, <1>4, <1>5, <1>6, <1>7, <1>8

LEMMA FinishCallbackKeeps ==
    ASSUME StaticsInv, FinishCallback
    PROVE  StaticsInv'
<1> USE DEF StaticsInv, StaticsPromises, StaticsTypeOK
<1> DEFINE top == Last(stack)
<1>1. /\ processing = "deleted" /\ processing' = (IF Len(stack) = 1 THEN "no" ELSE "callback")
      /\ instance' = [instance EXCEPT ![top] = "none"]
      /\ stack' = Front(stack)
      /\ UNCHANGED <<object, dead, stage, got, late>>
  BY DEF FinishCallback
<1>2. /\ stack # <<>> /\ IsInjective(stack) /\ top \in Instances \ Leaky
      /\ instance[top] = "created"
      /\ \A t \in Callers : ~ Creates(t, top) /\ ~ Registers(t, top)
  BY <1>1, TopExists
<1>3. /\ \A j \in Instances : instance'[j] = IF j = top THEN "none" ELSE instance[j]
      /\ instance' \in [Instances -> Words]
  BY <1>1 DEF Words
<1>4. /\ stack' \in Seq(Instances \ Leaky) /\ ToSet(stack') = ToSet(stack) \ {top}
      /\ IsInjective(stack') /\ Len(stack) \in Nat \ {0} /\ Len(stack') = Len(stack) - 1
      /\ DOMAIN stack' = 1 .. Len(stack) - 1 /\ DOMAIN stack = 1 .. Len(stack)
      /\ \A k \in 1 .. Len(stack) - 1 : stack'[k] = stack[k]
  BY <1>1, <1>2, PoppedFrom
<1>5. object[top] = "destroyed"
  BY <1>1 DEF ExitInProgress
<1>6. \A t \in Callers, i \in Instances : stage[t][i] # "out" => i \in Survivors
  BY <1>1 DEF ExitInProgress
<1>7. StaticsTypeOK'
  BY <1>1, <1>3, <1>4
<1>8. ConstructedOnce'
  <2>1. \A u \in Callers, j \in Instances : Creates(u, j)' <=> Creates(u, j)
    BY <1>1 DEF Creates
  <2> HIDE DEF top
  <2> QED
    BY <1>2, <1>3, <2>1 DEF ConstructedOnce
<1>9. ExitAccounted'
  <2>1. \A u \in Callers, j \in Instances : Registers(u, j)' <=> Registers(u, j)
    BY <1>1 DEF Registers
  <2> HIDE DEF top
  <2> QED
    BY <1>2, <1>3, <1>4, <2>1 DEF ExitAccounted
<1>10. ObjectsWhole'
  <2>1. \A i \in Instances : instance'[i] = "created" => object'[i] = "alive"
    BY <1>1, <1>3 DEF ObjectsWhole, ToDestroy
  <2>2. \A i \in Instances, t \in Callers : stage'[t][i] = "waiting" /\ instance'[i] = "none" =>
          i \in StaticMemory /\ object'[i] = "destroyed"
    <3> HIDE DEF top
    <3>1. \A t \in Callers : stage[t][top] = "waiting" => top \in StaticMemory
      BY <1>2, <1>6 DEF Survivors
    <3> QED
      BY <1>1, <1>3, <1>5, <3>1 DEF ObjectsWhole
  <2> QED
    BY <2>1, <2>2 DEF ObjectsWhole
<1>11. NeverRevived'
  BY <1>1 DEF NeverRevived
<1>12. PartsOutlive'
  <2>1. ASSUME NEW k \in DOMAIN stack', NEW j \in Parts[stack'[k]] \ (Survivors \union late'[stack'[k]])
        PROVE  \E l \in 1 .. k - 1 : stack'[l] = j
    <3>1. k \in DOMAIN stack /\ j \in Parts[stack[k]] \ (Survivors \union late[stack[k]])
      BY <1>1, <1>4, <2>1
    <3>2. PICK l \in 1 .. k - 1 : stack[l] = j
      BY <3>1 DEF PartsOutlive
    <3> QED
      BY <1>4, <2>1, <3>2
  <2> QED
    BY <2>1 DEF PartsOutlive
<1>13. DeadStay'
  <2> HIDE DEF top
  <2> QED
    BY <1>1, <1>2, <1>3, <1>5 DEF DeadStay
<1>14. ExitInProgress'
  <2>1. processing' # "no" => stack' # <<>>
    BY <1>1, <1>4
  <2> QED
    BY <1>1, <1>6, <2>1 DEF ExitInProgress
<1>15. PartsGot'
  <2>1. ASSUME NEW t \in Callers, NEW i \in Instances, stage[t][i] # "out",
               NEW j \in Parts[i]
        PROVE  j \in Survivors
    BY <1>6, <2>1, SurvivorsParts
  <2> QED
    BY <1>1, <2>1 DEF PartsGot
<1> QED
  BY <1>7, <1>8, <1>9, <1>10, <1>11, <1>12, <1>13, <1>14, <1>15

(* Every step of a thread or of the exit keeps the invariant.               *)
LEMMA StaticsStepInv ==
    ASSUME StaticsInv, [StaticsStep]_staticsVars
    PROVE  StaticsInv'
<1>1. CASE UNCHANGED staticsVars
  BY <1>1 DEF staticsVars, StaticsInv, StaticsPromises, StaticsTypeOK, ConstructedOnce, Creates,
     ObjectsWhole, ToDestroy, ExitAccounted, Registers, NeverRevived, PartsOutlive, DeadStay,
     ExitInProgress, PartsGot
<1>2. ASSUME NEW t \in Callers, NEW i \in Instances, Get(t, i) \/ WaitForInstance(t, i)
      PROVE  StaticsInv'
  BY <1>2, GetKeeps, WaitForInstanceKeeps
<1>3. ASSUME NEW t \in Callers, NEW i \in Instances, InGet(t, i)
      PROVE  StaticsInv'
  BY <1>3, LosesRaceKeeps, WinsRaceKeeps, ConstructorReturnsKeeps, StoreNullKeeps,
     RegisterCallbackKeeps, ConstructorGetsKeeps DEF InGet
<1>4. CASE BeginProcessing \/ ProcessCallbacks
  BY <1>4, BeginProcessingKeeps, DeleteInstanceKeeps, FinishCallbackKeeps DEF ProcessCallbacks
<1> QED
  BY <1>1, <1>2, <1>3, <1>4 DEF StaticsStep, CallerStep

-----------------------------------------------------------------------------
(* The owner's flag is valid; while the owner is about to replace it, no    *)
(* weak reference has it.                                                   *)
OwnersFlag ==
    /\ flag # NoFlag => flag \in valid
    /\ getting = "copying" => flag # NoFlag
    /\ getting = "renewing" => Holders(flag) = {} \/ flag = NoFlag

WeakInv == WeakTypeOK /\ WeakPromises /\ OwnersFlag

-----------------------------------------------------------------------------
(* One place more that holds a flag, and one place less.                    *)
LEMMA HoldersOneMore ==
    ASSUME NEW S \in SUBSET References, NEW r \in References, r \notin S
    PROVE  Cardinality(S \union {r}) = Cardinality(S) + 1
BY FlagsAssumption, FS_Subset, FS_AddElement

LEMMA HoldersOneLess ==
    ASSUME NEW S \in SUBSET References, NEW r \in S
    PROVE  Cardinality(S \ {r}) = Cardinality(S) - 1
BY FlagsAssumption, FS_Subset, FS_RemoveElement

LEMMA HoldersNat ==
    ASSUME NEW S \in SUBSET References
    PROVE  Cardinality(S) \in Nat /\ (Cardinality(S) = 0 <=> S = {})
BY FlagsAssumption, FS_Subset, FS_CardinalityType, FS_EmptySet

(* What a count says of the places that hold the flag.                      *)
LEMMA CountsTell ==
    ASSUME WeakTypeOK, RefsCounted, NEW f \in Flags
    PROVE  /\ refCount[f] = 0 => f # flag /\ Holders(f) = {}
           /\ f = flag /\ refCount[f] = 1 => Holders(f) = {}
           /\ f = flag => refCount[f] > 0
           /\ Holders(f) # {} => refCount[f] > 0
<1> Holders(f) \in SUBSET References
  BY DEF Holders
<1> DEFINE n == Cardinality(Holders(f))
<1>1. n \in Nat /\ (n = 0 <=> Holders(f) = {})
  BY HoldersNat
<1>2. refCount[f] = n + (IF flag = f THEN 1 ELSE 0)
  BY DEF RefsCounted
<1> QED
  BY <1>1, <1>2

-----------------------------------------------------------------------------
(* A place takes up a flag.                                                 *)
LEMMA TakesUp ==
    ASSUME WeakTypeOK, RefsCounted, NEW r \in References, NEW f \in Flags,
           ref[r] = NoFlag, ref' = [ref EXCEPT ![r] = f],
           refCount' = [refCount EXCEPT ![f] = @ + 1], flag' = flag
    PROVE  RefsCounted' /\ refCount' \in [Flags -> Nat]
                        /\ ref' \in [References -> Flags \union {NoFlag}]
<1> USE DEF WeakTypeOK
<1>1. NoFlag \notin Flags
  BY FlagsAssumption
<1>2. Holders(f)' = Holders(f) \union {r} /\ r \notin Holders(f)
  BY <1>1 DEF Holders
<1>3. \A g \in Flags \ {f} : Holders(g)' = Holders(g)
  BY <1>1 DEF Holders
<1>4. Holders(f) \in SUBSET References
  BY DEF Holders
<1>5. Cardinality(Holders(f)') = Cardinality(Holders(f)) + 1 /\ Cardinality(Holders(f)) \in Nat
  BY <1>2, <1>4, HoldersOneMore, HoldersNat
<1>6. ASSUME NEW g \in Flags
      PROVE  refCount'[g] = Cardinality(Holders(g)') + (IF flag' = g THEN 1 ELSE 0)
  <2>1. refCount[g] = Cardinality(Holders(g)) + (IF flag = g THEN 1 ELSE 0)
    BY DEF RefsCounted
  <2>2. CASE g = f
    BY <1>5, <2>1, <2>2
  <2>3. CASE g # f
    BY <1>3, <2>1, <2>3
  <2> QED
    BY <2>2, <2>3
<1> QED
  BY <1>6 DEF RefsCounted

(* A place gives up its flag.                                               *)
LEMMA GivesUp ==
    ASSUME WeakTypeOK, RefsCounted, NEW r \in References, NEW f \in Flags,
           ref[r] = f, ref' = [ref EXCEPT ![r] = NoFlag],
           refCount' = [refCount EXCEPT ![f] = @ - 1], flag' = flag
    PROVE  RefsCounted' /\ refCount' \in [Flags -> Nat]
                        /\ ref' \in [References -> Flags \union {NoFlag}]
<1> USE DEF WeakTypeOK
<1>1. NoFlag \notin Flags
  BY FlagsAssumption
<1>2. Holders(f)' = Holders(f) \ {r} /\ r \in Holders(f)
  BY <1>1 DEF Holders
<1>3. \A g \in Flags \ {f} : Holders(g)' = Holders(g)
  BY <1>1 DEF Holders
<1>4. Holders(f) \in SUBSET References /\ Holders(f)' \in SUBSET References
  BY DEF Holders
<1>5. Cardinality(Holders(f)') = Cardinality(Holders(f)) - 1
  BY <1>2, <1>4, HoldersOneLess
<1>6. Cardinality(Holders(f)') \in Nat /\ Cardinality(Holders(f)) \in Nat
  BY <1>4, HoldersNat
<1>7. ASSUME NEW g \in Flags
      PROVE  refCount'[g] = Cardinality(Holders(g)') + (IF flag' = g THEN 1 ELSE 0)
  <2>1. refCount[g] = Cardinality(Holders(g)) + (IF flag = g THEN 1 ELSE 0)
    BY DEF RefsCounted
  <2>2. CASE g = f
    BY <1>5, <1>6, <2>1, <2>2
  <2>3. CASE g # f
    BY <1>3, <2>1, <2>3
  <2> QED
    BY <2>2, <2>3
<1>8. refCount' \in [Flags -> Nat]
  <2>1. refCount'[f] = Cardinality(Holders(f)') + (IF flag' = f THEN 1 ELSE 0)
    BY <1>7
  <2>2. refCount'[f] \in Nat
    BY <1>6, <2>1
  <2> QED
    BY <2>2
<1> QED
  BY <1>7, <1>8 DEF RefsCounted

-----------------------------------------------------------------------------
LEMMA WeakInitInv ==
    ASSUME WeakInit
    PROVE  WeakInv
<1> USE FlagsAssumption DEF WeakInit
<1>1. WeakTypeOK
  BY DEF WeakTypeOK
<1>2. \A f \in Flags : Holders(f) = {} /\ flag # f
  BY DEF Holders
<1>3. RefsCounted
  BY <1>2, FS_EmptySet DEF RefsCounted
<1> QED
  BY <1>1, <1>3 DEF WeakInv, WeakPromises, CurrentShareFlag, ValidMeansCurrent, OwnersFlag

(* GetRef asks, and goes on to replace a flag that is nobody else's.        *)
LEMMA GetRefKeeps ==
    ASSUME WeakInv, GetRef
    PROVE  WeakInv'
<1> USE DEF WeakInv, WeakPromises, GetRef
<1>1. WeakTypeOK'
  BY DEF WeakTypeOK
<1>2. RefsCounted' /\ CurrentShareFlag' /\ ValidMeansCurrent'
  BY DEF RefsCounted, CurrentShareFlag, ValidMeansCurrent, Holders
<1>3. OwnersFlag'
  <2>1. CASE HasRefs
    BY <2>1 DEF OwnersFlag, HasRefs
  <2>2. CASE ~ HasRefs
    <3>1. flag = NoFlag \/ (flag \in Flags /\ refCount[flag] = 1)
      BY <2>2 DEF HasRefs, WeakTypeOK
    <3>2. flag = NoFlag \/ Holders(flag) = {}
      BY <3>1, CountsTell
    <3> QED
      BY <2>2, <3>2 DEF OwnersFlag, Holders
  <2> QED
    BY <2>1, <2>2
<1> QED
  BY <1>1, <1>2, <1>3

LEMMA RenewFlagKeeps ==
    ASSUME WeakInv, RenewFlag
    PROVE  WeakInv'
<1> USE DEF WeakInv, WeakPromises
<1>1. PICK f \in Flags :
        /\ refCount[f] = 0
        /\ refCount' = [g \in Flags |-> IF g = f THEN 1
                                        ELSE IF g = flag THEN refCount[g] - 1 ELSE refCount[g]]
        /\ valid' = valid \union {f} /\ flag' = f
  BY DEF RenewFlag
<1>2. getting' = "copying" /\ ref' = ref /\ current' = current
  BY DEF RenewFlag
<1>3. NoFlag \notin Flags /\ f # flag /\ Holders(f) = {}
  BY <1>1, CountsTell, FlagsAssumption
<1>4. Holders(flag) = {} \/ flag = NoFlag
  BY DEF RenewFlag, OwnersFlag
<1>5. current = {}
  BY <1>4 DEF CurrentShareFlag, Holders, WeakTypeOK
<1>6. \A r \in References : ref[r] # f
  BY <1>3 DEF Holders
<1>7. ASSUME NEW g \in Flags
      PROVE  /\ Holders(g)' = Holders(g)
             /\ refCount'[g] = Cardinality(Holders(g)) + (IF flag' = g THEN 1 ELSE 0)
             /\ refCount'[g] \in Nat
  <2>1. Holders(g)' = Holders(g)
    BY <1>2 DEF Holders
  <2>2. refCount[g] = Cardinality(Holders(g)) + (IF flag = g THEN 1 ELSE 0) /\ refCount[g] \in Nat
    BY DEF RefsCounted, WeakTypeOK
  <2>3. Cardinality(Holders(g)) \in Nat
    <3> Holders(g) \in SUBSET References
      BY DEF Holders
    <3> QED
      BY HoldersNat
  <2>4. CASE g = f
    BY <1>1, <1>3, <2>1, <2>4, FS_EmptySet
  <2>5. CASE g = flag
    BY <1>1, <1>3, <2>1, <2>2, <2>3, <2>5
  <2>6. CASE g # f /\ g # flag
    BY <1>1, <2>1, <2>2, <2>6
  <2> QED
    BY <2>4, <2>5, <2>6
<1>8. RefsCounted'
  BY <1>2, <1>7 DEF RefsCounted, Holders
<1>9. WeakTypeOK'
  <2>1. refCount' \in [Flags -> Nat]
    BY <1>1, <1>7
  <2> QED
    BY <1>1, <1>2, <2>1 DEF WeakTypeOK
<1>10. CurrentShareFlag' /\ ValidMeansCurrent'
  BY <1>1, <1>2, <1>5, <1>6 DEF CurrentShareFlag, ValidMeansCurrent
<1>11. OwnersFlag'
  BY <1>1, <1>2, <1>3 DEF OwnersFlag
<1> QED
  BY <1>8, <1>9, <1>10, <1>11

LEMMA ReturnReferenceKeeps ==
    ASSUME WeakInv, NEW r \in References, ReturnReference(r)
    PROVE  WeakInv'
<1> USE DEF WeakInv, WeakPromises
<1>1. /\ getting = "copying" /\ ref[r] = NoFlag /\ getting' = "no"
      /\ ref' = [ref EXCEPT ![r] = flag] /\ refCount' = [refCount EXCEPT ![flag] = @ + 1]
      /\ current' = current \union {r} /\ flag' = flag /\ valid' = valid
  BY DEF ReturnReference, AddRef
<1>2. flag \in Flags /\ flag # NoFlag /\ flag \in valid
  BY <1>1 DEF OwnersFlag, WeakTypeOK
<1>3. /\ RefsCounted' /\ refCount' \in [Flags -> Nat]
      /\ ref' \in [References -> Flags \union {NoFlag}]
  BY <1>1, <1>2, TakesUp
<1>4. WeakTypeOK'
  BY <1>1, <1>3 DEF WeakTypeOK
<1>5. CurrentShareFlag' /\ ValidMeansCurrent'
  BY <1>1, <1>2 DEF WeakTypeOK, CurrentShareFlag, ValidMeansCurrent
<1>6. OwnersFlag'
  BY <1>1, <1>2 DEF OwnersFlag
<1> QED
  BY <1>3, <1>4, <1>5, <1>6

LEMMA InvalidateKeeps ==
    ASSUME WeakInv, Invalidate
    PROVE  WeakInv'
<1> USE DEF WeakInv, WeakPromises
<1>1. /\ getting = "no" /\ flag # NoFlag /\ valid' = valid \ {flag}
      /\ refCount' = [refCount EXCEPT ![flag] = @ - 1] /\ flag' = NoFlag
      /\ current' = {} /\ ref' = ref /\ getting' = getting
  BY DEF Invalidate, DecRef
<1>2. flag \in Flags /\ NoFlag \notin Flags
  BY <1>1, FlagsAssumption DEF WeakTypeOK
<1>3. ASSUME NEW g \in Flags
      PROVE  /\ Holders(g)' = Holders(g)
             /\ refCount'[g] = Cardinality(Holders(g)) /\ refCount'[g] \in Nat
  <2>1. Holders(g)' = Holders(g)
    BY <1>1 DEF Holders
  <2>2. refCount[g] = Cardinality(Holders(g)) + (IF flag = g THEN 1 ELSE 0) /\ refCount[g] \in Nat
    BY DEF RefsCounted, WeakTypeOK
  <2>3. Cardinality(Holders(g)) \in Nat
    <3> Holders(g) \in SUBSET References
      BY DEF Holders
    <3> QED
      BY HoldersNat
  <2>4. CASE g = flag
    BY <1>1, <2>1, <2>2, <2>3, <2>4 DEF WeakTypeOK
  <2>5. CASE g # flag
    <3>1. refCount'[g] = refCount[g]
      BY <1>1, <2>5 DEF WeakTypeOK
    <3> QED
      BY <2>1, <2>2, <2>3, <2>5, <3>1
  <2> QED
    BY <2>4, <2>5
<1>4. RefsCounted'
  BY <1>1, <1>2, <1>3 DEF RefsCounted, Holders
<1>5. WeakTypeOK'
  <2>1. refCount' \in [Flags -> Nat]
    BY <1>1, <1>3 DEF WeakTypeOK
  <2> QED
    BY <1>1, <2>1 DEF WeakTypeOK
<1>6. CurrentShareFlag' /\ ValidMeansCurrent'
  BY <1>1, <1>2 DEF CurrentShareFlag, ValidMeansCurrent, WeakTypeOK
<1>7. OwnersFlag'
  BY <1>1 DEF OwnersFlag
<1> QED
  BY <1>4, <1>5, <1>6, <1>7

LEMMA CopyReferenceKeeps ==
    ASSUME WeakInv, NEW r \in References, NEW s \in References, CopyReference(r, s)
    PROVE  WeakInv'
<1> USE DEF WeakInv, WeakPromises
<1>1. /\ ref[r] # NoFlag /\ ref[s] = NoFlag
      /\ ref' = [ref EXCEPT ![s] = ref[r]] /\ refCount' = [refCount EXCEPT ![ref[r]] = @ + 1]
      /\ current' = IF r \in current THEN current \union {s} ELSE current
      /\ flag' = flag /\ valid' = valid /\ getting' = getting
  BY DEF CopyReference, AddRef
<1>2. ref[r] \in Flags /\ NoFlag \notin Flags
  BY <1>1, FlagsAssumption DEF WeakTypeOK
<1>3. /\ RefsCounted' /\ refCount' \in [Flags -> Nat]
      /\ ref' \in [References -> Flags \union {NoFlag}]
  BY <1>1, <1>2, TakesUp
<1>4. WeakTypeOK'
  BY <1>1, <1>3 DEF WeakTypeOK
<1>5. s \notin current
  BY <1>1 DEF CurrentShareFlag
<1>6. CurrentShareFlag' /\ ValidMeansCurrent'
  BY <1>1, <1>2, <1>5 DEF WeakTypeOK, CurrentShareFlag, ValidMeansCurrent
<1>7. OwnersFlag'
  <2>1. getting = "renewing" /\ flag # NoFlag => ref[r] # flag
    BY DEF OwnersFlag, Holders
  <2> QED
    BY <1>1, <2>1 DEF OwnersFlag, Holders, WeakTypeOK
<1> QED
  BY <1>3, <1>4, <1>6, <1>7

LEMMA DestroyReferenceKeeps ==
    ASSUME WeakInv, NEW r \in References, DestroyReference(r)
    PROVE  WeakInv'
<1> USE DEF WeakInv, WeakPromises
<1>1. /\ ref[r] # NoFlag /\ ref' = [ref EXCEPT ![r] = NoFlag]
      /\ refCount' = [refCount EXCEPT ![ref[r]] = @ - 1] /\ current' = current \ {r}
      /\ flag' = flag /\ valid' = valid /\ getting' = getting
  BY DEF DestroyReference, DecRef
<1>2. ref[r] \in Flags
  BY <1>1 DEF WeakTypeOK
<1>3. /\ RefsCounted' /\ refCount' \in [Flags -> Nat]
      /\ ref' \in [References -> Flags \union {NoFlag}]
  BY <1>1, <1>2, GivesUp
<1>4. WeakTypeOK'
  BY <1>1, <1>3 DEF WeakTypeOK
<1>5. CurrentShareFlag' /\ ValidMeansCurrent'
  BY <1>1 DEF WeakTypeOK, CurrentShareFlag, ValidMeansCurrent
<1>6. OwnersFlag'
  <2>1. CASE getting = "renewing" /\ flag # NoFlag
    <3>1. \A s \in References : ref'[s] # flag
      BY <1>1, <2>1 DEF OwnersFlag, Holders, WeakTypeOK
    <3> QED
      BY <1>1, <2>1, <3>1 DEF OwnersFlag, Holders
  <2>2. CASE getting # "renewing" \/ flag = NoFlag
    BY <1>1, <2>2 DEF OwnersFlag
  <2> QED
    BY <2>1, <2>2
<1> QED
  BY <1>3, <1>4, <1>5, <1>6

(* Every step of the object and of its weak pointers keeps the invariant.   *)
LEMMA WeakStepInv ==
    ASSUME WeakInv, [WeakStep]_weakVars
    PROVE  WeakInv'
<1>1. CASE UNCHANGED weakVars
  BY <1>1 DEF weakVars, WeakInv, WeakPromises, WeakTypeOK, RefsCounted, CurrentShareFlag,
              ValidMeansCurrent, OwnersFlag, Holders
<1>2. CASE WeakStep
  BY <1>2, GetRefKeeps, RenewFlagKeeps, InvalidateKeeps, ReturnReferenceKeeps,
     DestroyReferenceKeeps, CopyReferenceKeeps DEF WeakStep
<1> QED
  BY <1>1, <1>2
==============================================================================
