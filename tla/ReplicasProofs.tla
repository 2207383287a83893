--------------------------- MODULE ReplicasProofs ----------------------------
(***************************************************************************)
(* The replicas of a service, for any number of containers, attempts and   *)
(* disturbances: types, that scaling alone leaves a replica running, and   *)
(* that it starts at most one too many.                                    *)
(***************************************************************************)
EXTENDS Replicas, FiniteSetTheorems, TLAPS

-----------------------------------------------------------------------------
(* Counting containers *)

\* The sets that reconciler and autoscaler count are finite.
LEMMA Counts ==
    /\ IsFiniteSet(Present) /\ Cardinality(Present) \in Nat
    /\ IsFiniteSet(Running) /\ Cardinality(Running) \in Nat
    /\ Cardinality(Running) <= Cardinality(Present)
<1>1. IsFiniteSet(Numbers)
  BY ReplicasAssumption, FS_Interval DEF Numbers
<1>2. IsFiniteSet(Present)
  BY <1>1, FS_Subset DEF Present
<1>3. Running \in SUBSET Present
  BY DEF Running, Present
<1> QED
  BY <1>2, <1>3, FS_Subset, FS_CardinalityType

\* A service with a running container counts at least one, so a new replica never
\* gets the number of the plain name.
LEMMA SomeRunning ==
    Running # {} => Cardinality(Running) >= 1 /\ Cardinality(Present) >= 1
<1> SUFFICES ASSUME Running # {}
             PROVE  Cardinality(Running) >= 1 /\ Cardinality(Present) >= 1
  OBVIOUS
<1>1. Cardinality(Running) # 0
  BY Counts, FS_EmptySet
<1> QED
  BY <1>1, Counts

\* A service with two running containers has one besides the plain name.
LEMMA AnotherRunning ==
    Cardinality(Running) > 1 => \E n \in Running : n # 1
<1> SUFFICES ASSUME Cardinality(Running) > 1, \A n \in Running : n = 1 PROVE FALSE
  OBVIOUS
<1>1. Running \in SUBSET {1}
  OBVIOUS
<1>2. IsFiniteSet({1}) /\ Cardinality({1}) = 1
  BY FS_Singleton
<1>3. Cardinality(Running) <= 1
  BY <1>1, <1>2, FS_Subset
<1> QED
  BY <1>3, Counts

-----------------------------------------------------------------------------
(* Types *)

\* The runtime keeps the types of containers, picks and events.
LEMMA TypeOfRemove ==
    ASSUME TypeOK, NEW S, Remove(S)
    PROVE  /\ box' \in [Numbers -> {"absent", "running", "down"}]
           /\ picked' \in [Scalers -> Numbers \cup {Gone}]
BY DEF TypeOK, Remove

\* An event uses one of those that are left.
LEMMA TypeOfEvents ==
    ASSUME TypeOK, UNCHANGED events \/ Event \/ Trouble
    PROVE  events' \in [left : 0 .. MaxEvents, calm : BOOLEAN]
<1>1. CASE UNCHANGED events
  BY <1>1 DEF TypeOK
<1>2. CASE Event
  <2>1. events.left - 1 \in 0 .. MaxEvents
    BY <1>2, ReplicasAssumption DEF Event, TypeOK
  <2> QED
    BY <1>2, <2>1 DEF Event, TypeOK
<1>3. CASE Trouble
  <2>1. events.left - 1 \in 0 .. MaxEvents
    BY <1>3, ReplicasAssumption DEF Trouble, TypeOK
  <2> QED
    BY <1>3, <2>1 DEF Trouble
<1> QED
  BY <1>1, <1>2, <1>3

\* The reconciler keeps the types.
LEMMA TypeOfReconciler == TypeOK /\ ReconcilerStep => TypeOK'
<1> SUFFICES ASSUME TypeOK, ReconcilerStep PROVE TypeOK'
  OBVIOUS
<1> USE DEF RecStage
<1>1. CASE RecQuery
  BY <1>1 DEF RecQuery, TypeOK
<1>2. CASE RecDiff
  <2>1. CASE RecHealNeeded
    BY <1>2, <2>1 DEF RecDiff, RecHealNeeded, TypeOK
  <2>2. CASE RecScaleUp
    <3>1. Cardinality(Present) + 1 \in Numbers
      BY <2>2, Counts, ReplicasAssumption DEF RecScaleUp, Numbers
    <3> QED
      BY <1>2, <2>2, <3>1 DEF RecDiff, RecScaleUp, TypeOK
  <2>3. CASE RecScaleDown
    <3>1. PICK n \in Numbers : picked' = [picked EXCEPT !["rec"] = n]
      BY <2>3 DEF RecScaleDown, Present
    <3>2. picked' \in [Scalers -> Numbers \cup {Gone}]
      BY <3>1 DEF TypeOK, Scalers
    <3> QED
      BY <1>2, <2>3, <3>2 DEF RecDiff, RecScaleDown, TypeOK
  <2>4. CASE RecNoop
    BY <1>2, <2>4 DEF RecDiff, RecNoop, TypeOK
  <2> QED
    BY <1>2, <2>1, <2>2, <2>3, <2>4 DEF RecDiff
<1>3. CASE RecClear
  BY <1>3, TypeOfRemove DEF RecClear, Clear, TypeOK
<1>4. CASE RecCreate
  BY <1>4, TypeOfEvents DEF RecCreate, Start, StartFails, TypeOK
<1>5. CASE RecStop
  BY <1>5 DEF RecStop, StopPicked, TypeOK
<1>6. CASE RecDelete
  BY <1>6, TypeOfEvents, TypeOfRemove DEF RecDelete, DeletePicked, Gone, TypeOK
<1>7. CASE RecHeal
  BY <1>7, TypeOfEvents, TypeOfRemove DEF RecHeal, RemoveAll, SetStatus, TypeOK
<1>8. CASE RecRebuild
  BY <1>8, TypeOfEvents DEF RecRebuild, Start, StartFails, SetStatus, TypeOK
<1> QED
  BY <1>1, <1>2, <1>3, <1>4, <1>5, <1>6, <1>7, <1>8 DEF ReconcilerStep

\* The autoscaler keeps the types.
LEMMA TypeOfAutoscaler == TypeOK /\ AutoscaleStep => TypeOK'
<1> SUFFICES ASSUME TypeOK, AutoscaleStep PROVE TypeOK'
  OBVIOUS
<1> USE DEF AutoStage
<1>1. CASE AutoUp
  <2>1. Cardinality(Running) + 1 \in Numbers
    BY <1>1, Counts, ReplicasAssumption DEF AutoUp, Numbers
  <2> QED
    BY <1>1, <2>1, TypeOfEvents DEF AutoUp, TypeOK
<1>2. CASE AutoDown
  <2>1. PICK n \in Numbers : picked' = [picked EXCEPT !["auto"] = n]
    BY <1>2 DEF AutoDown, Running
  <2>2. picked' \in [Scalers -> Numbers \cup {Gone}]
    BY <2>1 DEF TypeOK, Scalers
  <2> QED
    BY <1>2, <2>2, TypeOfEvents DEF AutoDown, TypeOK
<1>3. CASE AutoClear
  BY <1>3, TypeOfRemove DEF AutoClear, Clear, TypeOK
<1>4. CASE AutoCreate
  BY <1>4, TypeOfEvents DEF AutoCreate, Start, StartFails, TypeOK
<1>5. CASE AutoStop
  BY <1>5 DEF AutoStop, StopPicked, TypeOK
<1>6. CASE AutoDelete
  BY <1>6, TypeOfEvents, TypeOfRemove DEF AutoDelete, DeletePicked, Gone, TypeOK
<1> QED
  BY <1>1, <1>2, <1>3, <1>4, <1>5, <1>6 DEF AutoscaleStep

\* The health check keeps the types.
LEMMA TypeOfHealthCheck == TypeOK /\ HealthCheckStep => TypeOK'
<1> SUFFICES ASSUME TypeOK, HealthCheckStep PROVE TypeOK'
  OBVIOUS
<1> USE DEF HcStage
<1>1. CASE HcQuery
  BY <1>1 DEF HcQuery, TypeOK
<1>2. CASE HcList
  BY <1>2 DEF HcList, TypeOK
<1>3. CASE HcMark
  BY <1>3 DEF HcMark, SetStatus, TypeOK
<1>4. CASE HcRemove
  BY <1>4, TypeOfEvents, TypeOfRemove DEF HcRemove, RemoveAll, TypeOK
<1>5. CASE HcClear
  BY <1>5, TypeOfRemove DEF HcClear, Clear, TypeOK
<1>6. CASE HcCreate
  BY <1>6, TypeOfEvents DEF HcCreate, Start, StartFails, SetStatus, TypeOK
<1> QED
  BY <1>1, <1>2, <1>3, <1>4, <1>5, <1>6 DEF HealthCheckStep

\* The jobs keep the types.
LEMMA TypeOfJobs ==
    TypeOK /\ (Redeploy \/ RedeployStep \/ UpdateReplicas \/ UpdateStep) => TypeOK'
<1> SUFFICES ASSUME TypeOK, Redeploy \/ RedeployStep \/ UpdateReplicas \/ UpdateStep
             PROVE  TypeOK'
  OBVIOUS
<1> USE DEF DeployStage
<1>1. CASE Redeploy
  <2>1. 0 \in 0 .. MaxTries - 1
    BY ReplicasAssumption
  <2>2. redeploy' \in [at : DeployStage, replicas : Desired, tries : 0 .. MaxTries - 1]
    BY <1>1, <2>1 DEF Redeploy, TypeOK
  <2>3. row' \in [status : {"running", "failed", "deploying"}, replicas : Desired]
    BY <1>1 DEF Redeploy, SetStatus, TypeOK
  <2> QED
    BY <1>1, <2>2, <2>3, TypeOfEvents DEF Redeploy, TypeOK
<1>2. CASE RedeployLoad
  BY <1>2 DEF RedeployLoad, SetStatus, TypeOK
<1>3. CASE RedeployRemove
  BY <1>3, TypeOfEvents, TypeOfRemove DEF RedeployRemove, RemoveAll, TypeOK
<1>4. CASE RedeployClear
  BY <1>4, TypeOfRemove DEF RedeployClear, Clear, TypeOK
<1>5. CASE RedeployCreate
  <2>1. Retry => redeploy' \in [at : DeployStage, replicas : Desired, tries : 0 .. MaxTries - 1]
    <3>1. redeploy.tries + 1 < MaxTries => redeploy.tries + 1 \in 0 .. MaxTries - 1
      BY ReplicasAssumption DEF TypeOK
    <3> SUFFICES ASSUME Retry
                 PROVE  redeploy' \in [at : DeployStage, replicas : Desired,
                    tries : 0 .. MaxTries - 1]
      OBVIOUS
    <3> DEFINE more == redeploy.tries + 1
               range == 0 .. MaxTries - 1
    <3>2. redeploy \in [at : DeployStage, replicas : Desired, tries : range]
      BY DEF TypeOK
    <3>3. \/ more \in range /\ redeploy' = [redeploy EXCEPT !.at = "asked", !.tries = more]
          \/ redeploy' = [redeploy EXCEPT !.at = "idle"]
      BY <3>1 DEF Retry
    <3> HIDE DEF more, range
    <3>4. redeploy' \in [at : DeployStage, replicas : Desired, tries : range]
      BY <3>2, <3>3
    <3> QED
      BY <3>4 DEF range
  <2> QED
    <3>1. CASE Start(1) /\ redeploy' = [redeploy EXCEPT !.at = "created"] /\ UNCHANGED row
      <4>1. redeploy' \in [at : DeployStage, replicas : Desired, tries : 0 .. MaxTries - 1]
        BY <3>1 DEF TypeOK
      <4> QED
        BY <1>5, <3>1, <4>1 DEF RedeployCreate, Start, TypeOK
    <3>2. CASE StartFails(1) /\ SetStatus("failed") /\ Retry
      <4>1. row' \in [status : {"running", "failed", "deploying"}, replicas : Desired]
        BY <3>2 DEF SetStatus, TypeOK
      <4>2. UNCHANGED box /\ events' \in [left : 0 .. MaxEvents, calm : BOOLEAN]
        BY <3>2, TypeOfEvents DEF StartFails
      <4> QED
        BY <1>5, <2>1, <3>2, <4>1, <4>2 DEF RedeployCreate, TypeOK
    <3> QED
      BY <1>5, <3>1, <3>2 DEF RedeployCreate
<1>6. CASE RedeployCommit
  BY <1>6 DEF RedeployCommit, TypeOK
<1>7. CASE UpdateReplicas
  BY <1>7, TypeOfEvents DEF UpdateReplicas, TypeOK
<1>8. CASE UpdateStep
  BY <1>8 DEF UpdateStep, UpdateLoad, UpdateCommit, TypeOK
<1> QED
  BY <1>1, <1>2, <1>3, <1>4, <1>5, <1>6, <1>7, <1>8 DEF RedeployStep

\* Exits, clean-ups and restarts keep the types.
LEMMA TypeOfEnvironment ==
    ASSUME TypeOK, PlaneRestarts \/ \E n \in Numbers : ContainerExits(n) \/ CleanUp(n)
    PROVE  TypeOK'
<1>1. CASE PlaneRestarts
  BY <1>1, TypeOfEvents
  DEF PlaneRestarts, RecStage, AutoStage, HcStage, DeployStage, Gone, TypeOK
<1>2. ASSUME NEW n \in Numbers, ContainerExits(n) PROVE TypeOK'
  BY <1>2, TypeOfEvents DEF ContainerExits, TypeOK
<1>3. ASSUME NEW n \in Numbers, CleanUp(n) PROVE TypeOK'
  BY <1>3, TypeOfEvents, TypeOfRemove DEF CleanUp, TypeOK
<1> QED
  BY <1>1, <1>2, <1>3

\* Every step keeps the types.
LEMMA TypeStep == TypeOK /\ [Next]_vars => TypeOK'
<1>1. TypeOK /\ UNCHANGED vars => TypeOK'
  BY DEF TypeOK, vars
<1> QED
  BY <1>1, TypeOfReconciler, TypeOfAutoscaler, TypeOfHealthCheck, TypeOfJobs,
     TypeOfEnvironment DEF Next

\* The first state is well typed.
LEMMA TypeInit == Init => TypeOK
BY ReplicasAssumption
DEF Init, TypeOK, Numbers, Desired, RecStage, AutoStage, HcStage, DeployStage, Gone

\* Row, containers and the progress of every actor are always well typed.
THEOREM ReplicasTypes == Spec => []TypeOK
BY TypeInit, TypeStep, PTL DEF Spec

-----------------------------------------------------------------------------
(* A replica stays up *)

\* No scaler ever picks or replaces the container with the plain name: whatever it
\* counts, it replaces a number greater than one and removes the last name.
LEMMA SpareStep ==
    TypeOK /\ ScalersSparePlainName /\ [Next]_vars => ScalersSparePlainName'
<1> SUFFICES ASSUME TypeOK, ScalersSparePlainName, [Next]_vars
             PROVE  ScalersSparePlainName'
  OBVIOUS
<1> USE DEF ScalersSparePlainName
<1>1. CASE UNCHANGED <<rec, auto>> /\ \A a \in Scalers : picked'[a] \in {picked[a], Gone}
  BY <1>1 DEF Gone
<1>2. CASE RecDiff
  <2>1. CASE RecHealNeeded
    BY <1>2, <2>1 DEF RecDiff, RecHealNeeded, TypeOK
  <2>2. CASE RecScaleUp
    <3>1. Cardinality(Present) + 1 # 1
      BY <2>2, Counts, SomeRunning DEF RecScaleUp
    <3> QED
      BY <1>2, <2>2, <3>1 DEF RecDiff, RecScaleUp, TypeOK
  <2>3. CASE RecScaleDown
    <3>1. rec.replicas \in Nat /\ rec.replicas >= 1
      BY ReplicasAssumption DEF TypeOK, Desired
    <3>2. PICK m \in Running : m # 1
      BY <2>3, <3>1, Counts, AnotherRunning DEF RecScaleDown
    <3>3. PICK n \in Present : IsLast(n, Present) /\ picked' = [picked EXCEPT !["rec"] = n]
      BY <2>3 DEF RecScaleDown
    <3>4. m \in Present /\ m <= n
      BY <3>2, <3>3 DEF Running, Present, IsLast
    <3>5. n # 1
      BY <3>2, <3>4, ReplicasAssumption DEF Running, Present, Numbers
    <3> QED
      BY <1>2, <2>3, <3>3, <3>5 DEF RecDiff, RecScaleDown, Scalers, TypeOK
  <2>4. CASE RecNoop
    BY <1>2, <2>4 DEF RecDiff, RecNoop, TypeOK
  <2> QED
    BY <1>2, <2>1, <2>2, <2>3, <2>4 DEF RecDiff
<1>3. CASE ReconcilerStep /\ ~RecDiff
  <2>2. rec'.at \in {"clear", "create"} => rec.at \in {"clear", "create"} /\ rec'.new = rec.new
    BY <1>3 DEF ReconcilerStep, RecQuery, RecClear, RecCreate, RecStop, RecDelete, RecHeal,
       RecRebuild, TypeOK
  <2>3. UNCHANGED auto
    BY <1>3
    DEF ReconcilerStep, RecQuery, RecClear, RecCreate, RecStop, RecDelete, RecHeal, RecRebuild
  <2>4. \A a \in Scalers : picked'[a] \in {picked[a], Gone}
    BY <1>3 DEF ReconcilerStep, RecQuery, RecClear, RecCreate, RecStop, RecDelete, RecHeal,
       RecRebuild, Clear, Remove, RemoveAll, DeletePicked, TypeOK
  <2> QED
    BY <2>2, <2>3, <2>4 DEF Gone
<1>4. CASE AutoUp
  <2>1. Cardinality(Running) + 1 # 1
    BY <1>4, Counts, SomeRunning DEF AutoUp
  <2> QED
    BY <1>4, <2>1 DEF AutoUp
<1>5. CASE AutoDown
  BY <1>5 DEF AutoDown, Scalers, TypeOK
<1>6. CASE AutoClear \/ AutoCreate \/ AutoStop \/ AutoDelete
  <2>1. auto'.at \in {"clear", "create"} => auto.at \in {"clear", "create"} /\ auto'.new = auto.new
    BY <1>6 DEF AutoClear, AutoCreate, AutoStop, AutoDelete, TypeOK
  <2>2. UNCHANGED rec /\ \A a \in Scalers : picked'[a] \in {picked[a], Gone}
    BY <1>6 DEF AutoClear, AutoCreate, AutoStop, AutoDelete, Clear, Remove, DeletePicked, TypeOK
  <2> QED
    BY <2>1, <2>2 DEF Gone
<1>7. CASE HealthCheckStep
  <2>1. UNCHANGED <<rec, auto>>
    BY <1>7 DEF HealthCheckStep, HcQuery, HcList, HcMark, HcRemove, HcClear, HcCreate
  <2>2. \A a \in Scalers : picked'[a] \in {picked[a], Gone}
    BY <1>7 DEF HealthCheckStep, HcQuery, HcList, HcMark, HcRemove, HcClear, HcCreate,
       Clear, Remove, RemoveAll, TypeOK
  <2> QED
    BY <1>1, <2>1, <2>2
<1>8. CASE Redeploy \/ RedeployStep \/ UpdateReplicas \/ UpdateStep
  <2>1. UNCHANGED <<rec, auto>>
    BY <1>8 DEF Redeploy, RedeployStep, RedeployLoad, RedeployRemove, RedeployClear,
       RedeployCreate, RedeployCommit, UpdateReplicas, UpdateStep, UpdateLoad, UpdateCommit
  <2>2. \A a \in Scalers : picked'[a] \in {picked[a], Gone}
    BY <1>8 DEF Redeploy, RedeployStep, RedeployLoad, RedeployRemove, RedeployClear,
       RedeployCreate, RedeployCommit, UpdateReplicas, UpdateStep, UpdateLoad, UpdateCommit,
       Clear, Remove, RemoveAll, TypeOK
  <2> QED
    BY <1>1, <2>1, <2>2
<1>9. ASSUME NEW n \in Numbers, ContainerExits(n) \/ CleanUp(n) PROVE ScalersSparePlainName'
  BY <1>1, <1>9 DEF ContainerExits, CleanUp, Remove, TypeOK
<1>10. CASE PlaneRestarts
  BY <1>10 DEF PlaneRestarts, Gone, TypeOK
<1>11. CASE UNCHANGED vars
  BY <1>11 DEF vars
<1> QED
  BY <1>2, <1>3, <1>4, <1>5, <1>6, <1>7, <1>8, <1>9, <1>10, <1>11 DEF Next, AutoscaleStep

\* What keeps the container with the plain name up: it is started or left alone, or
\* it is removed by somebody who rebuilds the service. A rebuild that ends has
\* started it or has found its name taken.
LEMMA PlainNameKept ==
    ASSUME TypeOK, PlainNameIsUp,
           events'.calm => events.calm,
           \/ box'[1] = "running"
           \/ box'[1] = "absent" /\ Rebuilding'
           \/ box'[1] = box[1] /\ (Rebuilding => Rebuilding' \/ box[1] # "absent")
    PROVE  PlainNameIsUp'
<1>1. 1 \in Numbers
  BY ReplicasAssumption DEF Numbers
<1>2. box[1] \in {"absent", "running", "down"}
  BY <1>1 DEF TypeOK
<1> QED
  BY <1>2 DEF PlainNameIsUp

\* Events only ever disturb.
LEMMA CalmWas ==
    ASSUME TypeOK, UNCHANGED events \/ Event \/ Trouble, events'.calm
    PROVE  events.calm
BY DEF TypeOK, Event, Trouble

\* A rebuild ends with the plain name up, unless a call has failed.
LEMMA RebuildEnds ==
    ASSUME TypeOK, PlainNameIsUp, Start(1) \/ StartFails(1)
    PROVE  PlainNameIsUp'
<1>1. 1 \in Numbers
  BY ReplicasAssumption DEF Numbers
<1>2. CASE Start(1)
  BY <1>1, <1>2, PlainNameKept DEF Start, TypeOK
<1>3. CASE StartFails(1) /\ box[1] # "absent"
  BY <1>3, PlainNameKept DEF StartFails
<1>4. CASE StartFails(1) /\ Trouble
  BY <1>4 DEF Trouble, PlainNameIsUp
<1> QED
  BY <1>2, <1>3, <1>4 DEF StartFails

\* Every step keeps the container with the plain name up, or leaves it to a rebuild.
LEMMA PlainStep ==
    TypeOK /\ ScalersSparePlainName /\ PlainNameIsUp /\ [Next]_vars => PlainNameIsUp'
<1> SUFFICES ASSUME TypeOK, ScalersSparePlainName, PlainNameIsUp, [Next]_vars
             PROVE  PlainNameIsUp'
  OBVIOUS
<1>1. 1 \in Numbers
  BY ReplicasAssumption DEF Numbers
<1>2. CASE ReconcilerStep
  <2>1. CASE RecQuery \/ RecDiff
    BY <2>1, PlainNameKept
    DEF RecQuery, RecDiff, RecHealNeeded, RecScaleUp, RecScaleDown, RecNoop, Rebuilding, TypeOK
  <2>2. CASE RecClear
    <3>1. CASE rec.at = "removed"
      BY <1>1, <2>2, <3>1, PlainNameKept DEF RecClear, Clear, Remove, Rebuilding, TypeOK
    <3>2. CASE rec.at = "clear"
      BY <1>1, <2>2, <3>2, PlainNameKept
      DEF RecClear, Clear, Remove, Rebuilding, ScalersSparePlainName, TypeOK
    <3> QED
      BY <2>2, <3>1, <3>2 DEF RecClear
  <2>3. CASE RecCreate
    BY <1>1, <2>3, CalmWas, PlainNameKept
    DEF RecCreate, Start, StartFails, Rebuilding, ScalersSparePlainName, TypeOK
  <2>4. CASE RecStop
    BY <1>1, <2>4, PlainNameKept
    DEF RecStop, StopPicked, Rebuilding, ScalersSparePlainName, Scalers, TypeOK
  <2>5. CASE RecDelete
    BY <1>1, <2>5, CalmWas, PlainNameKept
    DEF RecDelete, DeletePicked, Remove, Rebuilding, ScalersSparePlainName, Scalers, TypeOK
  <2>6. CASE RecHeal
    <3>1. CASE UNCHANGED <<box, picked, events>> /\ rec' = [rec EXCEPT !.at = "idle"]
      BY <2>6, <3>1, PlainNameKept DEF RecHeal, Rebuilding, TypeOK
    <3>2. CASE RemoveAll /\ rec' = [rec EXCEPT !.at = "removed"]
      BY <1>1, <3>2, CalmWas, PlainNameKept DEF RemoveAll, Remove, Rebuilding, TypeOK
    <3> QED
      BY <2>6, <3>1, <3>2 DEF RecHeal
  <2>7. CASE RecRebuild
    BY <2>7, RebuildEnds DEF RecRebuild
  <2> QED
    BY <1>2, <2>1, <2>2, <2>3, <2>4, <2>5, <2>6, <2>7 DEF ReconcilerStep
<1>3. CASE AutoscaleStep
  <2>1. CASE AutoUp \/ AutoDown
    BY <2>1, CalmWas, PlainNameKept DEF AutoUp, AutoDown, Rebuilding
  <2>2. CASE AutoClear
    BY <1>1, <2>2, PlainNameKept
    DEF AutoClear, Clear, Remove, Rebuilding, ScalersSparePlainName, TypeOK
  <2>3. CASE AutoCreate
    BY <1>1, <2>3, CalmWas, PlainNameKept
    DEF AutoCreate, Start, StartFails, Rebuilding, ScalersSparePlainName, TypeOK
  <2>4. CASE AutoStop
    BY <1>1, <2>4, PlainNameKept
    DEF AutoStop, StopPicked, Rebuilding, ScalersSparePlainName, Scalers, TypeOK
  <2>5. CASE AutoDelete
    BY <1>1, <2>5, CalmWas, PlainNameKept
    DEF AutoDelete, DeletePicked, Remove, Rebuilding, ScalersSparePlainName, Scalers, TypeOK
  <2> QED
    BY <1>3, <2>1, <2>2, <2>3, <2>4, <2>5 DEF AutoscaleStep
<1>4. CASE HealthCheckStep
  <2>1. CASE HcQuery \/ HcList \/ HcMark
    BY <2>1, PlainNameKept DEF HcQuery, HcList, HcMark, Rebuilding, TypeOK
  <2>2. CASE HcRemove
    BY <1>1, <2>2, CalmWas, PlainNameKept DEF HcRemove, RemoveAll, Remove, Rebuilding, TypeOK
  <2>3. CASE HcClear
    BY <1>1, <2>3, PlainNameKept DEF HcClear, Clear, Remove, Rebuilding, TypeOK
  <2>4. CASE HcCreate
    BY <2>4, RebuildEnds DEF HcCreate
  <2> QED
    BY <1>4, <2>1, <2>2, <2>3, <2>4 DEF HealthCheckStep
<1>5. CASE Redeploy \/ RedeployStep
  <2>1. CASE Redeploy \/ RedeployLoad \/ RedeployCommit
    BY <2>1, CalmWas, PlainNameKept DEF Redeploy, RedeployLoad, RedeployCommit, Rebuilding, TypeOK
  <2>2. CASE RedeployRemove
    BY <1>1, <2>2, CalmWas, PlainNameKept DEF RedeployRemove, RemoveAll, Remove, Rebuilding, TypeOK
  <2>3. CASE RedeployClear
    BY <1>1, <2>3, PlainNameKept DEF RedeployClear, Clear, Remove, Rebuilding, TypeOK
  <2>4. CASE RedeployCreate
    BY <2>4, RebuildEnds DEF RedeployCreate
  <2> QED
    BY <1>5, <2>1, <2>2, <2>3, <2>4 DEF RedeployStep
<1>6. CASE UpdateReplicas \/ UpdateStep
  BY <1>6, CalmWas, PlainNameKept
  DEF UpdateReplicas, UpdateStep, UpdateLoad, UpdateCommit, Rebuilding
\* A disturbance ends the calm.
<1>7. CASE PlaneRestarts \/ \E n \in Numbers : ContainerExits(n) \/ CleanUp(n)
  <2>1. Trouble
    BY <1>7 DEF PlaneRestarts, ContainerExits, CleanUp
  <2> QED
    BY <2>1 DEF Trouble, PlainNameIsUp
<1>8. CASE UNCHANGED vars
  BY <1>8 DEF vars, PlainNameIsUp, Rebuilding
<1> QED
  BY <1>2, <1>3, <1>4, <1>5, <1>6, <1>7, <1>8 DEF Next

-----------------------------------------------------------------------------
(* There is at most one replica too many *)

\* The bound lies above whatever reconciler and autoscaler may ask for.
LEMMA LimitBounds ==
    Limit \in Nat /\ Limit >= 1 /\ MaxReplicas <= Limit /\ AutoMax <= Limit
BY ReplicasAssumption DEF Limit

\* A container that is down is picked, and a step that leaves it down leaves it picked.
KeepsPicks ==
    \A n \in Numbers : box'[n] = "down" =>
        /\ box[n] = "down"
        /\ rec.at = "delete" /\ picked["rec"] = n => rec'.at = "delete" /\ picked'["rec"] = n
        /\ auto.at = "delete" /\ picked["auto"] = n => auto'.at = "delete" /\ picked'["auto"] = n

\* A container that a step starts has a low number.
StartsLow ==
    \A n \in Numbers : box'[n] # "absent" => box[n] # "absent" \/ n <= Limit + 1

\* A new number is low, or the number that a scaler had before.
NumbersLow ==
    /\ rec'.at \in {"clear", "create"} =>
         \/ rec'.new <= Limit + 1
         \/ rec.at \in {"clear", "create"} /\ rec'.new = rec.new
    /\ auto'.at \in {"clear", "create"} =>
         \/ auto'.new <= Limit + 1
         \/ auto.at \in {"clear", "create"} /\ auto'.new = auto.new

\* What most steps have to do, so that the replicas stay few.
LEMMA FewKept ==
    ASSUME DownIsPicked, NumbersAreLow, KeepsPicks, StartsLow, NumbersLow
    PROVE  DownIsPicked' /\ NumbersAreLow'
<1>1. DownIsPicked'
  BY DEF DownIsPicked, KeepsPicks
<1>2. NumbersAreLow'
  BY DEF NumbersAreLow, NumbersLow, StartsLow, Present
<1> QED
  BY <1>1, <1>2

\* Removed containers are not down, and the others stay picked.
LEMMA RemoveIsCalm ==
    ASSUME TypeOK, NEW S, Remove(S),
           rec.at = "delete" => rec'.at = "delete", auto.at = "delete" => auto'.at = "delete"
    PROVE  KeepsPicks /\ StartsLow
BY DEF TypeOK, Remove, KeepsPicks, StartsLow, Scalers

\* A container with a low number may be started.
LEMMA StartIsCalm ==
    ASSUME TypeOK, NEW k \in Numbers, k <= Limit + 1, Start(k) \/ UNCHANGED box,
           UNCHANGED picked,
           rec.at = "delete" => rec'.at = "delete", auto.at = "delete" => auto'.at = "delete"
    PROVE  KeepsPicks /\ StartsLow
BY DEF TypeOK, Start, KeepsPicks, StartsLow

\* A rebuild removes everything, or clears and starts the plain name.
LEMMA RebuildIsCalm ==
    ASSUME TypeOK, events'.calm,
           \/ RemoveAll \/ Clear(1)
           \/ (Start(1) \/ StartFails(1) \/ UNCHANGED box) /\ UNCHANGED picked,
           rec.at = "delete" => rec'.at = "delete", auto.at = "delete" => auto'.at = "delete"
    PROVE  KeepsPicks /\ StartsLow
<1>1. 1 \in Numbers /\ 1 <= Limit + 1
  BY ReplicasAssumption, LimitBounds DEF Numbers
<1>2. ~Trouble
  BY DEF Trouble
<1>3. CASE RemoveAll \/ Clear(1)
  BY <1>2, <1>3, RemoveIsCalm DEF RemoveAll, Clear
<1>4. CASE (Start(1) \/ StartFails(1) \/ UNCHANGED box) /\ UNCHANGED picked
  BY <1>1, <1>4, StartIsCalm DEF StartFails
<1> QED
  BY <1>3, <1>4

\* The reconciler counts the containers that are down as well: while it decides, that
\* is at most the one which the autoscaler is about to delete.
LEMMA CountsOneDown ==
    ASSUME TypeOK, DownIsPicked, rec.at # "delete"
    PROVE  Cardinality(Present) <= Cardinality(Running) + 1
<1> DEFINE Extra == Running \cup {picked["auto"]}
<1>1. IsFiniteSet(Running) /\ Cardinality(Running) \in Nat
  BY Counts
<1>2. /\ IsFiniteSet(Extra)
      /\ Cardinality(Extra) = Cardinality(Running)
         \/ Cardinality(Extra) = Cardinality(Running) + 1
  BY <1>1, FS_AddElement
<1>3. Present \in SUBSET Extra
  <2> SUFFICES ASSUME NEW n \in Present, box[n] # "running" PROVE n = picked["auto"]
    BY DEF Running, Present
  <2>1. n \in Numbers /\ box[n] = "down"
    BY DEF Present, TypeOK
  <2> QED
    BY <2>1 DEF DownIsPicked
<1>4. Cardinality(Present) <= Cardinality(Extra)
  BY <1>2, <1>3, FS_Subset
<1>5. Cardinality(Present) \in Nat
  BY Counts
<1> HIDE DEF Extra
<1> QED
  BY <1>1, <1>2, <1>4, <1>5

\* A decision of the reconciler.
LEMMA FewOfDiff ==
    ASSUME TypeOK, DownIsPicked, NumbersAreLow, RecDiff
    PROVE  DownIsPicked' /\ NumbersAreLow'
<1>1. /\ rec.at = "queried" /\ UNCHANGED <<box, auto>>
      /\ rec.replicas \in Nat /\ rec.replicas <= Limit
  BY ReplicasAssumption, LimitBounds DEF RecDiff, TypeOK, Desired
<1>2. StartsLow
  BY <1>1 DEF StartsLow
<1>3. CASE RecScaleUp
  <2>1. Cardinality(Present) + 1 <= Limit + 1
    BY <1>1, <1>3, Counts, CountsOneDown, LimitBounds DEF RecScaleUp
  <2>2. rec'.new = Cardinality(Present) + 1
    BY <1>3 DEF RecScaleUp, TypeOK
  <2>3. NumbersLow
    BY <1>1, <2>1, <2>2 DEF NumbersLow
  <2>4. KeepsPicks
    BY <1>1, <1>3 DEF RecScaleUp, KeepsPicks
  <2> QED
    BY <1>2, <2>3, <2>4, FewKept
<1>4. CASE RecHealNeeded \/ RecScaleDown \/ RecNoop
  <2>1. rec'.at \in {"heal", "stop", "idle"} /\ picked'["auto"] = picked["auto"]
    BY <1>4 DEF RecHealNeeded, RecScaleDown, RecNoop, TypeOK, Scalers
  <2>2. KeepsPicks /\ NumbersLow
    BY <1>1, <2>1 DEF KeepsPicks, NumbersLow
  <2> QED
    BY <1>2, <2>2, FewKept
<1> QED
  BY <1>3, <1>4 DEF RecDiff

\* The other steps of the reconciler.
LEMMA FewOfReconciler ==
    ASSUME TypeOK, DownIsPicked, NumbersAreLow, ReconcilerStep, events'.calm
    PROVE  DownIsPicked' /\ NumbersAreLow'
<1>1. ~Trouble
  BY DEF Trouble
<1>2. CASE RecQuery
  <2>1. KeepsPicks /\ StartsLow /\ NumbersLow
    BY <1>2 DEF RecQuery, TypeOK, KeepsPicks, StartsLow, NumbersLow
  <2> QED
    BY <2>1, FewKept
<1>3. CASE RecDiff
  BY <1>3, FewOfDiff
<1>4. CASE RecClear
  <2>1. NumbersLow
    BY <1>4 DEF RecClear, TypeOK, NumbersLow
  <2>2. KeepsPicks /\ StartsLow
    BY <1>4, RemoveIsCalm DEF RecClear, Clear
  <2> QED
    BY <2>1, <2>2, FewKept
<1>5. CASE RecCreate
  <2>1. NumbersLow
    BY <1>5 DEF RecCreate, TypeOK, NumbersLow
  <2>2. rec.new \in Numbers /\ rec.new <= Limit + 1
    BY <1>5 DEF RecCreate, TypeOK, NumbersAreLow
  <2>3. KeepsPicks /\ StartsLow
    BY <1>1, <1>5, <2>2, StartIsCalm DEF RecCreate, StartFails
  <2> QED
    BY <2>1, <2>3, FewKept
<1>6. CASE RecStop
  <2>1. NumbersLow /\ StartsLow
    BY <1>6 DEF RecStop, StopPicked, TypeOK, NumbersLow, StartsLow
  <2>2. NumbersAreLow'
    BY <2>1 DEF NumbersAreLow, NumbersLow, StartsLow, Present
  <2>3. DownIsPicked'
    BY <1>6 DEF RecStop, StopPicked, TypeOK, DownIsPicked
  <2> QED
    BY <2>2, <2>3
<1>7. CASE RecDelete
  <2>1. Remove({picked["rec"]}) /\ rec.at = "delete" /\ UNCHANGED auto
    BY <1>1, <1>7 DEF RecDelete, DeletePicked
  <2>2. NumbersLow /\ StartsLow
    BY <1>7, <2>1 DEF RecDelete, Remove, TypeOK, NumbersLow, StartsLow
  <2>3. KeepsPicks
    BY <2>1 DEF Remove, TypeOK, KeepsPicks, Scalers
  <2> QED
    BY <2>2, <2>3, FewKept
<1>8. CASE RecHeal \/ RecRebuild
  <2>1. NumbersLow
    BY <1>8 DEF RecHeal, RecRebuild, TypeOK, NumbersLow
  <2>2. KeepsPicks /\ StartsLow
    BY <1>8, RebuildIsCalm DEF RecHeal, RecRebuild
  <2> QED
    BY <2>1, <2>2, FewKept
<1> QED
  BY <1>2, <1>3, <1>4, <1>5, <1>6, <1>7, <1>8 DEF ReconcilerStep

\* The autoscaler counts running containers only, so its numbers are low as well.
LEMMA FewOfAutoscaler ==
    ASSUME TypeOK, DownIsPicked, NumbersAreLow, AutoscaleStep, events'.calm
    PROVE  DownIsPicked' /\ NumbersAreLow'
<1>1. ~Trouble
  BY DEF Trouble
<1>2. CASE AutoUp
  <2>1. Cardinality(Running) + 1 <= Limit + 1
    BY <1>2, Counts, LimitBounds, ReplicasAssumption DEF AutoUp
  <2>2. KeepsPicks /\ StartsLow /\ NumbersLow
    BY <1>2, <2>1 DEF AutoUp, TypeOK, KeepsPicks, StartsLow, NumbersLow
  <2> QED
    BY <2>2, FewKept
<1>3. CASE AutoDown
  <2>1. /\ auto.at = "idle" /\ auto'.at = "stop" /\ UNCHANGED <<box, rec>>
        /\ picked'["rec"] = picked["rec"]
    BY <1>3 DEF AutoDown, TypeOK, Scalers
  <2>2. KeepsPicks /\ StartsLow /\ NumbersLow
    BY <2>1 DEF KeepsPicks, StartsLow, NumbersLow
  <2> QED
    BY <2>2, FewKept
<1>4. CASE AutoClear
  <2>1. NumbersLow
    BY <1>4 DEF AutoClear, TypeOK, NumbersLow
  <2>2. KeepsPicks /\ StartsLow
    BY <1>4, RemoveIsCalm DEF AutoClear, Clear
  <2> QED
    BY <2>1, <2>2, FewKept
<1>5. CASE AutoCreate
  <2>1. NumbersLow
    BY <1>5 DEF AutoCreate, TypeOK, NumbersLow
  <2>2. auto.new \in Numbers /\ auto.new <= Limit + 1
    BY <1>5 DEF AutoCreate, TypeOK, NumbersAreLow
  <2>3. KeepsPicks /\ StartsLow
    BY <1>1, <1>5, <2>2, StartIsCalm DEF AutoCreate, StartFails
  <2> QED
    BY <2>1, <2>3, FewKept
<1>6. CASE AutoStop
  <2>1. NumbersLow /\ StartsLow
    BY <1>6 DEF AutoStop, StopPicked, TypeOK, NumbersLow, StartsLow
  <2>2. NumbersAreLow'
    BY <2>1 DEF NumbersAreLow, NumbersLow, StartsLow, Present
  <2>3. DownIsPicked'
    BY <1>6 DEF AutoStop, StopPicked, TypeOK, DownIsPicked
  <2> QED
    BY <2>2, <2>3
<1>7. CASE AutoDelete
  <2>1. Remove({picked["auto"]}) /\ auto.at = "delete" /\ UNCHANGED rec
    BY <1>1, <1>7 DEF AutoDelete, DeletePicked
  <2>2. NumbersLow /\ StartsLow
    BY <1>7, <2>1 DEF AutoDelete, Remove, TypeOK, NumbersLow, StartsLow
  <2>3. KeepsPicks
    BY <2>1 DEF Remove, TypeOK, KeepsPicks, Scalers
  <2> QED
    BY <2>2, <2>3, FewKept
<1> QED
  BY <1>2, <1>3, <1>4, <1>5, <1>6, <1>7 DEF AutoscaleStep

\* Nobody adds more than one replica to those that were asked for, as long as no
\* container exits and no call fails.
LEMMA FewStep ==
    TypeOK /\ ReplicasAreFew /\ [Next]_vars => ReplicasAreFew'
<1> SUFFICES ASSUME TypeOK, ReplicasAreFew, [Next]_vars, events'.calm
             PROVE  DownIsPicked' /\ NumbersAreLow'
  BY DEF ReplicasAreFew
<1>1. ~Trouble
  BY DEF Trouble
<1>2. ASSUME events.calm PROVE DownIsPicked /\ NumbersAreLow
  BY <1>2 DEF ReplicasAreFew
<1>3. CASE ReconcilerStep
  <2>1. events.calm
    BY <1>1, <1>3 DEF ReconcilerStep, RecQuery, RecDiff, RecClear, RecCreate, RecStop, RecDelete,
       RecHeal, RecRebuild, Clear, Start, StartFails, DeletePicked, RemoveAll
  <2> QED
    BY <1>2, <1>3, <2>1, FewOfReconciler
<1>4. CASE AutoscaleStep
  <2>1. events.calm
    BY <1>1, <1>4, CalmWas DEF AutoscaleStep, AutoUp, AutoDown, AutoClear, AutoCreate, AutoStop,
       AutoDelete, Clear, Start, StartFails, DeletePicked
  <2> QED
    BY <1>2, <1>4, <2>1, FewOfAutoscaler
<1>5. CASE HealthCheckStep
  <2>1. events.calm /\ UNCHANGED <<rec, auto>>
    BY <1>1, <1>5 DEF HealthCheckStep, HcQuery, HcList, HcMark, HcRemove, HcClear, HcCreate,
       Clear, Start, StartFails, RemoveAll
  <2>2. KeepsPicks /\ StartsLow
    BY <1>5, <2>1, RebuildIsCalm
    DEF HealthCheckStep, HcQuery, HcList, HcMark, HcRemove, HcClear, HcCreate
  <2>3. NumbersLow
    BY <2>1 DEF NumbersLow
  <2> QED
    BY <1>2, <2>1, <2>2, <2>3, FewKept
<1>6. CASE Redeploy \/ RedeployStep \/ UpdateReplicas \/ UpdateStep
  <2>1. UNCHANGED <<rec, auto>>
    BY <1>6 DEF Redeploy, RedeployStep, RedeployLoad, RedeployRemove, RedeployClear,
       RedeployCreate, RedeployCommit, UpdateReplicas, UpdateStep, UpdateLoad, UpdateCommit
  <2>2. events.calm
    BY <1>1, <1>6, CalmWas DEF Redeploy, RedeployStep, RedeployLoad, RedeployRemove, RedeployClear,
       RedeployCreate, RedeployCommit, UpdateReplicas, UpdateStep, UpdateLoad, UpdateCommit,
       Clear, Start, StartFails, RemoveAll
  <2>3. KeepsPicks /\ StartsLow
    BY <1>6, <2>1, RebuildIsCalm DEF Redeploy, RedeployStep, RedeployLoad, RedeployRemove,
       RedeployClear, RedeployCreate, RedeployCommit, UpdateReplicas, UpdateStep, UpdateLoad,
       UpdateCommit
  <2>4. NumbersLow
    BY <2>1 DEF NumbersLow
  <2> QED
    BY <1>2, <2>2, <2>3, <2>4, FewKept
\* A disturbance ends the calm.
<1>7. CASE PlaneRestarts \/ \E n \in Numbers : ContainerExits(n) \/ CleanUp(n)
  BY <1>1, <1>7 DEF PlaneRestarts, ContainerExits, CleanUp
<1>8. CASE UNCHANGED vars
  <2>1. events.calm /\ KeepsPicks /\ StartsLow /\ NumbersLow
    BY <1>8 DEF vars, KeepsPicks, StartsLow, NumbersLow
  <2> QED
    BY <1>2, <2>1, FewKept
<1> QED
  BY <1>3, <1>4, <1>5, <1>6, <1>7, <1>8 DEF Next

-----------------------------------------------------------------------------
(* The theorems *)

\* The first state has one container, the plain name.
LEMMA ReplicasInit == Init => IInv
<1> SUFFICES ASSUME Init PROVE IInv
  OBVIOUS
<1>1. ScalersSparePlainName /\ PlainNameIsUp
  BY ReplicasAssumption DEF Init, ScalersSparePlainName, PlainNameIsUp, Numbers, Scalers, Gone
<1>2. DownIsPicked /\ NumbersAreLow
  BY LimitBounds DEF Init, DownIsPicked, NumbersAreLow, Present
<1> QED
  BY <1>1, <1>2, TypeInit DEF IInv, ReplicasAreFew

\* The four parts of IInv are kept together.
LEMMA ReplicasStep == IInv /\ [Next]_vars => IInv'
BY TypeStep, SpareStep, PlainStep, FewStep DEF IInv

\* IInv is the invariant behind the theorems that follow.
THEOREM ReplicasInvariant == Spec => []IInv
BY ReplicasInit, ReplicasStep, PTL DEF Spec

\* Whatever reconciler and autoscaler decide from listings that are out of date, a
\* replica stays up while no container exits, no call fails and nobody rebuilds.
THEOREM ScalingIsSafe == Spec => []ScalingKeepsAReplica
<1>1. IInv => ScalingKeepsAReplica
  BY ReplicasAssumption DEF IInv, PlainNameIsUp, ScalingKeepsAReplica, Running, Numbers
<1> QED
  BY <1>1, ReplicasInvariant, PTL

\* Reconciler, autoscaler and rebuilds together start at most one replica more than
\* either scaler may ask for, while no container exits and no call fails.
THEOREM OvershootIsOne == Spec => []OvershootIsBounded
<1>1. IInv => OvershootIsBounded
  <2> SUFFICES ASSUME IInv, events.calm PROVE Cardinality(Running) <= Limit + 1
    BY DEF OvershootIsBounded
  <2>1. Running \in SUBSET (1 .. Limit + 1)
    BY ReplicasAssumption DEF IInv, ReplicasAreFew, NumbersAreLow, Running, Present, Numbers
  <2>2. IsFiniteSet(1 .. Limit + 1) /\ Cardinality(1 .. Limit + 1) = Limit + 1
    BY LimitBounds, FS_Interval
  <2> QED
    BY <2>1, <2>2, FS_Subset
<1> QED
  BY <1>1, ReplicasInvariant, PTL
=============================================================================
