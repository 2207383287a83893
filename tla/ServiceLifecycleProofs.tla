----------------------- MODULE ServiceLifecycleProofs -----------------------
(***************************************************************************)
(* Proofs about ServiceLifecycle, for any job table, any number of calls,  *)
(* failures and attempts.                                                  *)
(***************************************************************************)
EXTENDS ServiceLifecycle, TLAPS

-----------------------------------------------------------------------------
(* What the calls shared by the actors do to the types *)

USE DEF Live

\* An UPDATE of the status keeps the row's type, its phase and its manifest.
LEMMA SetStatusType ==
    ASSUME TypeOK, NEW s \in Status, SetStatus(s)
    PROVE  row' \in Row /\ row'.phase = row.phase /\ row'.manifest = row.manifest
BY DEF TypeOK, SetStatus, Row

\* An UPDATE that stores the manifest reaches a live row only.
LEMMA StoreManifestType ==
    ASSUME TypeOK, StoreManifest
    PROVE  /\ row' \in Row /\ row'.phase = row.phase
           /\ row'.manifest = (IF Live THEN TRUE ELSE row.manifest)
BY DEF TypeOK, StoreManifest, Row, Status

\* A failure uses up one of the failures left, so that they are no longer all there.
LEMMA FaultType ==
    ASSUME TypeOK, Fault
    PROVE  faults' \in 0 .. MaxFaults /\ faults' # MaxFaults
BY LifecycleAssumption DEF TypeOK, Fault, LifecycleAssumption

\* A call uses up one of the calls left.
LEMMA CallType ==
    ASSUME TypeOK, Call
    PROVE  calls' \in 0 .. MaxCalls
BY LifecycleAssumption DEF TypeOK, Call, LifecycleAssumption

\* queue.Insert fills a slot of the job table with a job.
LEMMA EnqueueType ==
    ASSUME TypeOK, NEW k \in JobKind, Enqueue(k)
    PROVE  job' \in [Jobs -> JobState]
BY LifecycleAssumption DEF TypeOK, Enqueue, JobState, JobStage, LifecycleAssumption

\* A job that goes on to its next stage stays a job.
LEMMA GotoType ==
    ASSUME TypeOK, NEW j \in Jobs, NEW st \in JobStage, job[j].kind \in JobKind, Goto(j, st)
    PROVE  job' \in [Jobs -> JobState]
BY DEF TypeOK, Goto, JobState, FreeSlot, JobKind

\* A completed job leaves a free slot.
LEMMA FinishType ==
    ASSUME TypeOK, NEW j \in Jobs, Finish(j)
    PROVE  job' \in [Jobs -> JobState]
BY DEF TypeOK, Finish, JobState

\* A failed job is queued again with one more attempt, or discarded.
LEMMA RetryType ==
    ASSUME TypeOK, NEW j \in Jobs, job[j].kind \in JobKind, Retry(j)
    PROVE  job' \in [Jobs -> JobState]
<1>1. job[j] \in [kind : JobKind, at : JobStage, tries : 0 .. MaxTries - 1]
  BY DEF TypeOK, JobState, FreeSlot, JobKind
<1>2. job[j].tries + 1 < MaxTries =>
        [kind |-> job[j].kind, at |-> "queued", tries |-> job[j].tries + 1] \in JobState
  BY <1>1, LifecycleAssumption DEF JobState, JobStage, LifecycleAssumption
<1> QED
  BY <1>2 DEF TypeOK, Retry, JobState

\* Only a job is past the free stage.
LEMMA ClearedKind ==
    ASSUME TypeOK, NEW j \in Jobs, job[j].at # "free"
    PROVE  job[j].kind \in JobKind
BY DEF TypeOK, JobState, FreeSlot

-----------------------------------------------------------------------------
(* Type correctness: one lemma per actor, one step per action *)

\* Every step of every kind of job keeps the types.
LEMMA JobStepType ==
    ASSUME TypeOK, raced' \in BOOLEAN, NEW j \in Jobs, JobStep(j)
    PROVE  TypeOK'
<1>1. CASE DeployLoad(j)
  BY <1>1, GotoType, RetryType
  DEF TypeOK, DeployLoad, At, JobKind, JobStage
<1>2. CASE DeployPrepareFails(j)
  BY <1>2, FaultType, RetryType, SetStatusType
  DEF TypeOK, DeployPrepareFails, At, JobKind, Status
<1>3. CASE DeployRoute(j)
  BY <1>3, FaultType, GotoType
  DEF TypeOK, DeployRoute, At, JobKind, JobStage
<1>4. CASE DeployCommit(j)
  BY <1>4, FinishType, StoreManifestType
  DEF TypeOK, DeployCommit
<1>5. CASE RedeployLoad(j)
  BY <1>5, GotoType, RetryType, SetStatusType
  DEF TypeOK, RedeployLoad, At, JobKind, JobStage, Status
<1>6. CASE RedeployPrepareFails(j)
  BY <1>6, FaultType, RetryType, SetStatusType
  DEF TypeOK, RedeployPrepareFails, At, JobKind, Status
<1>7. CASE UpdateLoad(j)
  BY <1>7, GotoType, RetryType, FinishType
  DEF TypeOK, UpdateLoad, At, JobKind, JobStage
<1>8. CASE UpdateRoute(j)
  BY <1>8, FaultType, GotoType
  DEF TypeOK, UpdateRoute, At, JobKind, JobStage
<1>9. CASE ReplaceRemove(j)
  BY <1>9, FaultType, GotoType
  DEF TypeOK, ReplaceRemove, RemoveContainers, At, JobKind, JobStage, Container
<1>10. CASE ReplaceCommit(j)
  BY <1>10, FinishType, StoreManifestType
  DEF TypeOK, ReplaceCommit
<1>11. CASE DeleteLoad(j)
  BY <1>11, GotoType, RetryType
  DEF TypeOK, DeleteLoad, At, JobKind, JobStage
<1>12. CASE DeleteRoute(j)
  BY <1>12, FaultType, GotoType
  DEF TypeOK, DeleteRoute, At, JobKind, JobStage
<1>13. CASE DeleteContainers(j)
  BY <1>13, FaultType, GotoType
  DEF TypeOK, DeleteContainers, RemoveContainers, At, JobKind, JobStage, Container
<1>14. CASE DeleteRow(j)
  BY <1>14, FinishType
  DEF TypeOK, DeleteRow, Row, Phase
<1>15. CASE HealLoad(j)
  BY <1>15, GotoType, FinishType
  DEF TypeOK, HealLoad, At, JobKind, JobStage
<1>16. CASE HealRemove(j)
  BY <1>16, FaultType, GotoType, FinishType
  DEF TypeOK, HealRemove, RemoveContainers, At, JobKind, JobStage, Container
<1>17. CASE HealCommit(j)
  BY <1>17, FinishType, SetStatusType
  DEF TypeOK, HealCommit, Status
<1>18. CASE JobClear(j)
  BY <1>18, FaultType, GotoType, RetryType, SetStatusType
  DEF TypeOK, JobClear, Creating, CreateFailed, ClearName, PullFails, At, JobKind, JobStage, Status, Container
<1>19. CASE JobCreate(j)
  BY <1>19, FaultType, GotoType, RetryType, SetStatusType, ClearedKind
  DEF TypeOK, JobCreate, CreateFailed, StartContainer, StartContainerFails, JobKind, JobStage, Status, Container
<1> QED
  BY <1>1, <1>2, <1>3, <1>4, <1>5, <1>6, <1>7, <1>8, <1>9, <1>10, <1>11, <1>12, <1>13, <1>14, <1>15, <1>16, <1>17, <1>18, <1>19
  DEF JobStep, DeployStep, ReplaceStep, DeleteStep, HealStep

\* Every API handler keeps the types.
LEMMA ApiStepType ==
    ASSUME TypeOK, raced' \in BOOLEAN, ApiStep
    PROVE  TypeOK'
<1>1. CASE CreateService
  BY <1>1, CallType, EnqueueType
  DEF TypeOK, CreateService, JobKind, Row, Phase, Status
<1>2. CASE DeleteService
  BY <1>2, CallType, EnqueueType, FaultType, SetStatusType
  DEF TypeOK, DeleteService, RequestJob, JobKind, Status
<1>3. CASE RedeployService
  BY <1>3, CallType, EnqueueType, FaultType, SetStatusType
  DEF TypeOK, RedeployService, RequestJob, JobKind, Status
<1>4. CASE UpdateService
  BY <1>4, CallType, EnqueueType
  DEF TypeOK, UpdateService, JobKind
<1>5. CASE BeginStart
  BY <1>5, CallType, SetStatusType
  DEF TypeOK, BeginStart, BeginContainerCall, Status, ApiStage
<1>6. CASE BeginStop
  BY <1>6, CallType, SetStatusType
  DEF TypeOK, BeginStop, BeginContainerCall, Status, ApiStage
<1>7. CASE BeginRestart
  BY <1>7, CallType, SetStatusType
  DEF TypeOK, BeginRestart, BeginContainerCall, Status, ApiStage
<1> QED
  BY <1>1, <1>2, <1>3, <1>4, <1>5, <1>6, <1>7
  DEF ApiStep

\* So does the second half of a container start, stop or restart call.
LEMMA ApiReturnType ==
    ASSUME TypeOK, raced' \in BOOLEAN, ApiReturn
    PROVE  TypeOK'
<1>1. CASE EndStart
  BY <1>1, FaultType
  DEF TypeOK, EndStart, ApiStage, Container
<1>2. CASE EndStop
  BY <1>2, FaultType
  DEF TypeOK, EndStop, ApiStage, Container
<1>3. CASE EndRestart
  BY <1>3, FaultType, SetStatusType
  DEF TypeOK, EndRestart, ApiStage, Container, Status
<1> QED
  BY <1>1, <1>2, <1>3
  DEF ApiReturn

\* Every step of the health check keeps the types.
LEMMA HealthCheckStepType ==
    ASSUME TypeOK, raced' \in BOOLEAN, HealthCheckStep
    PROVE  TypeOK'
<1>1. CASE HcQuery
  BY <1>1
  DEF TypeOK, HcQuery, HcStage
<1>2. CASE HcList
  BY <1>2
  DEF TypeOK, HcList, HcDecision, HcStage
<1>3. CASE HcPurge
  BY <1>3
  DEF TypeOK, HcPurge, HcStage, Row, Phase
<1>4. CASE HcRemove
  BY <1>4, FaultType
  DEF TypeOK, HcRemove, RemoveContainers, HcStage, Container
<1>5. CASE HcClear
  BY <1>5, FaultType
  DEF TypeOK, HcClear, ClearName, PullFails, HcStage, Container
<1>6. CASE HcCreate
  BY <1>6, FaultType
  DEF TypeOK, HcCreate, StartContainer, StartContainerFails, HcStage, Container
<1>7. CASE HcCommit
  BY <1>7, SetStatusType
  DEF TypeOK, HcCommit, HcStage, Status
<1> QED
  BY <1>1, <1>2, <1>3, <1>4, <1>5, <1>6, <1>7
  DEF HealthCheckStep

\* Every step of the reconciler keeps the types.
LEMMA ReconcilerStepType ==
    ASSUME TypeOK, raced' \in BOOLEAN, ReconcilerStep
    PROVE  TypeOK'
<1>1. CASE RecQuery
  BY <1>1
  DEF TypeOK, RecQuery, RecStage
<1>2. CASE RecDiff
  BY <1>2
  DEF TypeOK, RecDiff, RecStage
<1>3. CASE RecRecheck
  BY <1>3, SetStatusType
  DEF TypeOK, RecRecheck, RecStage, Status
<1>4. CASE RecRemove
  BY <1>4, FaultType
  DEF TypeOK, RecRemove, RemoveContainers, RecStage, Container
<1>5. CASE RecClear
  BY <1>5, FaultType
  DEF TypeOK, RecClear, ClearName, PullFails, RecStage, Container
<1>6. CASE RecCreate
  BY <1>6, FaultType
  DEF TypeOK, RecCreate, StartContainer, StartContainerFails, RecStage, Container
<1>7. CASE RecCommit
  BY <1>7, SetStatusType
  DEF TypeOK, RecCommit, RecStage, Status
<1> QED
  BY <1>1, <1>2, <1>3, <1>4, <1>5, <1>6, <1>7
  DEF ReconcilerStep

\* An exit of the container, time, and a crash of the plane keep the types.
LEMMA EnvironmentType ==
    ASSUME TypeOK, raced' \in BOOLEAN, ContainerExits \/ TenMinutesPass \/ PlaneRestarts
    PROVE  TypeOK'
<1>1. CASE ContainerExits
  BY <1>1, CallType, EnqueueType
  DEF TypeOK, ContainerExits, JobKind, Container
<1>2. CASE TenMinutesPass
  BY <1>2
  DEF TypeOK, TenMinutesPass, Row
<1>3. CASE PlaneRestarts
  <2>1. ASSUME NEW j \in Jobs, job[j].at \notin {"free", "queued"}
        PROVE  [job[j] EXCEPT !.at = "queued"] \in JobState
    BY <2>1 DEF TypeOK, JobState, JobStage, FreeSlot
  <2>2. job' \in [Jobs -> JobState]
    BY <1>3, <2>1 DEF TypeOK, PlaneRestarts
  <2> QED
    BY <1>3, <2>2, FaultType DEF TypeOK, PlaneRestarts, HcStage, RecStage, ApiStage
<1> QED
  BY <1>1, <1>2, <1>3

\* The types hold before the service is created.
LEMMA InitType == Init => TypeOK
<1> SUFFICES ASSUME Init PROVE TypeOK
  OBVIOUS
<1>1. row \in Row
  BY DEF Init, Row, Phase, Status
<1>2. job \in [Jobs -> JobState]
  BY DEF Init, JobState
<1>3. calls \in 0 .. MaxCalls /\ faults \in 0 .. MaxFaults
  BY LifecycleAssumption DEF Init, LifecycleAssumption
<1> QED
  BY <1>1, <1>2, <1>3 DEF Init, TypeOK, Container, HcStage, RecStage, ApiStage

\* Every step keeps the types.
LEMMA TypeStep == TypeOK /\ [Next]_vars => TypeOK'
<1> SUFFICES ASSUME TypeOK, [Next]_vars PROVE TypeOK'
  OBVIOUS
<1>1. CASE Next
  <2>1. raced' \in BOOLEAN
    BY <1>1 DEF Next, TypeOK
  <2> QED
    BY <1>1, <2>1, ApiStepType, ApiReturnType, JobStepType, HealthCheckStepType,
       ReconcilerStepType, EnvironmentType DEF Next, Step
<1>2. CASE UNCHANGED vars
  BY <1>2 DEF vars, TypeOK
<1> QED
  BY <1>1, <1>2

\* The type invariant holds in every reachable state.
THEOREM TypeCorrect == Spec => []TypeOK
BY InitType, TypeStep, PTL DEF Spec

-----------------------------------------------------------------------------
(* What the calls do to the slots of the job table *)

\* Only the job itself changes its stage.
LEMMA GotoEffect ==
    ASSUME TypeOK, NEW j \in Jobs, NEW st, Goto(j, st)
    PROVE  /\ job'[j].kind = job[j].kind /\ job'[j].at = st
           /\ \A i \in Jobs \ {j} : job'[i] = job[i]
BY DEF TypeOK, Goto, JobState, FreeSlot

\* Only the job itself leaves its slot.
LEMMA FinishEffect ==
    ASSUME TypeOK, NEW j \in Jobs, Finish(j)
    PROVE  /\ job'[j].kind = "none" /\ job'[j].at = "free"
           /\ \A i \in Jobs \ {j} : job'[i] = job[i]
BY DEF TypeOK, Finish, FreeSlot

\* A job that is run again or discarded holds nothing that it has read.
LEMMA RetryEffect ==
    ASSUME TypeOK, NEW j \in Jobs, Retry(j)
    PROVE  /\ \/ job'[j].kind = job[j].kind /\ job'[j].at = "queued"
              \/ job'[j].kind = "none" /\ job'[j].at = "free"
           /\ \A i \in Jobs \ {j} : job'[i] = job[i]
BY DEF TypeOK, Retry, FreeSlot

\* A new job is queued, the others stay as they are.
LEMMA EnqueueEffect ==
    ASSUME TypeOK, NEW k, Enqueue(k)
    PROVE  \A i \in Jobs : \/ job'[i] = job[i]
                           \/ job[i] = FreeSlot /\ job'[i].kind = k /\ job'[i].at = "queued"
BY DEF TypeOK, Enqueue

\* After a crash of the plane every job is queued or its slot is free.
LEMMA RestartEffect ==
    ASSUME TypeOK, PlaneRestarts
    PROVE  \A i \in Jobs : /\ job'[i].kind = job[i].kind
                           /\ job'[i].at \in {"free", "queued"}
BY DEF TypeOK, PlaneRestarts, JobState, FreeSlot

\* A slot is free exactly when it holds no job.
LEMMA FreeSlots ==
    ASSUME TypeOK
    PROVE  \A j \in Jobs : job[j].at = "free" <=> job[j].kind = "none"
BY DEF TypeOK, JobState, FreeSlot, JobKind, JobStage

-----------------------------------------------------------------------------
(* A removed row stays removed *)

PhaseMoves ==
    \/ row'.phase = row.phase
    \/ row.phase = "unborn" /\ row'.phase = "live"
    \/ row.phase = "live" /\ row'.phase = "deleted" /\ DeleteRunning
    \/ row.phase = "live" /\ row'.phase = "purged"

\* How the phase may move: only CreateService, the delete job and the health check move it.
LEMMA PhaseStep ==
    ASSUME TypeOK, Step
    PROVE  PhaseMoves
<1> USE SetStatusType, StoreManifestType DEF PhaseMoves
<1>1. CASE ApiStep
  BY <1>1 DEF ApiStep, CreateService, DeleteService, RedeployService, UpdateService, RequestJob,
              BeginStart, BeginStop, BeginRestart, BeginContainerCall, Status
<1>2. CASE ApiReturn
  BY <1>2 DEF ApiReturn, EndStart, EndStop, EndRestart, Status
<1>3. ASSUME NEW j \in Jobs, JobStep(j) PROVE PhaseMoves
  <2>1. CASE DeployStep(j)
    BY <2>1 DEF DeployStep, DeployLoad, DeployPrepareFails, DeployRoute, DeployCommit, Status
  <2>2. CASE ReplaceStep(j)
    BY <2>2 DEF ReplaceStep, RedeployLoad, RedeployPrepareFails, UpdateLoad, UpdateRoute,
                ReplaceRemove, ReplaceCommit, Status
  <2>3. CASE DeleteStep(j)
    BY <2>3 DEF DeleteStep, DeleteLoad, DeleteRoute, DeleteContainers, DeleteRow, TypeOK, Row, At,
                DeleteRunning
  <2>4. CASE HealStep(j)
    BY <2>4 DEF HealStep, HealLoad, HealRemove, HealCommit, Status
  <2>5. CASE JobClear(j) \/ JobCreate(j)
    BY <2>5 DEF JobClear, JobCreate, CreateFailed, Status
  <2> QED
    BY <1>3, <2>1, <2>2, <2>3, <2>4, <2>5 DEF JobStep
<1>4. CASE HealthCheckStep
  BY <1>4 DEF HealthCheckStep, HcQuery, HcList, HcPurge, HcRemove, HcClear, HcCreate, HcCommit,
              Status, TypeOK, Row
<1>5. CASE ReconcilerStep
  BY <1>5 DEF ReconcilerStep, RecQuery, RecDiff, RecRecheck, RecRemove, RecClear, RecCreate,
              RecCommit, Status
<1>6. CASE ContainerExits \/ TenMinutesPass \/ PlaneRestarts
  BY <1>6 DEF ContainerExits, TenMinutesPass, PlaneRestarts, TypeOK, Row
<1> QED
  BY <1>1, <1>2, <1>3, <1>4, <1>5, <1>6 DEF Step

\* No write of any actor, however old its copy of the row, brings a removed
\* service back (manager.go, service_workers.go, reconciler.go, containers.go).
THEOREM RemovedForGood == Spec => DeletedStaysDeleted
<1>1. TypeOK /\ [Next]_vars
      => [row.phase \in {"deleted", "purged"} => row'.phase = row.phase]_vars
  BY PhaseStep DEF Next, PhaseMoves
<1> QED
  BY <1>1, TypeCorrect, PTL DEF Spec, DeletedStaysDeleted

-----------------------------------------------------------------------------
(* The inductive invariant, one lemma per conjunct *)

\* Nobody starts to work on a service before Create has inserted its row.
LEMMA UnbornIsIdleStep ==
    ASSUME TypeOK, UnbornIsIdle, Step
    PROVE  UnbornIsIdle'
<1> SUFFICES ASSUME row'.phase = "unborn" PROVE UnbornIsIdle'
  BY DEF UnbornIsIdle, TypeOK
<1>1. UnbornIsIdle /\ row.phase = "unborn"
  BY PhaseStep DEF PhaseMoves
<1>2. /\ ~row.manifest /\ ct = "absent" /\ hc = "idle" /\ rec = "idle" /\ api = "idle"
      /\ \A j \in Jobs : job[j] = FreeSlot
  BY <1>1 DEF UnbornIsIdle
<1>3. ~ApiStep
  BY <1>1, <1>2 DEF ApiStep, CreateService, DeleteService, RedeployService, UpdateService,
     RequestJob, BeginStart, BeginStop, BeginRestart, BeginContainerCall
<1>4. ~ApiReturn
  BY <1>2 DEF ApiReturn, EndStart, EndStop, EndRestart
<1>5. ASSUME NEW j \in Jobs PROVE ~JobStep(j)
  <2>1. job[j].kind = "none" /\ job[j].at = "free"
    BY <1>2 DEF FreeSlot
  <2> QED
    BY <2>1
    DEF JobStep, DeployStep, DeployLoad, DeployPrepareFails, DeployRoute, DeployCommit, ReplaceStep,
        RedeployLoad, RedeployPrepareFails, UpdateLoad, UpdateRoute, ReplaceRemove,
        ReplaceCommit, DeleteStep, DeleteLoad, DeleteRoute, DeleteContainers, DeleteRow, HealStep,
        HealLoad, HealRemove, HealCommit, JobClear, Creating, JobCreate, At
<1>6. ~HealthCheckStep
  BY <1>1, <1>2 DEF HealthCheckStep, HcQuery, HcList, HcPurge, HcRemove, HcClear, HcCreate, HcCommit
<1>7. ~ReconcilerStep
  BY <1>1, <1>2
  DEF ReconcilerStep, RecQuery, RecDiff, RecRecheck, RecRemove, RecClear, RecCreate, RecCommit
<1>8. PlaneRestarts
  BY <1>1, <1>2, <1>3, <1>4, <1>5, <1>6, <1>7 DEF Step, ContainerExits, TenMinutesPass
<1> QED
  BY <1>2, <1>8 DEF PlaneRestarts, UnbornIsIdle, FreeSlot

\* A job checks the manifest when it loads the row, and nobody takes it away later.
LEMMA JobsHoldManifestStep ==
    ASSUME TypeOK, UnbornIsIdle, JobsHoldManifest, Step
    PROVE  JobsHoldManifest'
<1> USE SetStatusType, StoreManifestType, FreeSlots DEF UnbornIsIdle, JobsHoldManifest
<1>1. CASE ApiStep
  <2>1. CASE CreateService
    BY <2>1, EnqueueEffect DEF CreateService, FreeSlot
  <2>2. CASE DeleteService \/ RedeployService \/ UpdateService
    BY <2>2, EnqueueEffect, FaultType
    DEF DeleteService, RedeployService, UpdateService, RequestJob, FreeSlot, Status
  <2>3. CASE BeginStart \/ BeginStop \/ BeginRestart
    BY <2>3 DEF BeginStart, BeginStop, BeginRestart, BeginContainerCall, Status
  <2> QED
    BY <1>1, <2>1, <2>2, <2>3 DEF ApiStep
<1>2. CASE ApiReturn
  BY <1>2, FaultType DEF ApiReturn, EndStart, EndStop, EndRestart, Status
<1>3. ASSUME NEW j \in Jobs, JobStep(j) PROVE JobsHoldManifest'
  <2> USE GotoEffect, FinishEffect, RetryEffect, FaultType DEF At, Status
  <2>1. CASE DeployLoad(j) \/ DeployPrepareFails(j)
    BY <2>1 DEF DeployLoad, DeployPrepareFails
  <2>2. CASE DeployRoute(j)
    BY <2>2 DEF DeployRoute
  <2>14. CASE DeployCommit(j)
    BY <2>14 DEF DeployCommit
  <2>3. CASE RedeployLoad(j) \/ RedeployPrepareFails(j) \/ UpdateLoad(j)
    BY <2>3 DEF RedeployLoad, RedeployPrepareFails, UpdateLoad
  <2>4. CASE UpdateRoute(j)
    BY <2>4 DEF UpdateRoute
  <2>5. CASE ReplaceRemove(j)
    BY <2>5 DEF ReplaceRemove, RemoveContainers
  <2>6. CASE ReplaceCommit(j)
    BY <2>6 DEF ReplaceCommit
  <2>7. CASE DeleteLoad(j) \/ DeleteRoute(j)
    BY <2>7 DEF DeleteLoad, DeleteRoute
  <2>8. CASE DeleteContainers(j)
    BY <2>8 DEF DeleteContainers, RemoveContainers
  <2>9. CASE DeleteRow(j)
    BY <2>9 DEF DeleteRow
  <2>10. CASE HealLoad(j) \/ HealCommit(j)
    BY <2>10 DEF HealLoad, HealCommit, HealGuard
  <2>11. CASE HealRemove(j)
    BY <2>11 DEF HealRemove, RemoveContainers, Recovered
  <2>12. CASE JobClear(j)
    BY <2>12 DEF JobClear, Creating, ClearName, PullFails, CreateFailed
  <2>13. CASE JobCreate(j)
    BY <2>13 DEF JobCreate, StartContainer, StartContainerFails, CreateFailed
  <2> QED
    BY <1>3, <2>1, <2>2, <2>3, <2>4, <2>5, <2>6, <2>7, <2>8, <2>9, <2>10, <2>11, <2>12, <2>13,
       <2>14
    DEF JobStep, DeployStep, ReplaceStep, DeleteStep, HealStep
<1>4. CASE HealthCheckStep
  <2> USE FaultType
  <2>1. CASE HcQuery \/ HcList \/ HcPurge \/ HcCommit
    BY <2>1 DEF HcQuery, HcList, HcDecision, HcPurge, HcCommit, TypeOK, Row, Status
  <2>2. CASE HcRemove \/ HcClear
    BY <2>2 DEF HcRemove, HcClear, RemoveContainers, ClearName, PullFails
  <2>3. CASE HcCreate
    BY <2>3 DEF HcCreate, StartContainer, StartContainerFails
  <2> QED
    BY <1>4, <2>1, <2>2, <2>3 DEF HealthCheckStep
<1>5. CASE ReconcilerStep
  <2> USE FaultType
  <2>1. CASE RecQuery \/ RecDiff \/ RecRecheck \/ RecCommit
    BY <2>1 DEF RecQuery, RecDiff, RecRecheck, RecCommit, Status
  <2>2. CASE RecRemove \/ RecClear
    BY <2>2 DEF RecRemove, RecClear, RemoveContainers, ClearName, PullFails
  <2>3. CASE RecCreate
    BY <2>3 DEF RecCreate, StartContainer, StartContainerFails
  <2> QED
    BY <1>5, <2>1, <2>2, <2>3 DEF ReconcilerStep
<1>6. CASE ContainerExits \/ TenMinutesPass
  BY <1>6, EnqueueEffect DEF ContainerExits, TenMinutesPass, FreeSlot, TypeOK, Row
<1>7. CASE PlaneRestarts
  BY <1>7, RestartEffect, FaultType DEF PlaneRestarts
<1> QED
  BY <1>1, <1>2, <1>3, <1>4, <1>5, <1>6, <1>7 DEF Step

\* Whoever removes the container of a deployed service is, without a failure, at work on the next one.
LEMMA MissingIsReplacedStep ==
    ASSUME TypeOK, UnbornIsIdle, JobsHoldManifest, MissingIsReplaced, Step
    PROVE  MissingIsReplaced'
<1> USE SetStatusType, StoreManifestType, FreeSlots DEF UnbornIsIdle, JobsHoldManifest, MissingIsReplaced, Replacing, Deployed
<1>1. CASE ApiStep
  <2>1. CASE CreateService
    BY <2>1, EnqueueEffect DEF CreateService, FreeSlot
  <2>2. CASE DeleteService \/ RedeployService \/ UpdateService
    BY <2>2, EnqueueEffect, FaultType
    DEF DeleteService, RedeployService, UpdateService, RequestJob, FreeSlot, Status
  <2>3. CASE BeginStart \/ BeginStop \/ BeginRestart
    BY <2>3 DEF BeginStart, BeginStop, BeginRestart, BeginContainerCall, Status
  <2> QED
    BY <1>1, <2>1, <2>2, <2>3 DEF ApiStep
<1>2. CASE ApiReturn
  BY <1>2, FaultType DEF ApiReturn, EndStart, EndStop, EndRestart, Status
<1>3. ASSUME NEW j \in Jobs, JobStep(j) PROVE MissingIsReplaced'
  <2> USE GotoEffect, FinishEffect, RetryEffect, FaultType DEF At, Status
  <2>1. CASE DeployLoad(j) \/ DeployPrepareFails(j)
    BY <2>1 DEF DeployLoad, DeployPrepareFails
  <2>2. CASE DeployRoute(j)
    BY <2>2 DEF DeployRoute
  <2>14. CASE DeployCommit(j)
    BY <2>14 DEF DeployCommit
  <2>3. CASE RedeployLoad(j) \/ RedeployPrepareFails(j) \/ UpdateLoad(j)
    BY <2>3 DEF RedeployLoad, RedeployPrepareFails, UpdateLoad
  <2>4. CASE UpdateRoute(j)
    <3>1. UNCHANGED <<row, ct, hc, rec>> /\ Goto(j, "routed")
      BY <2>4 DEF UpdateRoute
    <3>2. job[j].kind = "update" /\ job[j].at = "loaded"
      BY <2>4 DEF UpdateRoute
    <3>3. faults' = MaxFaults => faults = MaxFaults
      BY <2>4 DEF UpdateRoute
    <3>4. Deployed' => Deployed
      BY <3>1, <3>2
    <3>5. Replacing => Replacing'
      BY <3>1, <3>2
    <3> QED
      BY <3>1, <3>3, <3>4, <3>5
  <2>5. CASE ReplaceRemove(j)
    BY <2>5 DEF ReplaceRemove, RemoveContainers
  <2>6. CASE ReplaceCommit(j)
    BY <2>6 DEF ReplaceCommit
  <2>7. CASE DeleteLoad(j) \/ DeleteRoute(j)
    BY <2>7 DEF DeleteLoad, DeleteRoute
  <2>8. CASE DeleteContainers(j)
    BY <2>8 DEF DeleteContainers, RemoveContainers
  <2>9. CASE DeleteRow(j)
    BY <2>9 DEF DeleteRow
  <2>10. CASE HealLoad(j) \/ HealCommit(j)
    BY <2>10 DEF HealLoad, HealCommit, HealGuard
  <2>11. CASE HealRemove(j)
    BY <2>11 DEF HealRemove, RemoveContainers, Recovered
  <2>12. CASE JobClear(j)
    BY <2>12 DEF JobClear, Creating, ClearName, PullFails, CreateFailed
  <2>13. CASE JobCreate(j)
    BY <2>13 DEF JobCreate, StartContainer, StartContainerFails, CreateFailed
  <2> QED
    BY <1>3, <2>1, <2>2, <2>3, <2>4, <2>5, <2>6, <2>7, <2>8, <2>9, <2>10, <2>11, <2>12, <2>13,
       <2>14
    DEF JobStep, DeployStep, ReplaceStep, DeleteStep, HealStep
<1>4. CASE HealthCheckStep
  <2> USE FaultType
  <2>1. CASE HcQuery \/ HcList \/ HcPurge \/ HcCommit
    BY <2>1 DEF HcQuery, HcList, HcDecision, HcPurge, HcCommit, TypeOK, Row, Status
  <2>2. CASE HcRemove \/ HcClear
    BY <2>2 DEF HcRemove, HcClear, RemoveContainers, ClearName, PullFails
  <2>3. CASE HcCreate
    BY <2>3 DEF HcCreate, StartContainer, StartContainerFails
  <2> QED
    BY <1>4, <2>1, <2>2, <2>3 DEF HealthCheckStep
<1>5. CASE ReconcilerStep
  <2> USE FaultType
  <2>1. CASE RecQuery \/ RecDiff \/ RecRecheck \/ RecCommit
    BY <2>1 DEF RecQuery, RecDiff, RecRecheck, RecCommit, Status
  <2>2. CASE RecRemove \/ RecClear
    BY <2>2 DEF RecRemove, RecClear, RemoveContainers, ClearName, PullFails
  <2>3. CASE RecCreate
    BY <2>3 DEF RecCreate, StartContainer, StartContainerFails
  <2> QED
    BY <1>5, <2>1, <2>2, <2>3 DEF ReconcilerStep
<1>6. CASE ContainerExits \/ TenMinutesPass
  BY <1>6, EnqueueEffect DEF ContainerExits, TenMinutesPass, FreeSlot, TypeOK, Row
<1>7. CASE PlaneRestarts
  BY <1>7, RestartEffect, FaultType DEF PlaneRestarts
<1> QED
  BY <1>1, <1>2, <1>3, <1>4, <1>5, <1>6, <1>7 DEF Step

\* Every loader looks for the row first.
LEMMA NobodyLoadsAGoneRow ==
    ASSUME TypeOK, UnbornIsIdle, Step, row'.phase # "live", OthersRunning'
    PROVE  OthersRunning
<1> USE SetStatusType, StoreManifestType, FreeSlots DEF OthersRunning
<1>1. CASE ApiStep
  BY <1>1, EnqueueEffect
  DEF ApiStep, CreateService, DeleteService, RedeployService, UpdateService, RequestJob,
      BeginStart, BeginStop, BeginRestart, BeginContainerCall, FreeSlot, Status
<1>2. CASE ApiReturn
  BY <1>2 DEF ApiReturn, EndStart, EndStop, EndRestart
<1>3. ASSUME NEW j \in Jobs, JobStep(j) PROVE OthersRunning
  <2> USE GotoEffect, FinishEffect, RetryEffect DEF At
  <2>1. CASE DeployStep(j)
    BY <2>1 DEF DeployStep, DeployLoad, DeployPrepareFails, DeployRoute, DeployCommit, Status
  <2>2. CASE ReplaceStep(j)
    <3>1. CASE RedeployLoad(j) \/ UpdateLoad(j)
      BY <3>1 DEF RedeployLoad, UpdateLoad, Status
    <3>2. CASE \/ RedeployPrepareFails(j) \/ UpdateRoute(j)
               \/ ReplaceRemove(j) \/ ReplaceCommit(j)
      BY <3>2 DEF RedeployPrepareFails, UpdateRoute, ReplaceRemove, ReplaceCommit
    <3> QED
      BY <2>2, <3>1, <3>2 DEF ReplaceStep
  <2>3. CASE DeleteStep(j)
    BY <2>3 DEF DeleteStep, DeleteLoad, DeleteRoute, DeleteContainers, DeleteRow
  <2>4. CASE HealStep(j)
    BY <2>4 DEF HealStep, HealLoad, HealRemove, HealCommit, HealGuard, Status
  <2>5. CASE JobClear(j) \/ JobCreate(j)
    BY <2>5 DEF JobClear, JobCreate, Creating
  <2> QED
    BY <1>3, <2>1, <2>2, <2>3, <2>4, <2>5 DEF JobStep
<1>4. CASE HealthCheckStep
  BY <1>4 DEF HealthCheckStep, HcQuery, HcList, HcPurge, HcRemove, HcClear, HcCreate, HcCommit
<1>5. CASE ReconcilerStep
  BY <1>5 DEF ReconcilerStep, RecQuery, RecDiff, RecRecheck, RecRemove, RecClear, RecCreate,
              RecCommit
<1>6. CASE ContainerExits \/ TenMinutesPass
  BY <1>6, EnqueueEffect DEF ContainerExits, TenMinutesPass, FreeSlot
<1>7. CASE PlaneRestarts
  BY <1>7, RestartEffect DEF PlaneRestarts
<1> QED
  BY <1>1, <1>2, <1>3, <1>4, <1>5, <1>6, <1>7 DEF Step

\* The history variable records every overlap with a delete job.
LEMMA DeleteIsAloneStep ==
    ASSUME TypeOK, UnbornIsIdle, DeleteIsAlone, Next
    PROVE  DeleteIsAlone'
<1> SUFFICES ASSUME ~raced', DeleteRunning' \/ row'.phase = "deleted", OthersRunning' PROVE FALSE
  BY DEF DeleteIsAlone
<1>1. Step /\ ~raced /\ ~DeleteRunning'
  BY DEF Next, TypeOK
<1>2. OthersRunning
  BY <1>1, NobodyLoadsAGoneRow
<1>3. DeleteRunning \/ row.phase = "deleted"
  BY <1>1, PhaseStep DEF PhaseMoves
<1> QED
  BY <1>1, <1>2, <1>3 DEF DeleteIsAlone

\* While somebody else holds the row and no race is recorded, no delete job is at work.
LEMMA AloneOrRaced ==
    ASSUME DeleteIsAlone, OthersRunning
    PROVE  ~raced => ~DeleteRunning /\ row.phase # "deleted"
BY DEF DeleteIsAlone

\* Without an overlap nobody puts back what the delete job has removed.
LEMMA CleanedStaysCleanStep ==
    ASSUME TypeOK, UnbornIsIdle, DeleteIsAlone, CleanedStaysClean, Step, raced' \/ ~raced
    PROVE  CleanedStaysClean'
<1> USE SetStatusType, StoreManifestType, FreeSlots DEF UnbornIsIdle, DeleteIsAlone, DeleteRunning, OthersRunning, CleanedStaysClean
<1>1. CASE ApiStep
  <2>1. CASE CreateService
    BY <2>1, EnqueueEffect DEF CreateService, FreeSlot
  <2>2. CASE DeleteService \/ RedeployService \/ UpdateService
    BY <2>2, EnqueueEffect, FaultType
    DEF DeleteService, RedeployService, UpdateService, RequestJob, FreeSlot, Status
  <2>3. CASE BeginStart \/ BeginStop \/ BeginRestart
    BY <2>3 DEF BeginStart, BeginStop, BeginRestart, BeginContainerCall, Status
  <2> QED
    BY <1>1, <2>1, <2>2, <2>3 DEF ApiStep
<1>2. CASE ApiReturn
  BY <1>2, FaultType DEF ApiReturn, EndStart, EndStop, EndRestart, Status
<1>3. ASSUME NEW j \in Jobs, JobStep(j) PROVE CleanedStaysClean'
  <2> USE GotoEffect, FinishEffect, RetryEffect, FaultType DEF At, Status
  <2>1. CASE DeployLoad(j) \/ DeployPrepareFails(j)
    BY <2>1 DEF DeployLoad, DeployPrepareFails
  <2>2. CASE DeployRoute(j)
    BY <2>2 DEF DeployRoute
  <2>14. CASE DeployCommit(j)
    BY <2>14 DEF DeployCommit
  <2>3. CASE RedeployLoad(j) \/ RedeployPrepareFails(j) \/ UpdateLoad(j)
    BY <2>3 DEF RedeployLoad, RedeployPrepareFails, UpdateLoad
  <2>4. CASE UpdateRoute(j)
    <3>1. OthersRunning /\ job[j].kind # "delete" /\ ct' = ct /\ row' = row
      BY <2>4 DEF UpdateRoute
    <3> QED
      BY <2>4, <3>1 DEF UpdateRoute
  <2>5. CASE ReplaceRemove(j)
    BY <2>5 DEF ReplaceRemove, RemoveContainers
  <2>6. CASE ReplaceCommit(j)
    BY <2>6 DEF ReplaceCommit
  <2>7. CASE DeleteLoad(j) \/ DeleteRoute(j)
    BY <2>7 DEF DeleteLoad, DeleteRoute
  <2>8. CASE DeleteContainers(j)
    BY <2>8 DEF DeleteContainers, RemoveContainers
  <2>9. CASE DeleteRow(j)
    BY <2>9 DEF DeleteRow
  <2>10. CASE HealLoad(j) \/ HealCommit(j)
    BY <2>10 DEF HealLoad, HealCommit, HealGuard
  <2>11. CASE HealRemove(j)
    BY <2>11 DEF HealRemove, RemoveContainers, Recovered
  <2>12. CASE JobClear(j)
    BY <2>12 DEF JobClear, Creating, ClearName, PullFails, CreateFailed
  <2>13. CASE JobCreate(j)
    <3>1. OthersRunning /\ row'.phase = row.phase
      BY <2>13 DEF JobCreate, CreateFailed
    <3>2. ~raced => ~DeleteRunning /\ row.phase # "deleted"
      BY <3>1, AloneOrRaced
    <3>3. \A i \in Jobs : job'[i].kind = "delete" => job'[i] = job[i]
      BY <2>13 DEF JobCreate, CreateFailed
    <3> QED
      BY <3>1, <3>2, <3>3
  <2> QED
    BY <1>3, <2>1, <2>2, <2>3, <2>4, <2>5, <2>6, <2>7, <2>8, <2>9, <2>10, <2>11, <2>12, <2>13,
       <2>14
    DEF JobStep, DeployStep, ReplaceStep, DeleteStep, HealStep
<1>4. CASE HealthCheckStep
  <2> USE FaultType
  <2>1. CASE HcQuery \/ HcList \/ HcPurge \/ HcCommit
    BY <2>1 DEF HcQuery, HcList, HcDecision, HcPurge, HcCommit, TypeOK, Row, Status
  <2>2. CASE HcRemove \/ HcClear
    BY <2>2 DEF HcRemove, HcClear, RemoveContainers, ClearName, PullFails
  <2>3. CASE HcCreate
    BY <2>3 DEF HcCreate, StartContainer, StartContainerFails
  <2> QED
    BY <1>4, <2>1, <2>2, <2>3 DEF HealthCheckStep
<1>5. CASE ReconcilerStep
  <2> USE FaultType
  <2>1. CASE RecQuery \/ RecDiff \/ RecRecheck \/ RecCommit
    BY <2>1 DEF RecQuery, RecDiff, RecRecheck, RecCommit, Status
  <2>2. CASE RecRemove \/ RecClear
    BY <2>2 DEF RecRemove, RecClear, RemoveContainers, ClearName, PullFails
  <2>3. CASE RecCreate
    BY <2>3 DEF RecCreate, StartContainer, StartContainerFails
  <2> QED
    BY <1>5, <2>1, <2>2, <2>3 DEF ReconcilerStep
<1>6. CASE ContainerExits \/ TenMinutesPass
  BY <1>6, EnqueueEffect DEF ContainerExits, TenMinutesPass, FreeSlot, TypeOK, Row
<1>7. CASE PlaneRestarts
  BY <1>7, RestartEffect, FaultType DEF PlaneRestarts
<1> QED
  BY <1>1, <1>2, <1>3, <1>4, <1>5, <1>6, <1>7 DEF Step

-----------------------------------------------------------------------------
(* The invariant, and what it gives *)

\* The inductive invariant holds before the service is created.
LEMMA InitInvariant == Init => IInv
<1> SUFFICES ASSUME Init PROVE IInv
  OBVIOUS
<1>1. TypeOK
  BY InitType
<1> QED
  BY <1>1
  DEF Init, IInv, UnbornIsIdle, JobsHoldManifest, MissingIsReplaced, Deployed, DeleteIsAlone,
      DeleteRunning, OthersRunning, CleanedStaysClean, FreeSlot

\* Every step keeps the inductive invariant.
LEMMA NextInvariant == IInv /\ [Next]_vars => IInv'
<1> SUFFICES ASSUME IInv, [Next]_vars PROVE IInv'
  OBVIOUS
<1> USE DEF IInv
<1>1. CASE Next
  <2>1. Step /\ (raced' \/ ~raced)
    BY <1>1 DEF Next, TypeOK
  <2>2. TypeOK'
    BY TypeStep
  <2> QED
    BY <1>1, <2>1, <2>2, UnbornIsIdleStep, JobsHoldManifestStep, MissingIsReplacedStep,
       DeleteIsAloneStep, CleanedStaysCleanStep
<1>2. CASE UNCHANGED vars
  BY <1>2
  DEF vars, TypeOK, UnbornIsIdle, JobsHoldManifest, MissingIsReplaced, Deployed, Replacing,
      DeleteIsAlone, DeleteRunning, OthersRunning, CleanedStaysClean
<1> QED
  BY <1>1, <1>2

\* The inductive invariant holds in every reachable state.
THEOREM ServiceInvariant == Spec => []IInv
BY InitInvariant, NextInvariant, PTL DEF Spec

\* Whatever the interleaving of jobs, health check and reconciler, a deployed
\* service has a container once they are all done, as long as no call failed:
\* whoever removed it is on the way to create it again (Replacing).
THEOREM ContainerIsNotLost == Spec => []NoLostContainer
<1>1. IInv => NoLostContainer
  BY DEF IInv, NoLostContainer, MissingIsReplaced, Deployed, Replacing, Quiet, FreeSlot
<1> QED
  BY <1>1, ServiceInvariant, PTL

\* A delete job that no failure and no concurrent actor disturbed has removed
\* the container and the route for good.
THEOREM DeleteIsClean == Spec => []CleanDelete
<1>1. IInv => CleanDelete
  BY LifecycleAssumption
  DEF IInv, CleanDelete, CleanedStaysClean, TypeOK, LifecycleAssumption
<1> QED
  BY <1>1, ServiceInvariant, PTL

=============================================================================
