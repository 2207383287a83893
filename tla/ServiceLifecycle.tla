-------------------------- MODULE ServiceLifecycle --------------------------
(***************************************************************************)
(* The life of ONE manifest service on the local node: its database row,   *)
(* its main container, its ingress route, and everything in the plane that *)
(* writes to them concurrently:                                            *)
(*   - the HTTP handlers of the manifest manager and of the container API, *)
(*   - the River jobs deploy, redeploy, update, delete and heal,           *)
(*   - the health check, a unique periodic job,                            *)
(*   - the reconciler, a goroutine with a 30 second ticker,                *)
(*   - the container event watcher, which turns a dying container into a   *)
(*     heal job.                                                           *)
(*                                                                         *)
(* Every actor reads the row once, works for seconds or minutes, and       *)
(* writes a status without looking at the row again: an action is one      *)
(* database or runtime call, so that any other actor may run in between.   *)
(*                                                                         *)
(* One replica, the default strategy, no remote worker and no image drift: *)
(* blue-green and rolling updates are the subject of module BlueGreen.     *)
(***************************************************************************)
EXTENDS Integers, FiniteSets

CONSTANTS
    Jobs,         \* slots for rows of the River job table: bounds the backlog
    MaxTries,     \* attempts of a job before River discards it
    MaxFaults,    \* runtime, queue or ingress calls that fail, and crashes
    MaxCalls,     \* API calls of the users and exits of the container
    StartFaults   \* may ContainerStart fail after ContainerCreate succeeded?

ASSUME LifecycleAssumption ==
    /\ IsFiniteSet(Jobs)
    /\ MaxTries \in Nat \ {0}
    /\ MaxFaults \in Nat
    /\ MaxCalls \in Nat
    /\ StartFaults \in BOOLEAN

VARIABLES
    row,     \* the services row: phase, status, manifest stored?, over 10 min old?
    ct,      \* state of the container named after the service
    route,   \* is the route of the service registered in Caddy?
    job,     \* job[j]: kind, progress and failed attempts of the job in slot j
    hc,      \* progress of the health check, with what it has read
    rec,     \* progress of the reconciler, with what it has read
    api,     \* progress of a container start, stop or restart call
    calls,   \* calls and exits left
    faults,  \* failures left
    raced    \* history: another actor was at work while a delete job ran

vars == <<row, ct, route, job, hc, rec, api, calls, faults, raced>>

Status    == {"deploying", "running", "stopped", "restarting", "failed"}
Phase     == {"unborn", "live", "deleted", "purged"}
Container == {"absent", "created", "running", "down"}
JobKind   == {"deploy", "redeploy", "update", "delete", "heal"}
JobStage  == {"queued", "loaded", "removed", "cleared", "started", "routed", "unrouted"}
HcStage   == {"idle", "q_nomanifest", "q_deploying", "q_stuck", "q_running",
              "q_other", "purge", "mark", "restart", "removed", "cleared", "started", "failed"}
RecStage  == {"idle", "queried", "healing", "removing", "removed", "cleared", "started",
              "failed"}
ApiStage  == {"idle", "starting", "stopping", "restarting"}

FreeSlot == [kind |-> "none", at |-> "free", tries |-> 0]
Row      == [phase : Phase, status : Status, manifest : BOOLEAN, old : BOOLEAN]
JobState == [kind : JobKind, at : JobStage, tries : 0 .. MaxTries - 1] \cup {FreeSlot}

Live == row.phase = "live"

\* A created or paused container does not need a restart, an exited one does.
NeedsRestart(c) == c = "down"
Recovered(c)    == c # "absent" /\ ~NeedsRestart(c)

TypeOK ==
    /\ row \in Row
    /\ ct \in Container
    /\ route \in BOOLEAN
    /\ job \in [Jobs -> JobState]
    /\ hc \in HcStage
    /\ rec \in RecStage
    /\ api \in ApiStage
    /\ calls \in 0 .. MaxCalls
    /\ faults \in 0 .. MaxFaults
    /\ raced \in BOOLEAN

Init ==
    /\ row = [phase |-> "unborn", status |-> "deploying", manifest |-> FALSE, old |-> FALSE]
    /\ ct = "absent"
    /\ route = FALSE
    /\ job = [j \in Jobs |-> FreeSlot]
    /\ hc = "idle" /\ rec = "idle" /\ api = "idle"
    /\ calls = MaxCalls /\ faults = MaxFaults
    /\ raced = FALSE

-----------------------------------------------------------------------------
(* Database, queue, runtime and ingress calls *)

\* Mutant: db.Save(svc), an upsert that brings a deleted row back.
Mut_SetStatus(s) == row' = [row EXCEPT !.phase = "live", !.status = s, !.old = FALSE]

\* db.Model(svc).Update(...): an UPDATE, which touches no row when the row is gone.
SetStatus(s) ==
    row' = IF Live THEN [row EXCEPT !.status = s, !.old = FALSE] ELSE row

\* The same statement when it also stores the manifest.
StoreManifest ==
    row' = IF Live
           THEN [row EXCEPT !.status = "running", !.manifest = TRUE, !.old = FALSE]
           ELSE row

Fault == faults > 0 /\ faults' = faults - 1

Call == calls > 0 /\ calls' = calls - 1

Enqueue(k) ==
    \E j \in Jobs :
        /\ job[j] = FreeSlot
        /\ job' = [job EXCEPT ![j] = [kind |-> k, at |-> "queued", tries |-> 0]]

At(j, k, stage) == job[j].kind = k /\ job[j].at = stage
Goto(j, stage)  == job' = [job EXCEPT ![j].at = stage]
Finish(j)       == job' = [job EXCEPT ![j] = FreeSlot]

\* Work returned an error: River runs the job again until its attempts are used up.
Retry(j) ==
    job' = [job EXCEPT ![j] =
        IF job[j].tries + 1 < MaxTries
        THEN [kind |-> job[j].kind, at |-> "queued", tries |-> job[j].tries + 1]
        ELSE FreeSlot]

\* CreateContainer pulls the image, force-removes a container of that name ...
ClearName == ct' = "absent" /\ UNCHANGED faults
PullFails == Fault /\ UNCHANGED ct

\* ... then creates and starts the new one, in three calls of the runtime.
StartContainer == ct = "absent" /\ ct' = "running" /\ UNCHANGED faults

\* The name is taken again, or the runtime refuses to create or to start it.
StartContainerFails ==
    \/ ct # "absent" /\ UNCHANGED <<ct, faults>>
    \/ ct = "absent" /\ Fault /\ ct' \in {"absent"} \cup (IF StartFaults THEN {"created"} ELSE {})

\* Mutant: ListContainers(ctx, false), the running containers only.
Mut_RemoveContainers ==
    \/ ct' = (IF ct = "running" THEN "absent" ELSE ct) /\ UNCHANGED faults
    \/ ct' = ct /\ Fault

\* removeContainers ignores every error, also the one that lists the containers.
RemoveContainers ==
    \/ ct' = "absent" /\ UNCHANGED faults
    \/ ct' = ct /\ Fault

-----------------------------------------------------------------------------
(* Manifest manager *)

CreateService ==
    /\ row.phase = "unborn"
    /\ Call
    /\ row' = [phase |-> "live", status |-> "deploying", manifest |-> FALSE, old |-> FALSE]
    /\ Enqueue("deploy")
    /\ UNCHANGED <<ct, route, hc, rec, api, faults>>

\* Both write the status first; when the insert fails the row keeps it.
RequestJob(k, status) ==
    /\ Live
    /\ Call
    /\ SetStatus(status)
    /\ \/ Enqueue(k) /\ UNCHANGED faults
       \/ Fault /\ UNCHANGED job
    /\ UNCHANGED <<ct, route, hc, rec, api>>

DeleteService   == RequestJob("delete", "stopped")
RedeployService == RequestJob("redeploy", "deploying")

\* The new status is set on the in-memory copy only.
UpdateService ==
    /\ Live
    /\ Call
    /\ Enqueue("update")
    /\ UNCHANGED <<row, ct, route, hc, rec, api, faults>>

-----------------------------------------------------------------------------
(* Container API: the row is looked up by the container's service label *)

BeginContainerCall(stage, status) ==
    /\ api = "idle"
    /\ ct # "absent"
    /\ Call
    /\ SetStatus(status)
    /\ api' = stage
    /\ UNCHANGED <<ct, route, job, hc, rec, faults>>

BeginStart   == BeginContainerCall("starting", "running")
BeginStop    == BeginContainerCall("stopping", "stopped")
BeginRestart == BeginContainerCall("restarting", "restarting")

EndStart ==
    /\ api = "starting"
    /\ \/ ct # "absent" /\ ct' = "running" /\ UNCHANGED faults
       \/ ct = "absent" /\ UNCHANGED <<ct, faults>>
       \/ Fault /\ UNCHANGED ct
    /\ api' = "idle"
    /\ UNCHANGED <<row, route, job, hc, rec, calls>>

EndStop ==
    /\ api = "stopping"
    /\ \/ ct' = (IF ct = "running" THEN "down" ELSE ct) /\ UNCHANGED faults
       \/ Fault /\ UNCHANGED ct
    /\ api' = "idle"
    /\ UNCHANGED <<row, route, job, hc, rec, calls>>

\* Mutant: the status of the container is stored as that of the service.
Mut_EndRestart ==
    /\ api = "restarting"
    /\ \/ ct # "absent" /\ ct' = "running" /\ SetStatus("running") /\ UNCHANGED faults
       \/ ct = "absent" /\ SetStatus(ct) /\ UNCHANGED <<ct, faults>>
       \/ Fault /\ SetStatus("failed") /\ ct' \in {ct, IF ct = "running" THEN "down" ELSE ct}
    /\ api' = "idle"
    /\ UNCHANGED <<route, job, hc, rec, calls>>

EndRestart ==
    /\ api = "restarting"
    /\ \/ ct # "absent" /\ ct' = "running" /\ SetStatus("running") /\ UNCHANGED faults
       \/ ct = "absent" /\ SetStatus("failed") /\ UNCHANGED <<ct, faults>>
       \/ Fault /\ SetStatus("failed") /\ ct' \in {ct, IF ct = "running" THEN "down" ELSE ct}
    /\ api' = "idle"
    /\ UNCHANGED <<route, job, hc, rec, calls>>

-----------------------------------------------------------------------------
(* What the deploy, redeploy, update and heal jobs share: rt.CreateContainer *)

Creating(j) ==
    \/ At(j, "deploy", "loaded")
    \/ \E k \in {"redeploy", "update", "heal"} : At(j, k, "removed")

\* The caller marks the row failed, except in the update job.
CreateFailed(j) ==
    /\ Retry(j)
    /\ IF job[j].kind = "update" THEN UNCHANGED row ELSE SetStatus("failed")

JobClear(j) ==
    /\ Creating(j)
    /\ \/ ClearName /\ Goto(j, "cleared") /\ UNCHANGED row
       \/ PullFails /\ CreateFailed(j)
    /\ UNCHANGED <<route, hc, rec, api, calls>>

JobCreate(j) ==
    /\ job[j].kind # "delete" /\ job[j].at = "cleared"
    /\ \/ StartContainer /\ Goto(j, "started") /\ UNCHANGED row
       \/ StartContainerFails /\ CreateFailed(j)
    /\ UNCHANGED <<route, hc, rec, api, calls>>

-----------------------------------------------------------------------------
(* Deploy job *)

DeployLoad(j) ==
    /\ At(j, "deploy", "queued")
    /\ IF Live THEN Goto(j, "loaded") ELSE Retry(j)
    /\ UNCHANGED <<row, ct, route, hc, rec, api, calls, faults>>

\* Conversion, resolution, network, image build or volume creation fails.
DeployPrepareFails(j) ==
    /\ At(j, "deploy", "loaded")
    /\ Fault
    /\ SetStatus("failed")
    /\ Retry(j)
    /\ UNCHANGED <<ct, route, hc, rec, api, calls>>

\* A failed registration is only logged.
DeployRoute(j) ==
    /\ At(j, "deploy", "started")
    /\ \/ route' = TRUE /\ UNCHANGED faults
       \/ Fault /\ UNCHANGED route
    /\ Goto(j, "routed")
    /\ UNCHANGED <<row, ct, hc, rec, api, calls>>

DeployCommit(j) ==
    /\ At(j, "deploy", "routed")
    /\ StoreManifest
    /\ Finish(j)
    /\ UNCHANGED <<ct, route, hc, rec, api, calls, faults>>

DeployStep(j) ==
    DeployLoad(j) \/ DeployPrepareFails(j) \/ DeployRoute(j) \/ DeployCommit(j)

-----------------------------------------------------------------------------
(* Redeploy and update jobs, default strategy *)

RedeployLoad(j) ==
    /\ At(j, "redeploy", "queued")
    /\ IF Live /\ row.manifest
       THEN SetStatus("deploying") /\ Goto(j, "loaded")
       ELSE Retry(j) /\ UNCHANGED row
    /\ UNCHANGED <<ct, route, hc, rec, api, calls, faults>>

RedeployPrepareFails(j) ==
    /\ At(j, "redeploy", "loaded")
    /\ Fault
    /\ SetStatus("failed")
    /\ Retry(j)
    /\ UNCHANGED <<ct, route, hc, rec, api, calls>>

UpdateLoad(j) ==
    /\ At(j, "update", "queued")
    /\ \/ Live /\ row.manifest /\ Goto(j, "loaded")
       \/ Live /\ row.manifest /\ Finish(j)            \* nothing changed
       \/ ~(Live /\ row.manifest) /\ Retry(j)
    /\ UNCHANGED <<row, ct, route, hc, rec, api, calls, faults>>

\* The domain changed: Caddy's UpdateRoute removes the route and adds it again,
\* errors are dropped. The manifest may not resolve; then nothing happens.
UpdateRoute(j) ==
    /\ At(j, "update", "loaded")
    /\ \/ route' \in {route, TRUE} /\ UNCHANGED faults
       \/ route' = FALSE /\ Fault
    /\ Goto(j, "routed")
    /\ UNCHANGED <<row, ct, hc, rec, api, calls>>

\* An update of the image replaces the container, too.
ReplaceRemove(j) ==
    /\ At(j, "redeploy", "loaded") \/ At(j, "update", "loaded") \/ At(j, "update", "routed")
    /\ RemoveContainers
    /\ Goto(j, "removed")
    /\ UNCHANGED <<row, route, hc, rec, api, calls>>

\* An update of the domain or of the replica count comes here without a new container.
ReplaceCommit(j) ==
    /\ \/ At(j, "redeploy", "started")
       \/ \E stage \in {"loaded", "routed", "started"} : At(j, "update", stage)
    /\ StoreManifest
    /\ Finish(j)
    /\ UNCHANGED <<ct, route, hc, rec, api, calls, faults>>

ReplaceStep(j) ==
    \/ RedeployLoad(j) \/ RedeployPrepareFails(j) \/ UpdateLoad(j) \/ UpdateRoute(j)
    \/ ReplaceRemove(j) \/ ReplaceCommit(j)

-----------------------------------------------------------------------------
(* Delete job *)

DeleteLoad(j) ==
    /\ At(j, "delete", "queued")
    /\ IF Live THEN Goto(j, "loaded") ELSE Retry(j)
    /\ UNCHANGED <<row, ct, route, hc, rec, api, calls, faults>>

DeleteRoute(j) ==
    /\ At(j, "delete", "loaded")
    /\ \/ route' = FALSE /\ UNCHANGED faults
       \/ Fault /\ UNCHANGED route
    /\ Goto(j, "unrouted")
    /\ UNCHANGED <<row, ct, hc, rec, api, calls>>

DeleteContainers(j) ==
    /\ At(j, "delete", "unrouted")
    /\ RemoveContainers
    /\ Goto(j, "removed")
    /\ UNCHANGED <<row, route, hc, rec, api, calls>>

DeleteRow(j) ==
    /\ At(j, "delete", "removed")
    /\ row' = IF Live THEN [row EXCEPT !.phase = "deleted"] ELSE row
    /\ Finish(j)
    /\ UNCHANGED <<ct, route, hc, rec, api, calls, faults>>

DeleteStep(j) == DeleteLoad(j) \/ DeleteRoute(j) \/ DeleteContainers(j) \/ DeleteRow(j)

-----------------------------------------------------------------------------
(* Heal job *)

HealGuard == row.manifest /\ row.status \notin {"deploying", "stopped", "restarting"}

HealLoad(j) ==
    /\ At(j, "heal", "queued")
    /\ IF Live /\ HealGuard THEN Goto(j, "loaded") ELSE Finish(j)
    /\ UNCHANGED <<row, ct, route, hc, rec, api, calls, faults>>

\* After a sleep of two seconds: restart the service unless it recovered.
HealRemove(j) ==
    /\ At(j, "heal", "loaded")
    /\ \/ Recovered(ct) /\ Finish(j) /\ UNCHANGED <<ct, faults>>
       \/ ~Recovered(ct) /\ RemoveContainers /\ Goto(j, "removed")
    /\ UNCHANGED <<row, route, hc, rec, api, calls>>

HealCommit(j) ==
    /\ At(j, "heal", "started")
    /\ SetStatus("running")
    /\ Finish(j)
    /\ UNCHANGED <<ct, route, hc, rec, api, calls, faults>>

HealStep(j) == HealLoad(j) \/ HealRemove(j) \/ HealCommit(j)

-----------------------------------------------------------------------------
(* Health check: one pass reads the rows, then the containers, then acts *)

HcQuery ==
    /\ hc = "idle"
    /\ Live
    /\ row.status \notin {"stopped", "restarting"}
    /\ hc' = CASE ~row.manifest -> "q_nomanifest"
               [] row.manifest /\ row.status = "deploying" /\ ~row.old -> "q_deploying"
               [] row.manifest /\ row.status = "deploying" /\ row.old -> "q_stuck"
               [] row.manifest /\ row.status = "running" -> "q_running"
               [] OTHER -> "q_other"
    /\ UNCHANGED <<row, ct, route, job, rec, api, calls, faults>>

HcDecision ==
    CASE hc \in {"q_nomanifest", "q_stuck"} -> IF ct = "absent" THEN "purge" ELSE "idle"
      [] hc = "q_deploying" -> "idle"
      [] hc = "q_running" -> IF Recovered(ct) THEN "idle" ELSE "restart"
      [] hc = "q_other" -> IF Recovered(ct) THEN "mark" ELSE "restart"

HcList ==
    /\ hc \in {"q_nomanifest", "q_deploying", "q_stuck", "q_running", "q_other"}
    /\ hc' = HcDecision
    /\ UNCHANGED <<row, ct, route, job, rec, api, calls, faults>>

HcPurge ==
    /\ hc = "purge"
    /\ row' = IF Live THEN [row EXCEPT !.phase = "purged"] ELSE row
    /\ hc' = "idle"
    /\ UNCHANGED <<ct, route, job, rec, api, calls, faults>>

HcRemove ==
    /\ hc = "restart"
    /\ RemoveContainers
    /\ hc' = "removed"
    /\ UNCHANGED <<row, route, job, rec, api, calls>>

\* Mutant: the pass stops once it has removed the containers.
Mut_HcClear ==
    /\ hc = "removed"
    /\ hc' = "started"
    /\ UNCHANGED <<row, ct, route, job, rec, api, calls, faults>>

HcClear ==
    /\ hc = "removed"
    /\ \/ ClearName /\ hc' = "cleared"
       \/ PullFails /\ hc' = "failed"
    /\ UNCHANGED <<row, route, job, rec, api, calls>>

HcCreate ==
    /\ hc = "cleared"
    /\ \/ StartContainer /\ hc' = "started"
       \/ StartContainerFails /\ hc' = "failed"
    /\ UNCHANGED <<row, route, job, rec, api, calls>>

HcCommit ==
    /\ hc \in {"mark", "started", "failed"}
    /\ SetStatus(IF hc = "failed" THEN "failed" ELSE "running")
    /\ hc' = "idle"
    /\ UNCHANGED <<ct, route, job, rec, api, calls, faults>>

HealthCheckStep ==
    HcQuery \/ HcList \/ HcPurge \/ HcRemove \/ HcClear \/ HcCreate \/ HcCommit

-----------------------------------------------------------------------------
(* Reconciler: with one replica and no image drift the only delta is a heal *)

\* Mutant: a service that failed once is left alone.
Mut_RecQuery ==
    /\ rec = "idle"
    /\ Live
    /\ row.status \notin {"stopped", "deploying", "failed"}
    /\ row.manifest
    /\ rec' = "queried"
    /\ UNCHANGED <<row, ct, route, job, hc, api, calls, faults>>

RecQuery ==
    /\ rec = "idle"
    /\ Live
    /\ row.status \notin {"stopped", "deploying"}
    /\ row.manifest
    /\ rec' = "queried"
    /\ UNCHANGED <<row, ct, route, job, hc, api, calls, faults>>

RecDiff ==
    /\ rec = "queried"
    /\ rec' = IF ct = "running" THEN "idle" ELSE "healing"
    /\ UNCHANGED <<row, ct, route, job, hc, api, calls, faults>>

\* After healDelay the containers are listed again.
RecRecheck ==
    /\ rec = "healing"
    /\ \/ Recovered(ct) /\ SetStatus("running") /\ rec' = "idle"
       \/ ~Recovered(ct) /\ rec' = "removing" /\ UNCHANGED row
    /\ UNCHANGED <<ct, route, job, hc, api, calls, faults>>

RecRemove ==
    /\ rec = "removing"
    /\ RemoveContainers
    /\ rec' = "removed"
    /\ UNCHANGED <<row, route, job, hc, api, calls>>

RecClear ==
    /\ rec = "removed"
    /\ \/ ClearName /\ rec' = "cleared"
       \/ PullFails /\ rec' = "failed"
    /\ UNCHANGED <<row, route, job, hc, api, calls>>

RecCreate ==
    /\ rec = "cleared"
    /\ \/ StartContainer /\ rec' = "started"
       \/ StartContainerFails /\ rec' = "failed"
    /\ UNCHANGED <<row, route, job, hc, api, calls>>

RecCommit ==
    /\ rec \in {"started", "failed"}
    /\ SetStatus(IF rec = "failed" THEN "failed" ELSE "running")
    /\ rec' = "idle"
    /\ UNCHANGED <<ct, route, job, hc, api, calls, faults>>

ReconcilerStep ==
    RecQuery \/ RecDiff \/ RecRecheck \/ RecRemove \/ RecClear \/ RecCreate \/ RecCommit

-----------------------------------------------------------------------------
(* Environment *)

\* The container exits; the watcher queues a heal job, or has lost the event.
ContainerExits ==
    /\ ct = "running"
    /\ Call
    /\ ct' = "down"
    /\ Enqueue("heal") \/ UNCHANGED job
    /\ UNCHANGED <<row, route, hc, rec, api, faults>>

TenMinutesPass ==
    /\ Live
    /\ ~row.old
    /\ row' = [row EXCEPT !.old = TRUE]
    /\ UNCHANGED <<ct, route, job, hc, rec, api, calls, faults>>

\* Mutant: a queue in memory, which forgets the jobs that were running.
Mut_PlaneRestarts ==
    /\ Fault
    /\ hc' = "idle" /\ rec' = "idle" /\ api' = "idle"
    /\ job' = [j \in Jobs |-> IF job[j].at \in {"free", "queued"} THEN job[j] ELSE FreeSlot]
    /\ UNCHANGED <<row, ct, route, calls>>

\* Goroutines are lost, River rescues the jobs that were running.
PlaneRestarts ==
    /\ Fault
    /\ hc' = "idle" /\ rec' = "idle" /\ api' = "idle"
    /\ job' = [j \in Jobs |-> IF job[j].at \in {"free", "queued"} THEN job[j]
                              ELSE [job[j] EXCEPT !.at = "queued"]]
    /\ UNCHANGED <<row, ct, route, calls>>

JobStep(j) ==
    \/ DeployStep(j) \/ ReplaceStep(j) \/ DeleteStep(j) \/ HealStep(j)
    \/ JobClear(j) \/ JobCreate(j)

ApiStep ==
    \/ CreateService \/ DeleteService \/ RedeployService \/ UpdateService
    \/ BeginStart \/ BeginStop \/ BeginRestart

ApiReturn == EndStart \/ EndStop \/ EndRestart

Step ==
    \/ ApiStep \/ ApiReturn
    \/ \E j \in Jobs : JobStep(j)
    \/ HealthCheckStep \/ ReconcilerStep
    \/ ContainerExits \/ TenMinutesPass \/ PlaneRestarts

\* A delete job has loaded the row and not yet removed it.
DeleteRunning == \E j \in Jobs : job[j].kind = "delete" /\ job[j].at # "queued"

\* Somebody else has read the row and not yet finished.
OthersRunning ==
    \/ \E j \in Jobs : job[j].kind # "delete" /\ job[j].at \notin {"free", "queued"}
    \/ hc # "idle" \/ rec # "idle"

Next == Step /\ raced' = (raced \/ (DeleteRunning /\ OthersRunning)')

Fairness ==
    /\ \A j \in Jobs : WF_vars(JobStep(j) /\ Next)
    /\ WF_vars(hc # "idle" /\ HealthCheckStep /\ Next)
    /\ WF_vars(ReconcilerStep /\ Next)
    /\ WF_vars(ApiReturn /\ Next)
    /\ WF_vars(TenMinutesPass /\ Next)

Spec     == Init /\ [][Next]_vars
FairSpec == Spec /\ Fairness

-----------------------------------------------------------------------------
(* Properties that hold *)

\* A row that the delete job or the health check removed never comes back,
\* whatever the actors that still hold a copy of it write: every one of them
\* writes with UPDATE ... WHERE id, never with an upsert.
DeletedStaysDeleted ==
    [][row.phase \in {"deleted", "purged"} => row'.phase = row.phase]_vars

\* The delete job leaves neither a container nor a route behind, unless a call
\* failed or another actor, with the row already in its hands, was still at work.
CleanDelete ==
    row.phase = "deleted" /\ (ct # "absent" \/ route) => raced \/ faults < MaxFaults

\* Nobody is at work on the service.
Quiet == hc = "idle" /\ rec = "idle" /\ api = "idle" /\ \A j \in Jobs : job[j] = FreeSlot

\* The jobs, the health check and the reconciler remove and create the same
\* container in any interleaving; as long as no call fails, a deployed service
\* has a container once they are all done.
NoLostContainer ==
    Quiet /\ Live /\ row.manifest /\ faults = MaxFaults => ct # "absent"

DeletePending == \E j \in Jobs : job[j].kind = "delete"

\* A queued delete job removes the row, across crashes of the plane.
DeleteCompletes == DeletePending /\ Live ~> ~Live

\* A deployed service that lost its container gets a running one again, unless
\* it is stopped, redeployed or removed meanwhile.
SelfHeals ==
    Live /\ row.manifest /\ row.status \in {"running", "failed"} /\ ct \in {"down", "absent"}
    ~> ct = "running" \/ ~Live \/ row.status \in {"stopped", "deploying"}

-----------------------------------------------------------------------------
(* The inductive strengthening of NoLostContainer and CleanDelete *)

\* Before the service is created nobody has anything to do with it.
UnbornIsIdle ==
    row.phase = "unborn" =>
        /\ ~row.manifest /\ ct = "absent" /\ hc = "idle" /\ rec = "idle" /\ api = "idle"
        /\ \A j \in Jobs : job[j] = FreeSlot

\* Somebody has removed the container and has yet to create it or to delete the row.
Replacing ==
    \/ \E j \in Jobs : job[j].at \in {"removed", "cleared"}
    \/ hc \in {"removed", "cleared"} \/ rec \in {"removed", "cleared"}

\* The service has, or had a moment ago, a container to lose.
Deployed == row.manifest \/ \E j \in Jobs : job[j].kind = "deploy" /\ job[j].at \in {"started", "routed"}

\* A job past its load holds a manifest, and no write takes the manifest away.
JobsHoldManifest ==
    \A j \in Jobs :
        job[j].kind \in {"redeploy", "update", "heal"} /\ job[j].at # "queued" /\ Live => row.manifest

MissingIsReplaced ==
    faults = MaxFaults /\ Live /\ Deployed /\ ct = "absent" => Replacing

\* Without a race nobody but the delete job holds the row of a service in deletion.
DeleteIsAlone == ~raced /\ (DeleteRunning \/ row.phase = "deleted") => ~OthersRunning

\* What the delete job has cleaned stays clean.
CleanedStaysClean ==
    ~raced /\ faults = MaxFaults =>
        /\ \A j \in Jobs : job[j].kind = "delete" =>
               /\ job[j].at \in {"unrouted", "removed"} => ~route
               /\ job[j].at = "removed" => ct = "absent"
        /\ row.phase = "deleted" => ~route /\ ct = "absent"

IInv ==
    /\ TypeOK /\ UnbornIsIdle
    /\ JobsHoldManifest /\ MissingIsReplaced
    /\ DeleteIsAlone /\ CleanedStaysClean

-----------------------------------------------------------------------------
(* Claims of the documentation that the code does not keep *)

\* changelog.md:67 and 68, the health check purges orphans and services stuck in
\* "deploying" for ten minutes. It purges the row of a first deploy that is at work,
\* too: the manifest is stored at the end of the job.
PurgeSparesDeploys ==
    [][Live /\ row'.phase = "purged" => row.old \/ \A j \in Jobs : job[j].kind # "deploy"]_vars

\* changelog.md:121, the route is removed when the service is deleted.
DeletedHasNoRoute == row.phase = "deleted" /\ Quiet => ~route

\* reconciler.go:192, a row stuck in "deploying" for ten minutes is healed.
StuckDeployIsHealed ==
    Live /\ row.manifest /\ row.status = "deploying" /\ row.old /\ Quiet
    ~> ~Live \/ row.status # "deploying"

\* reconciler.go:46, the loop acts on any delta between desired and actual state.
CreatedContainerIsStarted ==
    Live /\ row.manifest /\ row.status = "running" /\ ct = "created"
    ~> ct # "created" \/ ~Live \/ row.status # "running"
=============================================================================
