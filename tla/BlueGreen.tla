----------------------------- MODULE BlueGreen -----------------------------
(***************************************************************************)
(* Blue-green deployments of one service on the local node: the redeploy   *)
(* jobs that run deployBlueGreen, the health check and the reconciler, the *)
(* containers of the two slots, and the Caddy route.                       *)
(*                                                                         *)
(* The first deploy (module ServiceLifecycle) has created the container    *)
(* "main", named after the service and without a slot label, and the route *)
(* to it. Every container carries the label tidefly.service. A version is  *)
(* a manifest or an image that a user has asked for.                       *)
(***************************************************************************)
EXTENDS Integers, FiniteSets

CONSTANTS
    Deployers,   \* redeploy jobs that may run at the same time
    MaxVersion,  \* manifests or images deployed, the first one included
    MaxFaults,   \* calls of the runtime or of Caddy that fail
    MaxCrashes,  \* restarts of the plane
    MaxExits     \* containers that exit on their own

BlueGreenAssumption ==
    /\ IsFiniteSet(Deployers)
    /\ MaxVersion \in Nat \ {0}
    /\ MaxFaults \in Nat /\ MaxCrashes \in Nat /\ MaxExits \in Nat

VARIABLES
    row,       \* status, active_slot, version of the stored manifest, last version asked for
    box,       \* box[n]: the container of that name, with the version it runs
    upstream,  \* the container the route leads to, or "none"
    dep,       \* dep[d]: progress of a redeploy job, active slot it read, its version
    hc, rec,   \* progress of the health check and of the reconciler
    budget     \* faults, crashes and exits left

vars == <<row, box, upstream, dep, hc, rec, budget>>

Slots    == {"green", "blue"}
Names    == {"main"} \cup Slots
Versions == 1 .. MaxVersion
Status   == {"running", "deploying", "failed"}
BoxState == {"absent", "running", "down"}
DepStage == {"idle", "queued", "loaded", "cleared", "created", "healthy", "unrouted",
             "routed", "removed", "marked"}
Absent   == [state |-> "absent", ver |-> 1]

TypeOK ==
    /\ row \in [status : Status, active : Slots \cup {"none"}, ver : Versions, asked : Versions]
    /\ box \in [Names -> [state : BoxState, ver : Versions]]
    /\ upstream \in Names \cup {"none"}
    /\ dep \in [Deployers -> [at : DepStage, slot : Slots \cup {"none"}, ver : Versions]]
    /\ hc \in [at : {"idle", "queried", "restart", "removed"}, ver : Versions, status : Status]
    /\ rec \in [at : {"idle", "queried", "heal", "removed"}, ver : Versions]
    /\ budget \in [fault : 0 .. MaxFaults, crash : 0 .. MaxCrashes, exit : 0 .. MaxExits]

Init ==
    /\ row = [status |-> "running", active |-> "none", ver |-> 1, asked |-> 1]
    /\ box = [n \in Names |-> IF n = "main" THEN [state |-> "running", ver |-> 1] ELSE Absent]
    /\ upstream = "main"
    /\ dep = [d \in Deployers |-> [at |-> "idle", slot |-> "none", ver |-> 1]]
    /\ hc = [at |-> "idle", ver |-> 1, status |-> "running"]
    /\ rec = [at |-> "idle", ver |-> 1]
    /\ budget = [fault |-> MaxFaults, crash |-> MaxCrashes, exit |-> MaxExits]

Spend(what) == budget[what] > 0 /\ budget' = [budget EXCEPT ![what] = @ - 1]

-----------------------------------------------------------------------------
(* Redeploy job with strategy blue-green *)

NextSlot(current) == IF current = "green" THEN "blue" ELSE "green"
SlotName(slot)    == IF slot = "none" THEN "main" ELSE slot

NewName(d) == NextSlot(dep[d].slot)
OldName(d) == SlotName(dep[d].slot)

Goto(d, stage) == dep' = [dep EXCEPT ![d].at = stage]

\* The new slot is removed, the row is marked; River runs the job again or gives up.
RollBack(d) ==
    /\ box' = [box EXCEPT ![NewName(d)] = Absent]
    /\ row' = [row EXCEPT !.status = "failed"]
    /\ Goto(d, "queued") \/ Goto(d, "idle")

\* A user asks for a new version.
Redeploy(d) ==
    /\ dep[d].at = "idle"
    /\ row.asked < MaxVersion
    /\ row' = [row EXCEPT !.status = "deploying", !.asked = @ + 1]
    /\ dep' = [dep EXCEPT ![d] = [at |-> "queued", slot |-> "none", ver |-> row'.asked]]
    /\ UNCHANGED <<box, upstream, hc, rec, budget>>

Load(d) ==
    /\ dep[d].at = "queued"
    /\ dep' = [dep EXCEPT ![d].at = "loaded", ![d].slot = row.active]
    /\ row' = [row EXCEPT !.status = "deploying"]
    /\ UNCHANGED <<box, upstream, hc, rec, budget>>

\* CreateContainer removes a container that has the name of the new slot, ...
ClearSlot(d) ==
    /\ dep[d].at = "loaded"
    /\ box' = [box EXCEPT ![NewName(d)] = Absent]
    /\ Goto(d, "cleared")
    /\ UNCHANGED <<row, upstream, hc, rec, budget>>

\* ... and creates and starts the new one.
CreateSlot(d) ==
    /\ dep[d].at = "cleared"
    /\ box[NewName(d)].state = "absent"
    /\ box' = [box EXCEPT ![NewName(d)] = [state |-> "running", ver |-> dep[d].ver]]
    /\ Goto(d, "created")
    /\ UNCHANGED <<row, upstream, hc, rec, budget>>

\* The image cannot be pulled, the name is taken, or the runtime refuses.
CreateSlotFails(d) ==
    /\ \/ dep[d].at \in {"loaded", "cleared"} /\ Spend("fault")
       \/ dep[d].at = "cleared" /\ box[NewName(d)].state # "absent" /\ UNCHANGED budget
    /\ row' = [row EXCEPT !.status = "failed"]
    /\ Goto(d, "queued") \/ Goto(d, "idle")
    /\ UNCHANGED <<box, upstream, hc, rec>>

\* Mutant: waiting for the container to run, without a deadline.
Mut_WaitHealthy(d) ==
    /\ dep[d].at = "created"
    /\ box[NewName(d)].state = "running"
    /\ Goto(d, "healthy")
    /\ UNCHANGED <<row, box, upstream, hc, rec, budget>>

\* waitHealthy looks at the state of the container of that name only.
WaitHealthy(d) ==
    /\ dep[d].at = "created"
    /\ \/ box[NewName(d)].state = "running" /\ Goto(d, "healthy") /\ UNCHANGED <<row, box>>
       \/ box[NewName(d)].state # "running" /\ RollBack(d)
    /\ UNCHANGED <<upstream, hc, rec, budget>>

\* Mutant: the old slot is removed before the traffic is switched.
Mut_Unroute(d) ==
    /\ dep[d].at = "healthy"
    /\ box' = [box EXCEPT ![OldName(d)] = Absent]
    /\ Goto(d, "unrouted")
    /\ UNCHANGED <<row, upstream, hc, rec, budget>>

\* UpdateRoute removes the route, ignoring an error, ...
Unroute(d) ==
    /\ dep[d].at = "healthy"
    /\ \/ upstream' = "none" /\ UNCHANGED budget
       \/ upstream' = upstream /\ Spend("fault")
    /\ Goto(d, "unrouted")
    /\ UNCHANGED <<row, box, hc, rec>>

\* ... and adds it again.
Route(d) ==
    /\ dep[d].at = "unrouted"
    /\ \/ upstream' = NewName(d) /\ Goto(d, "routed") /\ UNCHANGED <<row, box, budget>>
       \/ Spend("fault") /\ RollBack(d) /\ UNCHANGED upstream
    /\ UNCHANGED <<hc, rec>>

\* Mutant: the old container is looked up by its slot name, which the first one has not.
Mut_RemoveOld(d) ==
    /\ dep[d].at = "routed"
    /\ box' = IF dep[d].slot = "none" THEN box ELSE [box EXCEPT ![OldName(d)] = Absent]
    /\ Goto(d, "removed")
    /\ UNCHANGED <<row, upstream, hc, rec, budget>>

RemoveOld(d) ==
    /\ dep[d].at = "routed"
    /\ \/ box' = [box EXCEPT ![OldName(d)] = Absent] /\ UNCHANGED budget
       \/ box' = box /\ Spend("fault")
    /\ Goto(d, "removed")
    /\ UNCHANGED <<row, upstream, hc, rec>>

\* Mutant: the old container's name is stored instead of the new slot.
Mut_MarkSlot(d) ==
    /\ dep[d].at = "removed"
    /\ row' = [row EXCEPT !.active = OldName(d)]
    /\ Goto(d, "marked")
    /\ UNCHANGED <<box, upstream, hc, rec, budget>>

MarkSlot(d) ==
    /\ dep[d].at = "removed"
    /\ row' = [row EXCEPT !.active = NextSlot(dep[d].slot)]
    /\ Goto(d, "marked")
    /\ UNCHANGED <<box, upstream, hc, rec, budget>>

Commit(d) ==
    /\ dep[d].at = "marked"
    /\ row' = [row EXCEPT !.status = "running", !.ver = dep[d].ver]
    /\ Goto(d, "idle")
    /\ UNCHANGED <<box, upstream, hc, rec, budget>>

JobStep(d) ==
    \/ Load(d) \/ ClearSlot(d) \/ CreateSlot(d) \/ CreateSlotFails(d) \/ WaitHealthy(d)
    \/ Unroute(d) \/ Route(d) \/ RemoveOld(d) \/ MarkSlot(d) \/ Commit(d)

-----------------------------------------------------------------------------
(* Health check: it knows the status of one container per service *)

Present == {n \in Names : box[n].state # "absent"}

HcQuery ==
    /\ hc.at = "idle"
    /\ row.status # "deploying"
    /\ hc' = [at |-> "queried", ver |-> row.ver, status |-> row.status]
    /\ UNCHANGED <<row, box, upstream, dep, rec, budget>>

\* The map from service to status keeps the last container of the list.
HcList ==
    /\ hc.at = "queried"
    /\ \/ /\ Present = {} \/ \E n \in Present : box[n].state = "down"
          /\ hc' = [hc EXCEPT !.at = "restart"]
       \/ /\ \E n \in Present : box[n].state = "running"
          /\ hc' = [hc EXCEPT !.at = "idle"]
    /\ row' = IF hc'.at = "idle" /\ hc.status = "failed"
              THEN [row EXCEPT !.status = "running"] ELSE row
    /\ UNCHANGED <<box, upstream, dep, rec, budget>>

\* restartService removes the containers of both slots, by label and by prefix, ...
HcRemove ==
    /\ hc.at = "restart"
    /\ \/ box' = [n \in Names |-> Absent] /\ UNCHANGED budget
       \/ box' = box /\ Spend("fault")
    /\ hc' = [hc EXCEPT !.at = "removed"]
    /\ UNCHANGED <<row, upstream, dep, rec>>

\* ... and creates the container without a slot; route and active slot stay.
HcCreate ==
    /\ hc.at = "removed"
    /\ \/ /\ box' = [box EXCEPT !["main"] = [state |-> "running", ver |-> hc.ver]]
          /\ row' = [row EXCEPT !.status = "running"]
          /\ UNCHANGED budget
       \/ /\ Spend("fault")
          /\ row' = [row EXCEPT !.status = "failed"]
          /\ UNCHANGED box
    /\ hc' = [hc EXCEPT !.at = "idle"]
    /\ UNCHANGED <<upstream, dep, rec>>

HealthCheckStep == HcQuery \/ HcList \/ HcRemove \/ HcCreate

-----------------------------------------------------------------------------
(* Reconciler, one desired replica and no image drift *)

RecQuery ==
    /\ rec.at = "idle"
    /\ row.status # "deploying"
    /\ rec' = [at |-> "queried", ver |-> row.ver]
    /\ UNCHANGED <<row, box, upstream, dep, hc, budget>>

Running == {n \in Names : box[n].state = "running"}

\* The greatest name: "app-green", then "app-blue", then "app".
Greatest(names) ==
    CASE "green" \in names -> "green"
      [] "green" \notin names /\ "blue" \in names -> "blue"
      [] OTHER -> "main"

\* Mutant: an exited container counts as a replica.
Mut_RecDiff ==
    /\ rec.at = "queried"
    /\ rec' = [rec EXCEPT !.at = IF Present = {} THEN "heal" ELSE "idle"]
    /\ box' = IF Cardinality(Running) > 1
              THEN [box EXCEPT ![Greatest(Present)] = Absent] ELSE box
    /\ UNCHANGED <<row, upstream, dep, hc, budget>>

RecDiff ==
    /\ rec.at = "queried"
    /\ rec' = [rec EXCEPT !.at = IF Running = {} THEN "heal" ELSE "idle"]
    /\ box' = IF Cardinality(Running) > 1
              THEN [box EXCEPT ![Greatest(Present)] = Absent] ELSE box
    /\ UNCHANGED <<row, upstream, dep, hc, budget>>

RecHeal ==
    /\ rec.at = "heal"
    /\ \/ /\ Running # {}
          /\ row' = [row EXCEPT !.status = "running"]
          /\ rec' = [rec EXCEPT !.at = "idle"]
          /\ UNCHANGED <<box, budget>>
       \/ /\ Running = {}
          /\ rec' = [rec EXCEPT !.at = "removed"]
          /\ \/ box' = [n \in Names |-> Absent] /\ UNCHANGED budget
             \/ box' = box /\ Spend("fault")
          /\ UNCHANGED row
    /\ UNCHANGED <<upstream, dep, hc>>

RecCreate ==
    /\ rec.at = "removed"
    /\ \/ /\ box' = [box EXCEPT !["main"] = [state |-> "running", ver |-> rec.ver]]
          /\ row' = [row EXCEPT !.status = "running"]
          /\ UNCHANGED budget
       \/ /\ Spend("fault")
          /\ row' = [row EXCEPT !.status = "failed"]
          /\ UNCHANGED box
    /\ rec' = [rec EXCEPT !.at = "idle"]
    /\ UNCHANGED <<upstream, dep, hc>>

ReconcilerStep == RecQuery \/ RecDiff \/ RecHeal \/ RecCreate

-----------------------------------------------------------------------------
(* Environment *)

BoxExits(n) ==
    /\ box[n].state = "running"
    /\ Spend("exit")
    /\ box' = [box EXCEPT ![n].state = "down"]
    /\ UNCHANGED <<row, upstream, dep, hc, rec>>

\* River rescues the jobs that were running, the passes of the healers are lost.
PlaneRestarts ==
    /\ Spend("crash")
    /\ dep' = [d \in Deployers |-> IF dep[d].at = "idle" THEN dep[d]
                                   ELSE [dep[d] EXCEPT !.at = "queued"]]
    /\ hc' = [hc EXCEPT !.at = "idle"]
    /\ rec' = [rec EXCEPT !.at = "idle"]
    /\ UNCHANGED <<row, box, upstream>>

\* The deployments alone, and with the two healers beside them.
DeployNext ==
    \/ \E d \in Deployers : Redeploy(d) \/ JobStep(d)
    \/ \E n \in Names : BoxExits(n)
    \/ PlaneRestarts

Next == DeployNext \/ HealthCheckStep \/ ReconcilerStep

DeploySpec == Init /\ [][DeployNext]_vars
Spec       == Init /\ [][Next]_vars

FairDeploySpec == DeploySpec /\ \A d \in Deployers : WF_vars(JobStep(d))
FairSpec ==
    /\ Spec
    /\ \A d \in Deployers : WF_vars(JobStep(d))
    /\ WF_vars(hc.at # "idle" /\ HealthCheckStep)
    /\ WF_vars(ReconcilerStep)

-----------------------------------------------------------------------------
(* The promise, for one deployment at a time *)

Preparing == {d \in Deployers : dep[d].at \in {"created", "healthy", "unrouted"}}

\* Users reach the old version, are cut off, and reach the new one; a deployment
\* whose new slot does not come up changes nothing for them.
Serving   == IF upstream = "none" THEN 0 ELSE box[upstream].ver
Candidate == IF Preparing = {} THEN 0 ELSE dep[CHOOSE d \in Preparing : TRUE].ver

Promise == INSTANCE Rollout WITH serving <- Serving, candidate <- Candidate

KeepsPromise == Promise!Spec

-----------------------------------------------------------------------------
(* Properties *)

DeployIdle == \A d \in Deployers : dep[d].at = "idle"
Quiet      == DeployIdle /\ hc.at = "idle" /\ rec.at = "idle"

\* After a deployment that succeeded, whatever crashes and failed attempts there
\* were on the way, exactly the container that receives the traffic is left, and
\* the row knows its slot; a listing that failed may leave the old one behind.
OneSlotLeft ==
    DeployIdle /\ row.status = "running" /\ budget.fault = MaxFaults =>
        /\ Present = {upstream}
        /\ upstream = SlotName(row.active)

\* Every deployment ends, by success or by giving up.
DeploymentsEnd == \A d \in Deployers : dep[d].at # "idle" ~> dep[d].at = "idle"

\* With the healers beside the deployments a service without a running container
\* gets one again, unless a deployment takes over.
ContainerComesBack ==
    Running = {} /\ row.status # "deploying" ~> Running # {} \/ row.status = "deploying"

-----------------------------------------------------------------------------
(* Claims that the code does not keep *)

\* reconciler/bluegreen.go:13, "a zero-downtime blue-green deploy": UpdateRoute of the Caddy
\* client deletes the route and adds it again.
AlwaysRouted == upstream # "none"

\* deploy_helpers.go:75, a failed switch is "rolled back".
RolledBackIsRouted == DeployIdle => upstream # "none"

\* reconciler/bluegreen.go:18, on a failure "old slot remains active": the container that
\* receives the traffic goes away only when it exits by itself.
LiveSlotIsKept ==
    [][(upstream # "none" /\ box[upstream].state = "running" /\ upstream' = upstream)
       => box'[upstream].state = "running" \/ budget'.exit < budget.exit]_vars

\* reconciler.go:227, "service recovered automatically".
RecoveredIsReachable ==
    row.status = "running" /\ upstream \in Names /\ box[upstream].state # "running"
    ~> upstream \in Names /\ box[upstream].state = "running"
=============================================================================
