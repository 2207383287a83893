------------------------------ MODULE Replicas ------------------------------
(***************************************************************************)
(* The replicas of ONE manifest service with the default strategy. Four    *)
(* actors create and remove its containers:                                *)
(*   - the reconciler compares running and desired replicas and scales by  *)
(*     one, or heals when nothing runs,                                    *)
(*   - the autoscaler adds or removes one by the load,                     *)
(*   - the health check rebuilds the service from the status of ONE of its *)
(*     containers,                                                         *)
(*   - a redeploy job removes them all and creates the first again.        *)
(* An update job changes the desired number. Each reads, works for seconds *)
(* and writes; an action is one database or runtime call.                  *)
(*                                                                         *)
(* A container is known by its number: 1 is the plain name of the service, *)
(* n the name with the suffix -n (the names sort by number up to 9). Heal  *)
(* jobs act like a heal of the reconciler and purges need a row without a  *)
(* deployment: both are in module ServiceLifecycle.                        *)
(***************************************************************************)
EXTENDS Naturals, FiniteSets

CONSTANTS
    MaxNumber,     \* the greatest number of a container: bounds the scale ups
    MaxReplicas,   \* the greatest number of replicas a user asks for
    AutoMin, AutoMax,  \* bounds of the autoscaler
    MaxTries,      \* attempts of a redeploy job before River discards it
    MaxEvents      \* update and redeploy calls, decisions of the autoscaler, exits and
                   \* clean-ups of containers, failing runtime calls, restarts of the plane

ASSUME ReplicasAssumption ==
    /\ MaxNumber \in 1 .. 9
    /\ MaxReplicas \in Nat \ {0}
    /\ AutoMin \in Nat \ {0} /\ AutoMax \in Nat
    /\ MaxTries \in Nat \ {0} /\ MaxEvents \in Nat

VARIABLES
    row,      \* the services row: status, replicas asked for
    box,      \* box[n]: the container with number n
    rec,      \* progress of the reconciler, replicas it read, number of its new container
    auto,     \* progress of the autoscaler, number of its new container
    hc,       \* progress of the health check, status it read
    redeploy, \* progress of a redeploy job, replicas it read
    update,   \* progress of an update job, replicas it will write
    picked,   \* picked[a]: the container, by its id, that a scale down of a removes
    events    \* events left, and history: did all containers stay up and all calls succeed?

vars == <<row, box, rec, auto, hc, redeploy, update, picked, events>>

Numbers  == 1 .. MaxNumber
Desired  == 1 .. MaxReplicas
Scalers  == {"rec", "auto"}
Gone     == 0
RecStage == {"idle", "queried", "clear", "create", "stop", "delete", "heal",
             "removed", "cleared"}
AutoStage   == {"idle", "clear", "create", "stop", "delete"}
HcStage     == {"idle", "queried", "remove", "removed", "cleared", "mark"}
DeployStage == {"idle", "asked", "loaded", "removed", "cleared", "created"}

TypeOK ==
    /\ row \in [status : {"running", "failed", "deploying"}, replicas : Desired]
    /\ box \in [Numbers -> {"absent", "running", "down"}]
    /\ rec \in [at : RecStage, replicas : Desired, new : Numbers]
    /\ auto \in [at : AutoStage, new : Numbers]
    /\ hc \in [at : HcStage, status : {"running", "failed", "deploying"}]
    /\ redeploy \in [at : DeployStage, replicas : Desired, tries : 0 .. MaxTries - 1]
    /\ update \in [at : {"idle", "asked", "loaded"}, replicas : Desired]
    /\ picked \in [Scalers -> Numbers \cup {Gone}]
    /\ events \in [left : 0 .. MaxEvents, calm : BOOLEAN]

Init ==
    /\ row = [status |-> "running", replicas |-> 1]
    /\ box = [n \in Numbers |-> IF n = 1 THEN "running" ELSE "absent"]
    /\ rec = [at |-> "idle", replicas |-> 1, new |-> 1]
    /\ auto = [at |-> "idle", new |-> 1]
    /\ hc = [at |-> "idle", status |-> "running"]
    /\ redeploy = [at |-> "idle", replicas |-> 1, tries |-> 0]
    /\ update = [at |-> "idle", replicas |-> 1]
    /\ picked = [a \in Scalers |-> Gone]
    /\ events = [left |-> MaxEvents, calm |-> TRUE]

Event   == events.left > 0 /\ events' = [events EXCEPT !.left = @ - 1]
Trouble == events.left > 0 /\ events' = [left |-> events.left - 1, calm |-> FALSE]

-----------------------------------------------------------------------------
(* The runtime *)

Present  == {n \in Numbers : box[n] # "absent"}
Running  == {n \in Numbers : box[n] = "running"}

\* n is the last name of the containers of S.
IsLast(n, S) == \A m \in S : m <= n

\* The containers of S are removed; a new one of the same name has another id.
Remove(S) ==
    /\ box' = [n \in Numbers |-> IF n \in S THEN "absent" ELSE box[n]]
    /\ picked' = [a \in Scalers |-> IF picked[a] \in S THEN Gone ELSE picked[a]]

\* removeContainers: whatever it lists, errors are ignored.
RemoveAll ==
    \/ Remove(Numbers) /\ UNCHANGED events
    \/ Trouble /\ UNCHANGED <<box, picked>>

\* CreateContainer, first part: a container of that name is force-removed.
Clear(n) == Remove({n}) /\ UNCHANGED events

\* CreateContainer, second part.
Start(n) ==
    /\ box[n] = "absent"
    /\ box' = [box EXCEPT ![n] = "running"]
    /\ UNCHANGED events

\* The name was taken meanwhile, or a call fails.
StartFails(n) ==
    /\ \/ box[n] # "absent" /\ UNCHANGED events
       \/ box[n] = "absent" /\ Trouble
    /\ UNCHANGED box

\* StopContainer of a scale down, by id.
StopPicked(a) ==
    box' = [n \in Numbers |-> IF n = picked[a] /\ box[n] = "running" THEN "down" ELSE box[n]]

\* DeleteContainer of a scale down, by id; the reconciler ignores a failure.
DeletePicked(a) ==
    \/ Remove({picked[a]}) /\ UNCHANGED events
    \/ Trouble /\ UNCHANGED box /\ picked' = [picked EXCEPT ![a] = Gone]

SetStatus(s) == row' = [row EXCEPT !.status = s]

-----------------------------------------------------------------------------
(* Reconciler *)

RecQuery ==
    /\ rec.at = "idle"
    /\ row.status # "deploying"
    /\ rec' = [rec EXCEPT !.at = "queried", !.replicas = row.replicas]
    /\ UNCHANGED <<row, box, auto, hc, redeploy, update, picked, events>>

RecHealNeeded ==
    /\ Running = {}
    /\ rec' = [rec EXCEPT !.at = "heal"]
    /\ UNCHANGED picked

\* Mutant: the new number counts the running containers only.
Mut_RecScaleUp ==
    /\ Running # {}
    /\ Cardinality(Running) < rec.replicas
    /\ rec' = [rec EXCEPT !.at = "clear", !.new = Cardinality(Running) + 1]
    /\ UNCHANGED picked

\* The new number counts all containers, also those that are down.
RecScaleUp ==
    /\ Running # {}
    /\ Cardinality(Running) < rec.replicas
    /\ Cardinality(Present) < MaxNumber
    /\ rec' = [rec EXCEPT !.at = "clear", !.new = Cardinality(Present) + 1]
    /\ UNCHANGED picked

\* Mutant: the first container instead of the last.
Mut_RecScaleDown ==
    /\ Cardinality(Running) > rec.replicas
    /\ rec' = [rec EXCEPT !.at = "stop"]
    /\ \E n \in Present :
          /\ \A m \in Present : n <= m
          /\ picked' = [picked EXCEPT !["rec"] = n]

RecScaleDown ==
    /\ Cardinality(Running) > rec.replicas
    /\ rec' = [rec EXCEPT !.at = "stop"]
    /\ \E n \in Present : IsLast(n, Present) /\ picked' = [picked EXCEPT !["rec"] = n]

RecNoop ==
    /\ Cardinality(Running) = rec.replicas
    /\ rec' = [rec EXCEPT !.at = "idle"]
    /\ UNCHANGED picked

RecDiff ==
    /\ rec.at = "queried"
    /\ RecHealNeeded \/ RecScaleUp \/ RecScaleDown \/ RecNoop
    /\ UNCHANGED <<row, box, auto, hc, redeploy, update, events>>

RecClear ==
    /\ rec.at \in {"clear", "removed"}
    /\ Clear(IF rec.at = "removed" THEN 1 ELSE rec.new)
    /\ rec' = [rec EXCEPT !.at = IF rec.at = "removed" THEN "cleared" ELSE "create"]
    /\ UNCHANGED <<row, auto, hc, redeploy, update>>

\* A scale up that fails is logged.
RecCreate ==
    /\ rec.at = "create"
    /\ Start(rec.new) \/ StartFails(rec.new)
    /\ rec' = [rec EXCEPT !.at = "idle"]
    /\ UNCHANGED <<row, auto, hc, redeploy, update, picked>>

RecStop ==
    /\ rec.at = "stop"
    /\ StopPicked("rec")
    /\ rec' = [rec EXCEPT !.at = "delete"]
    /\ UNCHANGED <<row, auto, hc, redeploy, update, picked, events>>

RecDelete ==
    /\ rec.at = "delete"
    /\ DeletePicked("rec")
    /\ rec' = [rec EXCEPT !.at = "idle"]
    /\ UNCHANGED <<row, auto, hc, redeploy, update>>

\* A container that is not down counts as recovered.
RecHeal ==
    /\ rec.at = "heal"
    /\ \/ /\ Running # {}
          /\ SetStatus("running")
          /\ rec' = [rec EXCEPT !.at = "idle"]
          /\ UNCHANGED <<box, picked, events>>
       \/ /\ Running = {}
          /\ RemoveAll
          /\ rec' = [rec EXCEPT !.at = "removed"]
          /\ UNCHANGED row
    /\ UNCHANGED <<auto, hc, redeploy, update>>

RecRebuild ==
    /\ rec.at = "cleared"
    /\ \/ Start(1) /\ SetStatus("running")
       \/ StartFails(1) /\ SetStatus("failed")
    /\ rec' = [rec EXCEPT !.at = "idle"]
    /\ UNCHANGED <<auto, hc, redeploy, update, picked>>

ReconcilerStep ==
    \/ RecQuery \/ RecDiff \/ RecClear \/ RecCreate \/ RecStop \/ RecDelete
    \/ RecHeal \/ RecRebuild

-----------------------------------------------------------------------------
(* Autoscaler: it lists the running containers only *)

\* Mutant: the upper bound is left out.
Mut_AutoUp ==
    /\ auto.at = "idle"
    /\ row.status = "running"
    /\ Running # {}
    /\ Cardinality(Running) < MaxNumber
    /\ Event
    /\ auto' = [at |-> "clear", new |-> Cardinality(Running) + 1]
    /\ UNCHANGED <<row, box, rec, hc, redeploy, update, picked>>

\* A high load, and the last scale up is long enough ago.
AutoUp ==
    /\ auto.at = "idle"
    /\ row.status = "running"
    /\ Running # {}
    /\ Cardinality(Running) < AutoMax
    /\ Cardinality(Running) < MaxNumber
    /\ Event
    /\ auto' = [at |-> "clear", new |-> Cardinality(Running) + 1]
    /\ UNCHANGED <<row, box, rec, hc, redeploy, update, picked>>

\* A low load for three minutes; the plain name is spared.
AutoDown ==
    /\ auto.at = "idle"
    /\ row.status = "running"
    /\ Cardinality(Running) > AutoMin
    /\ Event
    /\ auto' = [auto EXCEPT !.at = "stop"]
    /\ \E n \in Running \ {1} :
          /\ IsLast(n, Running \ {1})
          /\ picked' = [picked EXCEPT !["auto"] = n]
    /\ UNCHANGED <<row, box, rec, hc, redeploy, update>>

AutoClear ==
    /\ auto.at = "clear"
    /\ Clear(auto.new)
    /\ auto' = [auto EXCEPT !.at = "create"]
    /\ UNCHANGED <<row, rec, hc, redeploy, update>>

AutoCreate ==
    /\ auto.at = "create"
    /\ Start(auto.new) \/ StartFails(auto.new)
    /\ auto' = [auto EXCEPT !.at = "idle"]
    /\ UNCHANGED <<row, rec, hc, redeploy, update, picked>>

AutoStop ==
    /\ auto.at = "stop"
    /\ StopPicked("auto")
    /\ auto' = [auto EXCEPT !.at = "delete"]
    /\ UNCHANGED <<row, rec, hc, redeploy, update, picked, events>>

AutoDelete ==
    /\ auto.at = "delete"
    /\ DeletePicked("auto")
    /\ auto' = [auto EXCEPT !.at = "idle"]
    /\ UNCHANGED <<row, rec, hc, redeploy, update>>

AutoscaleStep == AutoUp \/ AutoDown \/ AutoClear \/ AutoCreate \/ AutoStop \/ AutoDelete

-----------------------------------------------------------------------------
(* Health check *)

HcQuery ==
    /\ hc.at = "idle"
    /\ hc' = [at |-> "queried", status |-> row.status]
    /\ UNCHANGED <<row, box, rec, auto, redeploy, update, picked, events>>

\* Of several containers the map keeps the status of the one that is listed last.
HcList ==
    /\ hc.at = "queried"
    /\ \/ /\ hc.status # "deploying"
          /\ \/ Present = {}
             \/ \E n \in Present : box[n] = "down"
          /\ hc' = [hc EXCEPT !.at = "remove"]
       \/ /\ hc.status = "failed" /\ Running # {}
          /\ hc' = [hc EXCEPT !.at = "mark"]
       \/ /\ hc.status = "deploying" \/ (hc.status = "running" /\ Running # {})
          /\ hc' = [hc EXCEPT !.at = "idle"]
    /\ UNCHANGED <<row, box, rec, auto, redeploy, update, picked, events>>

HcMark ==
    /\ hc.at = "mark"
    /\ SetStatus("running")
    /\ hc' = [hc EXCEPT !.at = "idle"]
    /\ UNCHANGED <<box, rec, auto, redeploy, update, picked, events>>

HcRemove ==
    /\ hc.at = "remove"
    /\ RemoveAll
    /\ hc' = [hc EXCEPT !.at = "removed"]
    /\ UNCHANGED <<row, rec, auto, redeploy, update>>

HcClear ==
    /\ hc.at = "removed"
    /\ Clear(1)
    /\ hc' = [hc EXCEPT !.at = "cleared"]
    /\ UNCHANGED <<row, rec, auto, redeploy, update>>

HcCreate ==
    /\ hc.at = "cleared"
    /\ \/ Start(1) /\ SetStatus("running")
       \/ StartFails(1) /\ SetStatus("failed")
    /\ hc' = [hc EXCEPT !.at = "idle"]
    /\ UNCHANGED <<rec, auto, redeploy, update, picked>>

HealthCheckStep == HcQuery \/ HcList \/ HcMark \/ HcRemove \/ HcClear \/ HcCreate

-----------------------------------------------------------------------------
(* Redeploy and update *)

Redeploy ==
    /\ redeploy.at = "idle"
    /\ Event
    /\ SetStatus("deploying")
    /\ redeploy' = [redeploy EXCEPT !.at = "asked", !.tries = 0]
    /\ UNCHANGED <<box, rec, auto, hc, update, picked>>

RedeployLoad ==
    /\ redeploy.at = "asked"
    /\ SetStatus("deploying")
    /\ redeploy' = [redeploy EXCEPT !.at = "loaded", !.replicas = row.replicas]
    /\ UNCHANGED <<box, rec, auto, hc, update, picked, events>>

RedeployRemove ==
    /\ redeploy.at = "loaded"
    /\ RemoveAll
    /\ redeploy' = [redeploy EXCEPT !.at = "removed"]
    /\ UNCHANGED <<row, rec, auto, hc, update>>

RedeployClear ==
    /\ redeploy.at = "removed"
    /\ Clear(1)
    /\ redeploy' = [redeploy EXCEPT !.at = "cleared"]
    /\ UNCHANGED <<row, rec, auto, hc, update>>

\* The job failed: it is tried again unless that was its last attempt.
Retry ==
    redeploy' = IF redeploy.tries + 1 < MaxTries
                THEN [redeploy EXCEPT !.at = "asked", !.tries = @ + 1]
                ELSE [redeploy EXCEPT !.at = "idle"]

RedeployCreate ==
    /\ redeploy.at = "cleared"
    /\ \/ /\ Start(1)
          /\ redeploy' = [redeploy EXCEPT !.at = "created"]
          /\ UNCHANGED row
       \/ /\ StartFails(1)
          /\ SetStatus("failed")
          /\ Retry
    /\ UNCHANGED <<rec, auto, hc, update, picked>>

\* The manifest is written back as the job had loaded it.
RedeployCommit ==
    /\ redeploy.at = "created"
    /\ row' = [status |-> "running", replicas |-> redeploy.replicas]
    /\ redeploy' = [redeploy EXCEPT !.at = "idle"]
    /\ UNCHANGED <<box, rec, auto, hc, update, picked, events>>

RedeployStep ==
    RedeployLoad \/ RedeployRemove \/ RedeployClear \/ RedeployCreate \/ RedeployCommit

\* Mutant: a number of zero is not ignored.
Mut_UpdateReplicas ==
    /\ update.at = "idle"
    /\ Event
    /\ \E n \in 0 .. MaxReplicas : update' = [at |-> "asked", replicas |-> n]
    /\ UNCHANGED <<row, box, rec, auto, hc, redeploy, picked>>

UpdateReplicas ==
    /\ update.at = "idle"
    /\ Event
    /\ \E n \in Desired : update' = [at |-> "asked", replicas |-> n]
    /\ UNCHANGED <<row, box, rec, auto, hc, redeploy, picked>>

\* Nothing to do if the row has that number already.
UpdateLoad ==
    /\ update.at = "asked"
    /\ update' = [update EXCEPT !.at = IF row.replicas = update.replicas THEN "idle" ELSE "loaded"]
    /\ UNCHANGED <<row, box, rec, auto, hc, redeploy, picked, events>>

UpdateCommit ==
    /\ update.at = "loaded"
    /\ row' = [status |-> "running", replicas |-> update.replicas]
    /\ update' = [update EXCEPT !.at = "idle"]
    /\ UNCHANGED <<box, rec, auto, hc, redeploy, picked, events>>

UpdateStep == UpdateLoad \/ UpdateCommit

-----------------------------------------------------------------------------
(* Environment *)

ContainerExits(n) ==
    /\ box[n] = "running"
    /\ Trouble
    /\ box' = [box EXCEPT ![n] = "down"]
    /\ UNCHANGED <<row, rec, auto, hc, redeploy, update, picked>>

\* The cleanup job removes a container that has been down for long.
CleanUp(n) ==
    /\ box[n] = "down"
    /\ Trouble
    /\ Remove({n})
    /\ UNCHANGED <<row, rec, auto, hc, redeploy, update>>

\* The jobs run again, the passes of the loops are lost.
PlaneRestarts ==
    /\ Trouble
    /\ rec' = [rec EXCEPT !.at = "idle"]
    /\ auto' = [auto EXCEPT !.at = "idle"]
    /\ hc' = [hc EXCEPT !.at = "idle"]
    /\ redeploy' = [redeploy EXCEPT !.at = IF redeploy.at = "idle" THEN "idle" ELSE "asked"]
    /\ update' = [update EXCEPT !.at = IF update.at = "idle" THEN "idle" ELSE "asked"]
    /\ picked' = [a \in Scalers |-> Gone]
    /\ UNCHANGED <<row, box>>

Next ==
    \/ ReconcilerStep \/ AutoscaleStep \/ HealthCheckStep
    \/ Redeploy \/ RedeployStep \/ UpdateReplicas \/ UpdateStep
    \/ \E n \in Numbers : ContainerExits(n) \/ CleanUp(n)
    \/ PlaneRestarts

Spec == Init /\ [][Next]_vars

\* A pass that has begun goes on; the loop of the reconciler runs again and again,
\* the other two need not.
FairSpec ==
    /\ Spec
    /\ WF_vars(ReconcilerStep)
    /\ WF_vars(auto.at # "idle" /\ AutoscaleStep)
    /\ WF_vars(hc.at # "idle" /\ HealthCheckStep)
    /\ WF_vars(RedeployStep) /\ WF_vars(UpdateStep)

-----------------------------------------------------------------------------
(* Properties *)

\* Somebody rebuilds the service from nothing.
Rebuilding ==
    \/ rec.at \in {"removed", "cleared"} \/ hc.at \in {"removed", "cleared"}
    \/ redeploy.at \in {"removed", "cleared"}

\* Scaling alone never takes the service down: whatever the autoscaler and the
\* reconciler decide from listings that are out of date, a replica stays up, as
\* long as no container exits and nobody rebuilds the service.
ScalingKeepsAReplica ==
    events.calm /\ ~Rebuilding => Running # {}

\* Reconciler and autoscaler may each add the replica that both found missing, and a
\* redeploy or an update may lower the number under their feet: there is at most one
\* replica more than either of them may ask for. Only containers that exit and calls
\* that fail raise the numbers further, as the reconciler counts what is down.
Limit == IF MaxReplicas > AutoMax THEN MaxReplicas ELSE AutoMax
OvershootIsBounded == events.calm => Cardinality(Running) <= Limit + 1

\* The invariant behind ScalingKeepsAReplica: no scaler ever picks or
\* replaces the container with the plain name, so it is up, or comes up, at the end
\* of every rebuild.
ScalersSparePlainName ==
    /\ \A a \in Scalers : picked[a] # 1
    /\ rec.at \in {"clear", "create"} => rec.new # 1
    /\ auto.at \in {"clear", "create"} => auto.new # 1

PlainNameIsUp ==
    /\ events.calm => box[1] # "down"
    /\ events.calm /\ ~Rebuilding => box[1] = "running"

\* The invariant behind OvershootIsBounded: while nothing disturbs, only a container
\* that a scaler is about to delete is down, so the reconciler counts at most one that
\* does not run, and no container gets a number above Limit + 1.
DownIsPicked ==
    \A n \in Numbers : box[n] = "down" =>
        \/ rec.at = "delete" /\ picked["rec"] = n
        \/ auto.at = "delete" /\ picked["auto"] = n

NumbersAreLow ==
    /\ \A n \in Present : n <= Limit + 1
    /\ rec.at \in {"clear", "create"} => rec.new <= Limit + 1
    /\ auto.at \in {"clear", "create"} => auto.new <= Limit + 1

ReplicasAreFew == events.calm => DownIsPicked /\ NumbersAreLow

IInv == TypeOK /\ ScalersSparePlainName /\ PlainNameIsUp /\ ReplicasAreFew

\* No gap in the numbers of the containers.
Contiguous == \A n \in Present : \A m \in 1 .. n : m \in Present

\* Once the disturbances are over, the service has as many running replicas as the
\* user asked for, provided that the health check does not rebuild it again and
\* again and that the numbers of its containers are without a gap.
SettlesOnDesired ==
    <>[](Contiguous /\ hc.at \in {"idle", "queried"}) => <>[](Cardinality(Running) = row.replicas)

-----------------------------------------------------------------------------
(* A claim that the code does not keep *)

\* reconciler.go:45-47, the reconciler acts on any delta between the desired state and
\* the running containers: once the health check rebuilds no more, the numbers agree.
ReplicasConverge ==
    <>[](hc.at \in {"idle", "queried"}) => <>[](Cardinality(Running) = row.replicas)
=============================================================================
