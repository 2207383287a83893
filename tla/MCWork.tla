------------------------------- MODULE MCWork -------------------------------
(***************************************************************************)
(* The model checked for what the plane does to containers, images, routes *)
(* and stored data: CaddyRoutes, SelfUpdate, RemoteService, Backup,        *)
(* ImageUpdates, Runtime and Manifests on small instances.                 *)
(*                                                                         *)
(* As in MCAccess, "part" says which of them runs in a behavior, and the   *)
(* variables of the others are "off"; row, boxes and faults are those of   *)
(* the part that runs.                                                     *)
(***************************************************************************)
EXTENDS Integers, Sequences, FiniteSets

CONSTANTS
    MaxFaults,                                                      \* of several of them
    Services, MaxJobs, MaxStarts,                                   \* CaddyRoutes
    Updates, MaxRunning, MaxPlanes, UpdateFaults,                   \* SelfUpdate
    Kinds, AsMin, AsMax, MaxQueue, MaxLosses,                       \* RemoteService
    Buckets, MaxRecords, MaxSeconds, MaxWrites,                     \* Backup
    Replicas, MaxDigest, MaxReplicas, ImageFaults,                  \* ImageUpdates
    BoxNames, Images, Calls, Ops, MaxBoxes, FewNames, FewImages,    \* Runtime
    RowIds, UserNames, Sources, Edits, Jobs, MaxTries, MaxEdits     \* Manifests

VARIABLES
    part, row, boxes, faults,
    routes, boot, task, asked, mishap, left,
    component, updates, cache, refresh, routed,
    connected, inbox, remote, local, jobs, tracker, losses,
    config, database, records, objects, restore, clock,
    published, held, poll, rec, floor,
    driver, engine, calls, cleanup,
    rows, job, patch, edits

C == INSTANCE CaddyRoutes
U == INSTANCE SelfUpdate WITH MaxBoxes <- MaxPlanes, MaxFaults <- UpdateFaults
R == INSTANCE RemoteService
B == INSTANCE Backup
I == INSTANCE ImageUpdates WITH MaxBoxes <- MaxReplicas, MaxFaults <- ImageFaults
D == INSTANCE Runtime WITH Names <- BoxNames
M == INSTANCE Manifests WITH Names <- UserNames, Kinds <- Sources, Ids <- RowIds

ASSUME WorkAssumption ==
    /\ C!CaddyRoutesAssumption /\ U!SelfUpdateAssumption /\ R!RemoteAssumption
    /\ B!BackupAssumption /\ I!ImageAssumption /\ D!RuntimeAssumption /\ M!ManifestsAssumption

cVars == <<routes, boot, task, asked, mishap, left>>
uVars == <<component, updates, cache, refresh, routed>>
rVars == <<connected, inbox, remote, local, jobs, tracker, losses>>
bVars == <<config, database, records, objects, restore, clock>>
iVars == <<published, held, poll, rec, floor>>
dVars == <<driver, engine, calls, cleanup>>
mVars == <<rows, job, patch, edits>>

vars == <<part, row, boxes, faults, cVars, uVars, rVars, bVars, iVars, dVars, mVars>>

\* Bounds of the parts that share a component. "worker": every kind of command but autoscale's,
\* one at a time; "autoscale": an autoscaler and a healer with old commands under way.
EveryCommand ==
    Len(inbox') <= 1 /\ losses' <= 1 /\ jobs'["autoscale"].at = "idle"

OldCommands ==
    /\ jobs'["bluegreen"].at = "idle"
    /\ \A i \in DOMAIN inbox' : inbox'[i].kind \in {"heal", "autoscale"}

\* "runtime": every operation, by itself; "twocalls": some that overlap, on fewer names.
OneCall == \A c \in Calls : calls'[c].at # "idle" => c = CHOOSE d \in Calls : TRUE

FewAsked(cs, e) ==
    /\ \A c \in Calls : cs[c].op # "none" =>
         /\ cs[c].op \in {"create", "update", "delete"}
         /\ cs[c].name \in FewNames /\ cs[c].image \in FewImages
    /\ \A i \in DOMAIN e.boxes : e.boxes[i].name \in FewNames /\ e.boxes[i].image \in FewImages

\* "deploys": everything users post and ask for, for one row; "names": templates for more rows,
\* redeployed at most, without failures.
OneRow ==
    /\ \A i \in RowIds : rows'[i].phase # "unborn" => i = CHOOSE k \in RowIds : TRUE
    /\ \A j \in Jobs : job'[j].asked.kind # "template"

TemplatesAlone ==
    /\ \A j \in Jobs : /\ job'[j].asked.kind \in {"none", "template"}
                       /\ job'[j].kind \in {"none", "deploy", "redeploy"}
    /\ patch'.at = "idle" /\ faults' = faults

\* The variables of a part that does not run.
NoRoutes ==
    /\ routes = "off" /\ boot = "off" /\ task = "off" /\ asked = "off" /\ mishap = "off"
    /\ left = "off"

NoUpdate ==
    /\ component = "off" /\ updates = "off" /\ cache = "off" /\ refresh = "off"
    /\ routed = "off"

NoWorker ==
    /\ connected = "off" /\ inbox = "off" /\ remote = "off" /\ local = "off"
    /\ jobs = "off" /\ tracker = "off" /\ losses = "off"

NoBackup ==
    /\ config = "off" /\ database = "off" /\ records = "off" /\ objects = "off"
    /\ restore = "off" /\ clock = "off"

NoImage ==
    /\ published = "off" /\ held = "off" /\ poll = "off" /\ rec = "off" /\ floor = "off"

NoDriver ==
    /\ driver = "off" /\ engine = "off" /\ calls = "off" /\ cleanup = "off"

NoManifest ==
    /\ rows = "off" /\ job = "off" /\ patch = "off" /\ edits = "off"

Init ==
    \/ /\ part = "routes" /\ C!Init
       /\ NoUpdate /\ NoWorker /\ NoBackup /\ NoImage /\ NoDriver /\ NoManifest
       /\ row = "off" /\ boxes = "off" /\ faults = "off"
    \/ /\ part = "selfupdate" /\ U!Init
       /\ NoRoutes /\ NoWorker /\ NoBackup /\ NoImage /\ NoDriver /\ NoManifest
       /\ row = "off"
    \/ /\ part = "worker" /\ R!Init
       /\ NoRoutes /\ NoUpdate /\ NoBackup /\ NoImage /\ NoDriver /\ NoManifest
       /\ boxes = "off" /\ faults = "off"
    \/ /\ part = "autoscale" /\ R!Init
       /\ NoRoutes /\ NoUpdate /\ NoBackup /\ NoImage /\ NoDriver /\ NoManifest
       /\ boxes = "off" /\ faults = "off"
    \/ /\ part = "backup" /\ B!Init
       /\ NoRoutes /\ NoUpdate /\ NoWorker /\ NoImage /\ NoDriver /\ NoManifest
       /\ row = "off" /\ boxes = "off"
    \/ /\ part = "images" /\ I!Init
       /\ NoRoutes /\ NoUpdate /\ NoWorker /\ NoBackup /\ NoDriver /\ NoManifest
    \/ /\ part = "runtime" /\ D!Init
       /\ NoRoutes /\ NoUpdate /\ NoWorker /\ NoBackup /\ NoImage /\ NoManifest
       /\ row = "off" /\ boxes = "off"
    \/ /\ part = "twocalls" /\ D!Init /\ FewAsked(calls, engine)
       /\ NoRoutes /\ NoUpdate /\ NoWorker /\ NoBackup /\ NoImage /\ NoManifest
       /\ row = "off" /\ boxes = "off"
    \/ /\ part = "deploys" /\ M!Init
       /\ NoRoutes /\ NoUpdate /\ NoWorker /\ NoBackup /\ NoImage /\ NoDriver
       /\ row = "off"
    \/ /\ part = "names" /\ M!Init
       /\ NoRoutes /\ NoUpdate /\ NoWorker /\ NoBackup /\ NoImage /\ NoDriver
       /\ row = "off"

RoutesStep ==
    /\ part = "routes" /\ C!Next
    /\ UNCHANGED <<part, uVars, rVars, bVars, iVars, dVars, mVars, row, boxes, faults>>

SelfUpdateStep ==
    /\ part = "selfupdate" /\ U!Next
    /\ UNCHANGED <<part, cVars, rVars, bVars, iVars, dVars, mVars, row>>

WorkerStep ==
    /\ part = "worker" /\ R!Next /\ EveryCommand
    /\ UNCHANGED <<part, cVars, uVars, bVars, iVars, dVars, mVars, boxes, faults>>

AutoscaleStep ==
    /\ part = "autoscale" /\ R!Next /\ OldCommands
    /\ UNCHANGED <<part, cVars, uVars, bVars, iVars, dVars, mVars, boxes, faults>>

BackupStep ==
    /\ part = "backup" /\ B!Next
    /\ UNCHANGED <<part, cVars, uVars, rVars, iVars, dVars, mVars, row, boxes>>

ImagesStep ==
    /\ part = "images" /\ I!Next
    /\ UNCHANGED <<part, cVars, uVars, rVars, bVars, dVars, mVars>>

RuntimeStep ==
    /\ part = "runtime" /\ D!Next /\ OneCall
    /\ UNCHANGED <<part, cVars, uVars, rVars, bVars, iVars, mVars, row, boxes>>

TwoCallsStep ==
    /\ part = "twocalls" /\ D!Next /\ FewAsked(calls', engine')
    /\ UNCHANGED <<part, cVars, uVars, rVars, bVars, iVars, mVars, row, boxes>>

DeploysStep ==
    /\ part = "deploys" /\ M!Next /\ OneRow
    /\ UNCHANGED <<part, cVars, uVars, rVars, bVars, iVars, dVars, row>>

NamesStep ==
    /\ part = "names" /\ M!Next /\ TemplatesAlone
    /\ UNCHANGED <<part, cVars, uVars, rVars, bVars, iVars, dVars, row>>

Next ==
    \/ RoutesStep \/ SelfUpdateStep \/ WorkerStep \/ AutoscaleStep \/ BackupStep
    \/ ImagesStep \/ RuntimeStep \/ TwoCallsStep \/ DeploysStep \/ NamesStep

Spec == Init /\ [][Next]_vars

-----------------------------------------------------------------------------
(* Properties, each of the part that it is about *)

\* The type invariants of the modules. That of RemoteService says that a worker never has more
\* copies of a service than the manifest allows, however old the commands are that reach it.
TypeOK ==
    /\ part = "routes" => C!TypeOK
    /\ part = "selfupdate" => U!TypeOK
    /\ part \in {"worker", "autoscale"} => R!TypeOK
    /\ part = "backup" => B!TypeOK
    /\ part = "images" => I!TypeOK
    /\ part \in {"runtime", "twocalls"} => D!TypeOK
    /\ part \in {"deploys", "names"} => M!TypeOK

\* CaddyRoutes: the dashboard keeps its routes, and the first route of a service leads where the
\* last call that succeeded wanted it.
RequestsGoWhereAsked == part = "routes" => C!RequestsGoWhereAsked

\* SelfUpdate: however an update and the calls it makes end, a healthy plane runs.
PlaneStaysUp == part = "selfupdate" => U!PlaneStaysUp

\* Backup: a restore never puts the data of one service into the database of another.
RestoresItsOwnService == part = "backup" => B!RestoresItsOwnService

\* ImageUpdates: a rolling update never leaves fewer replicas running than it found, but for
\* those that exited on their own.
UpdateKeepsServing == part = "images" => I!UpdateKeepsServing

\* Runtime: what a driver answers without an error, the engine has done.
AnsweredOkIsDone == part \in {"runtime", "twocalls"} => D!AnsweredOkIsDone

\* Runtime: the clean-up job removes no container that runs and no image that is used.
CleanupSparesWhatIsUsed ==
    [][\/ part \notin {"runtime", "twocalls"}
       \/ D!CleanupSpares]_vars

\* Manifests: a stored manifest resolves, needs no build and bears the name of its row.
ManifestFitsItsRow == part \in {"deploys", "names"} => M!ManifestFitsItsRow
=============================================================================
