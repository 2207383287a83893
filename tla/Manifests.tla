------------------------------ MODULE Manifests ------------------------------
(***************************************************************************)
(* What a user posts, the manifest the plane makes of it, and the life of  *)
(* that manifest in manifest_json of the services row. Four writers change *)
(* it, each with checks of its own: the deploy job, which converts and     *)
(* resolves it, the redeploy and the update job, which put another image   *)
(* or domain into the stored one, and the PATCH of the resources of a      *)
(* container, which writes the scaling part without resolving it. They all *)
(* read the row, change the copy and write the whole copy back.            *)
(*                                                                         *)
(* Everything that rebuilds a container later (heal, reconciler, rolling   *)
(* and blue-green update) starts from the stored manifest: one that does   *)
(* not resolve, or that bears another name, is a service that stays down.  *)
(*                                                                         *)
(* Kept of a manifest: what validate and Resolve look at. The route, the   *)
(* replicas and the slots are the subject of other modules.                *)
(***************************************************************************)
EXTENDS Integers, Sequences, FiniteSets

CONSTANTS
    Ids,        \* rows of the table services
    Names,      \* names that users give
    Kinds,      \* what users post: subset of SourceKinds
    Edits,      \* what they ask for later: subset of EditKinds
    Jobs,       \* slots of the River job table
    MaxTries,   \* attempts of a job
    MaxEdits,   \* edits asked for
    MaxFaults   \* calls of the runtime, of git and of the queue that fail, and crashes

SourceKinds == {"image", "dockerfile", "compose", "git", "manifest", "stack", "template"}
EditKinds   == {"update", "redeploy", "delete", "patch"}

ManifestsAssumption ==
    /\ Kinds \subseteq SourceKinds /\ Edits \subseteq EditKinds
    /\ MaxTries \in Nat \ {0} /\ MaxEdits \in Nat /\ MaxFaults \in Nat

VARIABLES
    rows,    \* the table services
    boxes,   \* the containers by name: the row they were made for, and their configuration
    job,     \* the jobs, with the manifest they hold
    patch,   \* the PATCH in flight, with the manifest it has read
    edits,   \* edits left
    faults   \* failures left

vars == <<rows, boxes, job, patch, edits, faults>>

-----------------------------------------------------------------------------
(* Manifests and what is made of them *)

NoAuto == [on |-> FALSE, metric |-> "", min |-> 0, max |-> 0]

Plain(n) ==
    [name |-> n, schema |-> TRUE, image |-> "app", build |-> "none", clash |-> FALSE,
     restart |-> "", strategy |-> "", auto |-> NoAuto, port |-> 0, health |-> "none",
     domain |-> ""]

\* A port that a user names.
WebPort == 3000

\* Documents a user may post as a manifest: a plain one, with one thing out of the ordinary.
Variants(p) ==
    {p, [p EXCEPT !.schema = FALSE], [p EXCEPT !.name = ""], [p EXCEPT !.image = ""],
     [p EXCEPT !.clash = TRUE], [p EXCEPT !.restart = "no"], [p EXCEPT !.restart = "never"],
     [p EXCEPT !.strategy = "canary"], [p EXCEPT !.strategy = "blue-green"],
     [p EXCEPT !.port = WebPort, !.health = "http"]}

Autos == {[on |-> TRUE, metric |-> "cpu", min |-> 2, max |-> 1],
          [on |-> TRUE, metric |-> "", min |-> 1, max |-> 2],
          [on |-> TRUE, metric |-> "cpu", min |-> 1, max |-> 2]}

Scaled(p) == {[p EXCEPT !.auto = a] : a \in Autos}

Built(p) ==
    {[p EXCEPT !.image = i, !.build = b] :
        i \in {"", "app"}, b \in {"empty", "inline", "git", "local"}}

Documents(n) == Variants(Plain(n)) \cup Scaled(Plain(n)) \cup Built(Plain(n))

Or(a, b) == IF a # "" THEN a ELSE b

Validates(m) ==
    /\ m.schema
    /\ m.name # ""
    /\ (m.image # "") # (m.build # "none")
    /\ m.build # "empty"
    /\ m.restart \in {"", "always", "on-failure", "never"}
    /\ m.strategy \in {"", "rolling", "recreate", "blue-green"}
    /\ m.auto.on => m.auto.metric \in {"cpu", "memory", "requests"} /\ m.auto.min <= m.auto.max
    /\ ~m.clash                                 \* a variable with a value and a secret

Tag == "localhost/tidefly"

DetectPort(image) == IF image = "nginx" THEN 80 ELSE 8080

\* The image that resolveBuild names, or the one of the manifest.
ImageOf(m) == IF m.build # "none" THEN Tag ELSE m.image

Resolve(m) ==
    [name |-> m.name, image |-> ImageOf(m), build |-> m.build,
     port |-> IF m.port # 0 THEN m.port ELSE DetectPort(ImageOf(m)),
     restart |-> Or(m.restart, "always"), strategy |-> Or(m.strategy, "rolling"),
     probe |-> IF m.health \in {"test", "http"} THEN m.health ELSE "tcp"]

MapRestartPolicy(r) ==
    CASE r = "on-failure" -> "on-failure" [] r = "never" -> "no" [] OTHER -> "unless-stopped"

\* Limits, replicas and secrets of the manifest do not reach the container.
ToContainerSpec(r) ==
    [image |-> r.image, probe |-> r.probe, port |-> r.port, restart |-> MapRestartPolicy(r.restart)]

-----------------------------------------------------------------------------
(* The converter *)

\* A request: its source, the name given, and the document, the compose services or the
\* repository it comes with.
Request(k, n, d, s, r) == [kind |-> k, name |-> n, doc |-> d, stack |-> s, repo |-> r]

Compose == {{}, {[svc |-> "web", image |-> "", restart |-> ""]},
            {[svc |-> "web", image |-> "nginx", restart |-> "no"]},
            {[svc |-> "web", image |-> "nginx", restart |-> "unless-stopped"],
             [svc |-> "db", image |-> "app", restart |-> ""]}}

Nothing == Plain("")

\* What detectInRepo finds in a repository.
Repositories == {"compose", "dockerfile", "empty"}

Named(k, n)         == Request(k, n, Nothing, {}, "")
Stacked(k, n, s)    == Request(k, n, Nothing, s, "")
Cloned(n, s, r)     == Request("git", n, Nothing, s, r)
Written(k, n, d)    == Request(k, n, d, {}, "")

\* The document of a template with the values filled in; a value may be anything.
Resolved(n) == Documents(n)

\* The name may be left out of a request that brings a manifest.
NameOrNone(n) == {"", n}

Posted(n) == {Written("manifest", g, d) : g \in NameOrNone(n), d \in Documents(n)}
Filled(n) == {Written("template", "", d) : d \in Resolved(n)}

Offered(k) == IF k \in Kinds THEN Names ELSE {}

OfNames        == {Named(k, n) : k \in Kinds \cap {"image", "dockerfile"}, n \in Names}
OfStacks       == {Stacked(k, n, s) :
                     k \in Kinds \cap {"compose", "stack"}, n \in Names, s \in Compose}
OfRepositories == {Cloned(n, s, r) : n \in Offered("git"), s \in Compose, r \in Repositories}
OfManifests    == UNION {Posted(n) : n \in Offered("manifest")}
OfTemplates    == UNION {Filled(n) : n \in Offered("template")}

Requests == OfNames \cup OfStacks \cup OfRepositories \cup OfManifests \cup OfTemplates

\* The name of one service of a stack.
FullName(n, svc) == n \o "-" \o svc

\* A stack becomes one manifest per service that has an image.
FromCompose(stack, services) ==
    {[m |-> [Plain(FullName(stack, s.svc)) EXCEPT
                !.image = s.image, !.strategy = "rolling",
                !.restart = IF s.restart \in {"", "unless-stopped", "on-failure"}
                            THEN "always" ELSE s.restart],
      build |-> "none"] : s \in {x \in services : x.image # ""}}

\* The build is done by the deploy job, so the manifest is stored with the tag in its place.
FromService(d) ==
    IF d.name = "" THEN {}
    ELSE IF d.build = "none" THEN {[m |-> d, build |-> "none"]}
    ELSE {[m |-> [d EXCEPT !.image = Tag, !.build = "none"],
           build |-> IF d.build \in {"inline", "git"} THEN d.build ELSE "impossible"]}

FromImage(name) == {[m |-> Plain(name), build |-> "none"]}

FromDockerfile(name, build) ==
    {[m |-> [Plain(name) EXCEPT !.image = Tag], build |-> build]}

FromGit(r) ==
    CASE r.repo = "compose"    -> FromCompose(r.name, r.stack)
      [] r.repo = "dockerfile" -> FromDockerfile(r.name, "git")
      [] r.repo = "empty"      -> {}

\* What may become of a request: the deploy job takes the first manifest, and the order
\* of the services of a stack is that of a Go map. The empty set is an error.
Convert(r) ==
    CASE r.kind = "image"                    -> FromImage(r.name)
      [] r.kind = "dockerfile"               -> FromDockerfile(r.name, "inline")
      [] r.kind \in {"compose", "stack"}     -> FromCompose(r.name, r.stack)
      [] r.kind = "git"                      -> FromGit(r)
      [] r.kind \in {"manifest", "template"} -> FromService(r.doc)

-----------------------------------------------------------------------------

NoBox  == [owner |-> 0, spec |-> ToContainerSpec(Resolve(Nothing))]
Asked  == Request("none", "", Nothing, {}, "")
NoRow  == [phase |-> "unborn", name |-> "", status |-> "", stored |-> FALSE, m |-> Nothing,
           stack |-> {}]                             \* history: the services of the stack
FreeSlot == [kind |-> "none", at |-> "free", id |-> 0, tries |-> 0, asked |-> Asked, m |-> Nothing,
             build |-> "none", name |-> "", image |-> "", domain |-> ""]
NoPatch == [at |-> "idle", id |-> 0, m |-> Nothing]

AllNames == Names \cup {FullName(n, s) : n \in Names, s \in {"web", "db"}}

TypeOK ==
    /\ \A id \in Ids : /\ rows[id].phase \in {"unborn", "live", "deleted"}
                       /\ rows[id].name \in AllNames \cup {""}
                       /\ rows[id].status \in {"", "deploying", "running", "failed", "stopped"}
    /\ \A n \in AllNames : boxes[n] = NoBox \/ boxes[n].owner \in Ids
    /\ \A j \in Jobs : job[j] = FreeSlot \/ job[j].tries \in 0 .. MaxTries - 1
    /\ patch.at \in {"idle", "read"}
    /\ edits \in 0 .. MaxEdits
    /\ faults \in 0 .. MaxFaults

Init ==
    /\ rows = [id \in Ids |-> NoRow]
    /\ boxes = [n \in AllNames |-> NoBox]
    /\ job = [j \in Jobs |-> FreeSlot]
    /\ patch = NoPatch
    /\ edits = MaxEdits
    /\ faults = MaxFaults

Live(id)  == rows[id].phase = "live"
Fault     == faults > 0 /\ faults' = faults - 1
Ask(k)    == k \in Edits /\ edits > 0 /\ edits' = edits - 1
Taken(n)  == \E id \in Ids : Live(id) /\ rows[id].name = n      \* uniqueIndex on the name
At(j, k, stage) == job[j].kind = k /\ job[j].at = stage

Finish(j)  == job' = [job EXCEPT ![j] = FreeSlot]
Goto(j, s) == job' = [job EXCEPT ![j].at = s]

\* River runs a job that has failed again, with the arguments it was queued with.
GivenOut(b) ==
    IF b.tries + 1 < MaxTries THEN [b EXCEPT !.at = "queued", !.tries = @ + 1] ELSE FreeSlot

Retry(j) == job' = [job EXCEPT ![j] = GivenOut(job[j])]

MarkFailed(id) == rows' = IF Live(id) THEN [rows EXCEPT ![id].status = "failed"] ELSE rows
SetStatus(id, s) == rows' = IF Live(id) THEN [rows EXCEPT ![id].status = s] ELSE rows

\* The containers of a service, the ones of another service whose name goes on with a dash too.
Owned(n) == {c \in AllNames : c = n \/ (n \in Names /\ c \in {FullName(n, "web"), FullName(n, "db")})}

RemoveContainers(n) == boxes' = [c \in AllNames |-> IF c \in Owned(n) THEN NoBox ELSE boxes[c]]

\* The runtime takes the container that has the name out of the way.
CreateContainer(id, m) ==
    boxes' = [boxes EXCEPT ![m.name] = [owner |-> id, spec |-> ToContainerSpec(Resolve(m))]]

Enqueue(k, id, fields) ==
    \E j \in Jobs :
        /\ job[j] = FreeSlot
        /\ job' = [job EXCEPT ![j] = [fields EXCEPT !.kind = k, !.at = "queued", !.id = id]]

-----------------------------------------------------------------------------
(* Deploy *)

\* The name is checked as it was given: that in a stack or a template is not looked at.
Given(r) == IF r.kind = "stack" THEN "" ELSE r.name

Create(id, r) ==
    /\ rows[id].phase = "unborn"
    /\ ~Taken(Given(r))
    /\ Enqueue("deploy", id, [FreeSlot EXCEPT !.asked = r])
    /\ rows' = [rows EXCEPT ![id] = [NoRow EXCEPT !.phase = "live", !.name = Given(r),
                                                  !.status = "deploying", !.stack = r.stack]]
    /\ UNCHANGED <<boxes, patch, edits, faults>>

\* Convert, resolve, and rename the row: the error of a name that is taken is dropped, and
\* the job goes on under the new name.
DeployLoad(j) ==
    LET id == job[j].id IN
    /\ At(j, "deploy", "queued")
    /\ \/ /\ Live(id)
          /\ \E c \in Convert(job[j].asked) :
                /\ Validates(c.m)
                /\ job' = [job EXCEPT ![j] = [@ EXCEPT !.at = "resolved", !.m = c.m,
                                                       !.build = c.build, !.name = c.m.name]]
                /\ rows' = IF Taken(c.m.name) THEN rows ELSE [rows EXCEPT ![id].name = c.m.name]
          /\ UNCHANGED faults
       \/ /\ Live(id)
          /\ \/ UNCHANGED faults
                /\ \/ Convert(job[j].asked) = {}
                   \/ \E c \in Convert(job[j].asked) : ~Validates(c.m)
             \/ job[j].asked.kind = "git" /\ Fault         \* the repository cannot be cloned
          /\ MarkFailed(id) /\ Retry(j)
       \/ ~Live(id) /\ Retry(j) /\ UNCHANGED <<rows, faults>>
    /\ UNCHANGED <<boxes, patch, edits>>

\* buildImage wants a build context or the text of a Dockerfile: a local context never works.
Buildable(build) == build # "impossible"

\* Networks, image and volumes.
DeployBuild(j) ==
    /\ At(j, "deploy", "resolved")
    /\ \/ Buildable(job[j].build) /\ Goto(j, "built") /\ UNCHANGED <<rows, faults>>
       \/ /\ (~Buildable(job[j].build) /\ UNCHANGED faults) \/ Fault
          /\ MarkFailed(job[j].id) /\ Retry(j)
    /\ UNCHANGED <<boxes, patch, edits>>

DeployCreate(j) ==
    LET id == job[j].id IN
    /\ At(j, "deploy", "built")
    /\ \/ CreateContainer(id, job[j].m) /\ Goto(j, "created") /\ UNCHANGED <<rows, faults>>
       \/ Fault /\ MarkFailed(id) /\ Retry(j)
          /\ boxes' \in {boxes, [boxes EXCEPT ![job[j].m.name] = NoBox]}
    /\ UNCHANGED <<patch, edits>>

\* Mutant: the statement leaves the name out.
Mut_StoreDeployed(id, name, m) ==
    IF Live(id)
    THEN [rows EXCEPT ![id] = [@ EXCEPT !.status = "running", !.stored = TRUE, !.m = m]]
    ELSE rows

\* One statement writes name, status and manifest: when the name is another row's, nothing.
StoreDeployed(id, name, m) ==
    IF Live(id) /\ ~(\E o \in Ids \ {id} : Live(o) /\ rows[o].name = name)
    THEN [rows EXCEPT ![id] = [@ EXCEPT !.name = name, !.status = "running", !.stored = TRUE,
                                        !.m = m]]
    ELSE rows

\* The error of the statement is dropped: the job has succeeded.
DeployStore(j) ==
    /\ At(j, "deploy", "created")
    /\ rows' = StoreDeployed(job[j].id, job[j].name, job[j].m)
    /\ Goto(j, "stored")
    /\ UNCHANGED <<boxes, patch, edits, faults>>

-----------------------------------------------------------------------------
(* Redeploy *)

Known(id) == Live(id) /\ rows[id].stored

Redeploy(id, image) ==
    /\ Ask("redeploy") /\ Live(id)
    /\ \/ Enqueue("redeploy", id, [FreeSlot EXCEPT !.image = image]) /\ UNCHANGED faults
       \/ Fault /\ UNCHANGED job
    /\ SetStatus(id, "deploying")
    /\ UNCHANGED <<boxes, patch>>

Override(m, image) == IF image = "" THEN m ELSE [m EXCEPT !.image = image, !.build = "none"]

\* The stored manifest never names a build, so nothing is built again.
RedeployLoad(j) ==
    LET id == job[j].id
        m  == Override(rows[id].m, job[j].image)
    IN
    /\ At(j, "redeploy", "queued")
    /\ \/ /\ Known(id) /\ Validates(m)
          /\ SetStatus(id, "deploying")
          /\ job' = [job EXCEPT ![j] = [@ EXCEPT !.at = "resolved", !.m = m, !.name = rows[id].name]]
       \/ Known(id) /\ ~Validates(m) /\ MarkFailed(id) /\ Retry(j)
       \/ ~Known(id) /\ Retry(j) /\ UNCHANGED rows
    /\ UNCHANGED <<boxes, patch, edits, faults>>

\* With blue-green the container is exchanged, or kept when that fails: module BlueGreen.
RedeployBlueGreen(j) ==
    LET id == job[j].id IN
    /\ At(j, "redeploy", "resolved") /\ job[j].m.strategy = "blue-green"
    /\ \/ CreateContainer(id, job[j].m) /\ Goto(j, "created") /\ UNCHANGED <<rows, faults>>
       \/ Fault /\ MarkFailed(id) /\ Retry(j) /\ UNCHANGED boxes
    /\ UNCHANGED <<patch, edits>>

RedeployRemove(j) ==
    /\ At(j, "redeploy", "resolved") /\ job[j].m.strategy # "blue-green"
    /\ \/ RemoveContainers(job[j].name) /\ UNCHANGED faults
       \/ Fault /\ UNCHANGED boxes                            \* errors are dropped
    /\ Goto(j, "removed")
    /\ UNCHANGED <<rows, patch, edits>>

RedeployCreate(j) ==
    LET id == job[j].id IN
    /\ At(j, "redeploy", "removed")
    /\ \/ CreateContainer(id, job[j].m) /\ Goto(j, "created") /\ UNCHANGED <<rows, faults>>
       \/ Fault /\ MarkFailed(id) /\ Retry(j)
          /\ boxes' \in {boxes, [boxes EXCEPT ![job[j].m.name] = NoBox]}
    /\ UNCHANGED <<patch, edits>>

\* Model(svc).Updates: the row by its key; a row that is gone stays gone.
StoreManifest(id, m) ==
    IF Live(id)
    THEN [rows EXCEPT ![id] = [@ EXCEPT !.status = "running", !.stored = TRUE, !.m = m]]
    ELSE rows

JobStore(j) ==
    /\ At(j, "redeploy", "created") \/ At(j, "update", "created")
    /\ rows' = StoreManifest(job[j].id, job[j].m)
    /\ Goto(j, "stored")
    /\ UNCHANGED <<boxes, patch, edits, faults>>

\* River learns that the job has succeeded; a crash before that runs it again.
JobEnd(j) ==
    /\ job[j].at = "stored"
    /\ Finish(j)
    /\ UNCHANGED <<rows, boxes, patch, edits, faults>>

-----------------------------------------------------------------------------
(* Update *)

Update(id, image, domain) ==
    /\ Ask("update") /\ Live(id)
    /\ Enqueue("update", id, [FreeSlot EXCEPT !.image = image, !.domain = domain])
    /\ UNCHANGED <<rows, boxes, patch, faults>>

Changed(m, image, domain) ==
    [m EXCEPT !.image = IF image # "" THEN image ELSE @,
              !.build = IF image # "" /\ image # m.image THEN "none" ELSE @,
              !.domain = IF domain # "" THEN domain ELSE @]

\* When neither changes anything the job ends. A domain alone is stored without a look at
\* the manifest.
UpdateLoad(j) ==
    LET id == job[j].id
        m  == Changed(rows[id].m, job[j].image, job[j].domain)
    IN
    /\ At(j, "update", "queued")
    /\ \/ Known(id) /\ m = rows[id].m /\ Finish(j)
       \/ /\ Known(id) /\ m # rows[id].m
          /\ job' = [job EXCEPT ![j] =
                        [@ EXCEPT !.at = IF job[j].image = "" THEN "created" ELSE "loaded",
                                  !.m = m, !.name = rows[id].name]]
       \/ ~Known(id) /\ Retry(j)
    /\ UNCHANGED <<rows, boxes, patch, edits, faults>>

\* The containers are removed before it is known whether the manifest resolves.
UpdateRemove(j) ==
    /\ At(j, "update", "loaded")
    /\ \/ RemoveContainers(job[j].name) /\ UNCHANGED faults
       \/ Fault /\ UNCHANGED boxes
    /\ IF Validates(job[j].m) THEN Goto(j, "removed") ELSE Retry(j)
    /\ UNCHANGED <<rows, patch, edits>>

UpdateCreate(j) ==
    /\ At(j, "update", "removed")
    /\ \/ CreateContainer(job[j].id, job[j].m) /\ Goto(j, "created") /\ UNCHANGED faults
       \/ Fault /\ Retry(j) /\ boxes' \in {boxes, [boxes EXCEPT ![job[j].m.name] = NoBox]}
    /\ UNCHANGED <<rows, patch, edits>>

-----------------------------------------------------------------------------
(* Delete *)

Delete(id) ==
    /\ Ask("delete") /\ Live(id)
    /\ SetStatus(id, "stopped")
    /\ \/ Enqueue("delete", id, FreeSlot) /\ UNCHANGED faults
       \/ Fault /\ UNCHANGED job
    /\ UNCHANGED <<boxes, patch>>

DeleteRemove(j) ==
    LET id == job[j].id IN
    /\ At(j, "delete", "queued")
    /\ IF Live(id) THEN RemoveContainers(rows[id].name) /\ Goto(j, "removed")
                   ELSE Retry(j) /\ UNCHANGED boxes
    /\ UNCHANGED <<rows, patch, edits, faults>>

DeleteRow(j) ==
    /\ At(j, "delete", "removed")
    /\ \/ /\ rows' = [rows EXCEPT ![job[j].id] = [NoRow EXCEPT !.phase = "deleted"]]
          /\ Finish(j) /\ UNCHANGED faults
       \/ Fault /\ Retry(j) /\ UNCHANGED rows
    /\ UNCHANGED <<boxes, patch, edits>>

-----------------------------------------------------------------------------
(* PATCH of the resources of a container *)

\* What the schema of the request lets through.
Scalings ==
    [strategy : {"", "recreate", "blue-green"},
     auto : {NoAuto} \cup [on : BOOLEAN, metric : {"cpu"}, min : 1 .. 2, max : 1 .. 2]]

Accepted(s) == s.auto.min <= s.auto.max

\* The limits are set, then the row is looked up by the name of the container.
PatchRead(n, s) ==
    /\ Ask("patch") /\ patch = NoPatch
    /\ boxes[n] # NoBox /\ Accepted(s) /\ (s.strategy # "" \/ s.auto # NoAuto)
    /\ \E id \in Ids :
          /\ Known(id) /\ rows[id].name = n
          /\ patch' = [at |-> "read", id |-> id,
                       m |-> [rows[id].m EXCEPT
                                !.strategy = IF s.strategy # "" THEN s.strategy ELSE @,
                                !.auto = IF s.auto # NoAuto THEN s.auto ELSE @]]
    /\ UNCHANGED <<rows, boxes, job, faults>>

\* The whole manifest is written back, with whatever a job has put into it meanwhile undone.
PatchWrite ==
    /\ patch.at = "read"
    /\ rows' = IF Live(patch.id) THEN [rows EXCEPT ![patch.id].m = patch.m] ELSE rows
    /\ patch' = NoPatch
    /\ UNCHANGED <<boxes, job, edits, faults>>

-----------------------------------------------------------------------------

\* The plane ends while a job runs: River gives the job out again.
Crash(j) ==
    /\ job[j].at \notin {"free", "queued"}
    /\ Fault /\ Retry(j)
    /\ UNCHANGED <<rows, boxes, patch, edits>>

JobStep(j) ==
    \/ DeployLoad(j) \/ DeployBuild(j) \/ DeployCreate(j) \/ DeployStore(j)
    \/ RedeployLoad(j) \/ RedeployBlueGreen(j) \/ RedeployRemove(j) \/ RedeployCreate(j)
    \/ UpdateLoad(j) \/ UpdateRemove(j) \/ UpdateCreate(j)
    \/ JobStore(j) \/ JobEnd(j)
    \/ DeleteRemove(j) \/ DeleteRow(j)
    \/ Crash(j)

Next ==
    \/ \E id \in Ids, r \in Requests : Create(id, r)
    \/ \E id \in Ids, i \in {"", "nginx"} : Redeploy(id, i)
    \/ \E id \in Ids, u \in {<<"nginx", "">>, <<"", "d">>} : Update(id, u[1], u[2])
    \/ \E id \in Ids : Delete(id)
    \/ \E n \in AllNames, s \in Scalings : PatchRead(n, s)
    \/ PatchWrite
    \/ \E j \in Jobs : JobStep(j)

Spec == Init /\ [][Next]_vars

-----------------------------------------------------------------------------
(* Properties *)

\* A stored manifest resolves, asks for no build, and bears the name of its row, whatever was
\* posted and in whatever order the edits come: what heals, scales or updates the service from
\* it can. Needed by restartService and the reconciler, which remove the containers first and
\* resolve the manifest after. (A stack of several services whose deploy job runs twice may
\* keep a name of the other run: its rows are judged on the rest.)
ManifestFitsItsRow ==
    \A id \in Ids : rows[id].stored =>
        /\ Validates(rows[id].m) /\ rows[id].m.build = "none"
        /\ Cardinality(rows[id].stack) <= 1 => rows[id].m.name = rows[id].name

\* VIOLATED by the code: a container belongs to the row that bears its name. A stack or a
\* template is deployed under a name that nobody has checked.
NamesAreOwned ==
    \A id \in Ids, n \in AllNames :
        rows[id].stored /\ rows[id].status = "running" /\ rows[id].name = n /\ boxes[n] # NoBox
            => boxes[n].owner = id

\* VIOLATED by the code: an image that an update has put in is not taken back by a call that
\* only concerns the scaling.
PatchKeepsTheImage ==
    [][PatchWrite => \A id \in Ids : rows'[id].m.image = rows[id].m.image]_vars

=============================================================================
