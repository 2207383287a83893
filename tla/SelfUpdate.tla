----------------------------- MODULE SelfUpdate -----------------------------
(***************************************************************************)
(* The update of the plane's own containers on the request of an           *)
(* administrator: of the web interface, which publishes ports, of Caddy,   *)
(* and of the plane, in whose container the update itself runs.            *)
(*                                                                         *)
(* An update is a sequence of calls of the container engine. Each may fail *)
(* and most errors are ignored. Nothing keeps a second request from        *)
(* starting a second update while the first one runs.                      *)
(***************************************************************************)
EXTENDS Naturals, Sequences, FiniteSets

CONSTANTS
    Updates,        \* requests for an update
    MaxRunning,     \* bound: updates that run at the same time
    MaxBoxes,       \* bound: containers created
    MaxFaults       \* bound: calls of the engine that fail, and ends of the plane's process

SelfUpdateAssumption ==
    MaxRunning \in Nat /\ MaxBoxes \in Nat \ {0} /\ MaxFaults \in Nat

VARIABLES
    component,  \* the component that is updated
    boxes,      \* every container that was created: its name, state and image
    updates,    \* where an update is, which container it created and in which one it runs
    cache,      \* the version cache, or "none"
    refresh,    \* what the refresh that runs has found, or "idle"
    routed,     \* does Caddy have its configuration
    faults

vars == <<component, boxes, updates, cache, refresh, routed, faults>>

versionVars == <<cache, refresh>>

Versions == {"available", "current"}

\* The name of the component's container, that name with _green and with _old.
Names == {"name", "green", "old"}

Box == [name : Names \cup {"gone"}, state : {"off", "starting", "healthy"}, new : BOOLEAN]

Stage == {"idle", "pull", "inspect", "clear", "create", "start", "health", "rollback",
          "self1", "self2", "self3", "self4", "stop", "remove", "rename",
          "stop again", "remove again", "recreate", "restart", "backup", "wait", "restore", "done", "failed", "dead"}

Ended == {"done", "failed", "dead"}

TypeOK ==
    /\ component \in {"plane", "ui", "caddy"}
    /\ boxes \in Seq(Box) /\ Len(boxes) \in 1 .. MaxBoxes
    /\ updates \in [Updates -> [at : Stage, id : 1 .. MaxBoxes, host : 1 .. MaxBoxes,
                                new : BOOLEAN, kept : BOOLEAN]]
    /\ cache \in Versions \cup {"none"} /\ refresh \in Versions \cup {"idle"}
    /\ routed \in BOOLEAN
    /\ faults \in 0 .. MaxFaults

Init ==
    /\ component \in {"plane", "ui", "caddy"}
    /\ boxes = <<[name |-> "name", state |-> "healthy", new |-> FALSE]>>
    /\ updates = [u \in Updates |-> [at |-> "idle", id |-> 1, host |-> 1, new |-> FALSE,
                                kept |-> FALSE]]
    /\ cache = "none" /\ refresh = "idle" /\ routed = TRUE /\ faults = 0

-----------------------------------------------------------------------------
(* The engine: a call by name finds the container that has the name now.   *)

Named(n) == {i \in DOMAIN boxes : boxes[i].name = n}
Free(n) == Named(n) = {}
Exists(i) == boxes[i].name # "gone"

Stop(is) == [i \in DOMAIN boxes |-> IF i \in is THEN [boxes[i] EXCEPT !.state = "off"]
                                    ELSE boxes[i]]

Remove(is) == [i \in DOMAIN boxes |-> IF i \in is THEN [boxes[i] EXCEPT !.state = "off",
                                                                       !.name = "gone"]
                                      ELSE boxes[i]]

Rename(is, n) == [i \in DOMAIN boxes |-> IF i \in is THEN [boxes[i] EXCEPT !.name = n]
                                         ELSE boxes[i]]

New(n, new) == Append(boxes, [name |-> n, state |-> "off", new |-> new])

\* An update that runs in the container of a plane ends with it.
Running(us, bs) ==
    [u \in Updates |->
       IF component = "plane" /\ us[u].at \notin {"idle"} \cup Ended /\ bs[us[u].host].state = "off"
       THEN [us[u] EXCEPT !.at = "dead"] ELSE us[u]]

\* An update that is through with its components empties the cache, whether they succeeded or
\* not; only one that could not recreate Caddy does not get there.
Goto(u, bs, next) ==
    /\ updates' = Running([updates EXCEPT ![u].at = next], bs)
    /\ cache' = IF next = "done" THEN "none" ELSE cache
    /\ UNCHANGED <<component, refresh>>

\* A container of Caddy starts without a configuration.
Routed(bs) ==
    routed' = (routed /\ (component = "caddy" => \A i \in DOMAIN bs :
                             bs[i].state = "healthy" => boxes[i].state = "healthy"))

\* The engine turns the containers into bs and the update goes on at next.
Do(u, bs, next) == boxes' = bs /\ Routed(bs) /\ Goto(u, bs, next) /\ UNCHANGED faults

\* The call fails and the update goes on at next.
Fail(u, next) ==
    /\ faults < MaxFaults /\ faults' = faults + 1
    /\ Goto(u, boxes, next)
    /\ UNCHANGED <<boxes, routed>>

At(u, stage) == updates[u].at = stage
Id(u) == updates[u].id

-----------------------------------------------------------------------------
(* The request. *)

\* Does a container run an old version? A plane knows its own version; the version of another
\* component is that of the container that has its name.
UpdateAvailable(i) ==
    /\ boxes[i].state = "healthy" /\ ~boxes[i].new
    /\ component = "plane" \/ i \in Named("name")

AnyUpdateAvailable == \E i \in DOMAIN boxes : UpdateAvailable(i)

\* The refresh of the cache, by the ticker or for a request that found it empty: what it has
\* found may be old when it stores it. The container of a plane that is replaced takes its
\* cache with it.
FetchVersionInfo ==
    /\ component # "plane" /\ refresh = "idle"
    /\ refresh' = IF AnyUpdateAvailable THEN "available" ELSE "current"
    /\ UNCHANGED <<component, boxes, updates, cache, routed, faults>>

SetCache ==
    /\ refresh # "idle"
    /\ cache' = refresh /\ refresh' = "idle"
    /\ UNCHANGED <<component, boxes, updates, routed, faults>>

UpdateSelf(u) ==
    /\ At(u, "idle")
    /\ Cardinality({v \in Updates : updates[v].at \notin {"idle"} \cup Ended}) < MaxRunning
    /\ \E i \in DOMAIN boxes :
         UpdateAvailable(i) /\ updates' = [updates EXCEPT ![u].at = "pull", ![u].host = i]
    /\ cache' = IF component = "plane" THEN cache ELSE "available"
    /\ UNCHANGED <<component, boxes, refresh, routed, faults>>

\* After a pull that failed the update goes on with the image that is there.
Pull(u) ==
    /\ At(u, "pull")
    /\ \E new \in BOOLEAN :
         updates' = [updates EXCEPT ![u].new = new, ![u].at = IF component = "caddy" THEN "backup"
                                                       ELSE "inspect"]
    /\ UNCHANGED <<component, boxes, versionVars, routed, faults>>

\* Where an update ends that could not replace its component.
Failed == IF component = "caddy" THEN "failed" ELSE "done"

Inspect(u) ==
    /\ At(u, "inspect")
    /\ \/ Do(u, boxes, IF Free("name") THEN Failed ELSE IF component = "caddy" THEN "stop"
                       ELSE "clear")
       \/ Fail(u, Failed)

-----------------------------------------------------------------------------
(* blueGreenUpdate *)

RemoveGreen(u) ==
    At(u, "clear") /\ (Do(u, Remove(Named("green")), "create") \/ Fail(u, "create"))

CreateGreen(u) ==
    /\ At(u, "create")
    /\ \/ ~Free("green") /\ Do(u, boxes, "done")
       \/ /\ Free("green") /\ Len(boxes) < MaxBoxes
          /\ boxes' = New("green", updates[u].new)
          /\ updates' = [updates EXCEPT ![u].at = "start", ![u].id = Len(boxes) + 1]
          /\ UNCHANGED <<component, versionVars, routed, faults>>
       \/ Fail(u, "done")

StartGreen(u) ==
    /\ At(u, "start")
    /\ \/ ~Exists(Id(u)) /\ Do(u, boxes, "done")
       \/ Exists(Id(u)) /\ Do(u, [boxes EXCEPT ![Id(u)].state = "starting"], "health")
       \/ Fail(u, "rollback")

\* Mutant: the wait ends without an error when its time is over.
Mut_WaitHealthy(u) ==
    /\ At(u, "health")
    /\ \/ /\ boxes[Id(u)].state # "off"
          /\ Do(u, [boxes EXCEPT ![Id(u)].state = "healthy"],
                IF component = "plane" THEN "self1" ELSE "stop")
       \/ Do(u, boxes, IF component = "plane" THEN "self1" ELSE "stop")

\* waitContainerHealthy: a new container may turn out unhealthy, or take too long.
WaitHealthy(u) ==
    /\ At(u, "health")
    /\ \/ /\ boxes[Id(u)].state # "off"
          /\ Do(u, [boxes EXCEPT ![Id(u)].state = "healthy"],
                IF component = "plane" THEN "self1" ELSE "stop")
       \/ Do(u, boxes, "rollback")

Rollback(u) ==
    At(u, "rollback") /\ (Do(u, Remove({Id(u)}), "done") \/ Fail(u, "done"))

\* A rename that is refused, because the name is taken or the container is gone, changes
\* nothing, and its error is ignored.
RenameGreen(u, at, next) ==
    /\ At(u, at)
    /\ \/ Do(u, IF Free("name") /\ Exists(Id(u)) THEN Rename({Id(u)}, "name") ELSE boxes, next)
       \/ Fail(u, next)

RenameOld(u) ==
    /\ At(u, "self2")
    /\ \/ Do(u, IF Free("old") THEN Rename(Named("name"), "old") ELSE boxes, "self3")
       \/ Fail(u, "self3")

\* This ends the plane that runs the update.
RemoveOld(u) ==
    At(u, "self4") /\ (Do(u, Remove(Named("old")), "done") \/ Fail(u, "done"))

\* The other components: the old container goes before the new one takes its name.
StopNamed(u, at, next) ==
    At(u, at) /\ (Do(u, Stop(Named("name")), next) \/ Fail(u, next))

RemoveNamed(u, at, next, failed) ==
    At(u, at) /\ (Do(u, Remove(Named("name")), next) \/ Fail(u, failed))

TakeName(u) ==
    /\ At(u, "rename")
    /\ \/ Free("name") /\ Exists(Id(u)) /\ Do(u, Rename({Id(u)}, "name"), "stop again")
       \/ ~(Free("name") /\ Exists(Id(u))) /\ Do(u, boxes, "done")
       \/ Fail(u, "done")

\* The container with the ports, and that of Caddy, are created under the name itself.
Recreate(u) ==
    /\ At(u, "recreate")
    /\ \/ ~Free("name") /\ Do(u, boxes, Failed)
       \/ /\ Free("name") /\ Len(boxes) < MaxBoxes
          /\ boxes' = New("name", updates[u].new)
          /\ updates' = [updates EXCEPT ![u].at = "restart", ![u].id = Len(boxes) + 1]
          /\ UNCHANGED <<component, versionVars, routed, faults>>
       \/ Fail(u, Failed)

StartRecreated(u) ==
    /\ At(u, "restart")
    /\ \/ Do(u, IF Exists(Id(u)) THEN [boxes EXCEPT ![Id(u)].state = "healthy"] ELSE boxes,
             IF component = "caddy" THEN "wait" ELSE "done")
       \/ Fail(u, Failed)

-----------------------------------------------------------------------------
(* updateCaddy: the configuration is kept over the recreation, if Caddy    *)
(* answers before and after it.                                            *)

CaddyAnswers == \E i \in Named("name") : boxes[i].state = "healthy"

\* A failed backup does not stop the update.
BackupCaddyConfig(u) ==
    /\ At(u, "backup")
    /\ \/ /\ CaddyAnswers
          /\ updates' = [updates EXCEPT ![u].at = "inspect", ![u].kept = routed]
          /\ UNCHANGED <<component, boxes, versionVars, routed, faults>>
       \/ Fail(u, "inspect")

WaitCaddyHealthy(u) ==
    At(u, "wait") /\ ((CaddyAnswers /\ Do(u, boxes, "restore")) \/ Fail(u, "failed"))

RestoreCaddyConfig(u) ==
    /\ At(u, "restore")
    /\ \/ /\ CaddyAnswers
          /\ routed' = (routed \/ updates[u].kept)
          /\ Goto(u, boxes, "done")
          /\ UNCHANGED <<boxes, faults>>
       \/ Fail(u, "done")

-----------------------------------------------------------------------------

\* The process of the plane ends and its container is started again.
Crash ==
    /\ faults < MaxFaults /\ faults' = faults + 1
    /\ \E i \in DOMAIN boxes : updates' =
         [u \in Updates |-> IF updates[u].at \notin {"idle"} \cup Ended
                               /\ (updates[u].host = i \/ component # "plane")
                            THEN [updates[u] EXCEPT !.at = "dead"] ELSE updates[u]]
    /\ cache' = "none" /\ refresh' = "idle"
    /\ UNCHANGED <<component, boxes, routed>>

SelfStep(u) ==
    \/ RenameGreen(u, "self1", "self2") \/ RenameOld(u)
    \/ RenameGreen(u, "self3", "self4") \/ RemoveOld(u)

OtherStep(u) ==
    \/ StopNamed(u, "stop", "remove")
    \/ component = "ui" /\ RemoveNamed(u, "remove", "rename", "rename")
    \/ component = "caddy" /\ RemoveNamed(u, "remove", "recreate", "failed")
    \/ TakeName(u)
    \/ StopNamed(u, "stop again", "remove again")
    \/ RemoveNamed(u, "remove again", "recreate", "recreate")
    \/ Recreate(u) \/ StartRecreated(u)
    \/ BackupCaddyConfig(u) \/ WaitCaddyHealthy(u) \/ RestoreCaddyConfig(u)

Next ==
    \/ \E u \in Updates :
         \/ UpdateSelf(u) \/ Pull(u) \/ Inspect(u)
         \/ RemoveGreen(u) \/ CreateGreen(u) \/ StartGreen(u) \/ WaitHealthy(u) \/ Rollback(u)
         \/ SelfStep(u) \/ OtherStep(u)
    \/ FetchVersionInfo \/ SetCache
    \/ Crash

Spec == Init /\ [][Next]_vars

-----------------------------------------------------------------------------
(* Properties. *)

\* However the calls of the engine and the updates end, a container of the plane that was
\* found healthy runs.
PlaneStaysUp ==
    component = "plane" => \E i \in DOMAIN boxes : boxes[i].state = "healthy"
=============================================================================
