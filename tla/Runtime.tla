------------------------------ MODULE Runtime ------------------------------
(***************************************************************************)
(* The container runtime of the plane: calls of runtime.Runtime that run   *)
(* next to each other, through either driver, and the periodic clean-up    *)
(* job, on an engine that refuses requests and on a connection that loses  *)
(* them. What the drivers make of an answer is in DockerDriver and         *)
(* PodmanDriver; here are the requests they send, one step each.           *)
(***************************************************************************)
EXTENDS Engine

CONSTANTS
    Calls,      \* calls of the runtime, each made at most once
    Ops,        \* the operations they may be of
    MaxBoxes,   \* bound: containers ever made
    MaxFaults   \* bound: requests lost or refused for no reason of the state

RuntimeAssumption ==
    /\ Ops \subseteq {"create", "start", "stop", "restart", "delete", "rename", "update",
                      "deleteImage", "createNetwork", "deleteNetwork", "createVolume",
                      "deleteVolume"}
    /\ MaxBoxes \in Nat \ {0} /\ MaxFaults \in Nat

VARIABLES
    driver,     \* "docker" or "podman"
    engine,     \* the engine's state
    calls,      \* the calls: what was asked, where they are, and whether the engine did it
    cleanup,    \* the clean-up job
    faults

vars == <<driver, engine, calls, cleanup, faults>>

D == INSTANCE DockerDriver
P == INSTANCE PodmanDriver

Idle == [op |-> "none", at |-> "idle", name |-> "none", image |-> "none", memory |-> "none",
         id |-> 0, seen |-> "none", done |-> FALSE]

NotBegun == [at |-> "idle", left |-> {}, mounted |-> FALSE]

\* Operations of one request.
Single == {"start", "stop", "restart", "delete", "rename", "deleteImage", "createNetwork",
           "deleteNetwork", "createVolume", "deleteVolume"}

Stages == {"idle", "send", "check", "pull", "inspect", "remove", "create", "start", "read",
           "update", "running", "restart", "ok", "err"}

TypeOK ==
    /\ driver \in {"docker", "podman"}
    /\ engine \in Engines /\ Len(engine.boxes) <= MaxBoxes
    /\ \A c \in Calls :
         /\ calls[c].op \in Ops \cup {"none"} /\ calls[c].at \in Stages
         /\ calls[c].id \in 0 .. MaxBoxes /\ calls[c].done \in BOOLEAN
    /\ cleanup.at \in {"idle", "containers", "images", "volumes", "done"}
    /\ cleanup.mounted \in BOOLEAN
    /\ faults \in 0 .. MaxFaults

\* A hidden container of the plane's own runs from the start.
Init ==
    /\ driver \in {"docker", "podman"}
    /\ \E name \in Names, image \in Images :
         engine = [boxes |-> <<[name |-> name, image |-> image, state |-> "running",
                                hidden |-> TRUE, memory |-> "none"]>>,
                   local |-> [i \in Images |-> IF i = image THEN "tagged" ELSE "absent"],
                   net |-> TRUE, volume |-> FALSE]
    /\ calls = [c \in Calls |-> Idle]
    /\ cleanup = NotBegun /\ faults = 0

\* What a request may come to: the engine's outcome is one of outcomes, and the answer arrives
\* or the connection fails, before the engine has seen the request or after. r is what the
\* driver gets, done says whether the engine has carried the request out.
Answers(c, outcomes) ==
    LET id == calls[c].id
        box == IF id \in DOMAIN engine.boxes THEN engine.boxes[id] ELSE "none"
        Fault(o, lost) == IF lost \/ o.code = 500 THEN 1 ELSE 0
        Answer(o, lost, reached) ==
            [engine |-> IF reached THEN o.engine ELSE engine, fault |-> Fault(o, lost),
             r |-> [lost |-> lost, code |-> o.code, box |-> box],
             done |-> reached /\ o.code < 400]
    IN  {a \in {Answer(o, FALSE, TRUE) : o \in outcomes}
              \cup {Answer(o, TRUE, reached) : o \in outcomes, reached \in BOOLEAN} :
            faults + a.fault <= MaxFaults /\ Len(a.engine.boxes) <= MaxBoxes}

Gets(c, a, call) ==
    /\ engine' = a.engine /\ faults' = faults + a.fault
    /\ calls' = [calls EXCEPT ![c] = call]
    /\ UNCHANGED <<driver, cleanup>>

-----------------------------------------------------------------------------
(* The calls. *)

\* Where a call begins.
FirstStage(op) ==
    CASE op \in Single -> "send" [] op = "create" -> "check" [] op = "update" -> "read"

\* A caller asks for an operation. Containers are named; the hidden one is nobody's business.
Begin(c) ==
    /\ calls[c] = Idle
    /\ \E op \in Ops, name \in Names, image \in Images, memory \in {"none", "low", "high"} :
         /\ op \in {"create", "deleteImage"} \/ image = CHOOSE i \in Images : TRUE
         /\ op = "update" \/ memory = "none"
         /\ engine.boxes[1].name # name
         /\ calls' = [calls EXCEPT ![c] =
              [op |-> op, at |-> FirstStage(op), name |-> name, image |-> image,
               memory |-> memory, id |-> Find(engine, name), seen |-> "none",
               done |-> FALSE]]
    /\ UNCHANGED <<driver, engine, cleanup, faults>>

Outcomes(call) ==
    LET i == Find(engine, call.name)
    IN  CASE call.op = "start"         -> EngineStart(engine, i)
          [] call.op = "stop"          -> EngineStop(engine, i)
          [] call.op = "restart"       -> EngineRestart(engine, i)
          [] call.op = "delete"        -> EngineDelete(engine, i, TRUE)
          [] call.op = "rename"        ->
               UNION {EngineRename(engine, i, n) : n \in Names \ {call.name}}
          [] call.op = "deleteImage"   -> EngineDeleteImage(engine, call.image)
          [] call.op = "createNetwork" -> EngineCreateNetwork(engine)
          [] call.op = "deleteNetwork" -> EngineDeleteNetwork(engine)
          [] call.op = "createVolume"  -> EngineCreateVolume(engine)
          [] call.op = "deleteVolume"  -> EngineDeleteVolume(engine)

\* Whether podman's driver takes the answer for success.
PodmanTakes(op, r) ==
    CASE op = "start" -> P!StartContainer(r)
      [] op = "stop" -> P!StopContainer(r)
      [] op = "restart" -> P!RestartContainer(r)
      [] op = "delete" -> P!DeleteContainer(r)
      [] op = "rename" -> P!RenameContainer(r)
      [] op = "deleteImage" -> P!DeleteImage(r)
      [] op = "createNetwork" -> P!CreateNetwork(r)
      [] op = "deleteNetwork" -> P!DeleteNetwork(r)
      [] op = "createVolume" -> P!CreateVolume(r)
      [] op = "deleteVolume" -> P!DeleteVolume(r)

Operation(c) ==
    /\ calls[c].at = "send"
    /\ \E a \in Answers(c, Outcomes(calls[c])) :
         Gets(c, a, [calls[c] EXCEPT
            !.at = IF (driver = "podman" /\ PodmanTakes(calls[c].op, a.r))
                      \/ (driver = "docker" /\ D!Good(a.r)) THEN "ok" ELSE "err",
            !.done = a.done])

\* What each step of CreateContainer asks of the engine.
CreateOutcomes(call) ==
    CASE call.at = "check"   -> Refused(engine, {IF engine.local[call.image] = "tagged"
                                                 THEN 200 ELSE 404})
      [] call.at = "pull"    -> EnginePull(engine, call.image)
      [] call.at = "inspect" -> Refused(engine, {IF Find(engine, call.name) = 0
                                                 THEN 404 ELSE 200})
      [] call.at = "remove"  -> EngineDelete(engine, IF driver = "docker" THEN call.id
                                                     ELSE Find(engine, call.name), TRUE)
      [] call.at = "create"  -> EngineCreate(engine, call.name, call.image)
      [] call.at = "start"   -> EngineStart(engine, call.id)

\* The container a step leads to: the one docker's inspect found, the one that was created.
CreateId(call) ==
    CASE call.at = "inspect" -> Find(engine, call.name)
      [] call.at = "create"  -> Len(engine.boxes) + 1
      [] OTHER -> call.id

CreateContainer(c) ==
    /\ calls[c].op = "create" /\ calls[c].at \notin {"ok", "err"}
    /\ \E a \in Answers(c, CreateOutcomes(calls[c])) :
         Gets(c, a, [calls[c] EXCEPT
            !.at = IF driver = "docker" THEN D!CreateContainer(@, a.r)
                                        ELSE P!CreateContainer(@, a.r),
            !.id = IF a.r.lost \/ a.r.code >= 400 THEN @ ELSE CreateId(calls[c]),
            !.done = calls[c].at = "start" /\ a.done])

\* What each step of UpdateResources asks of the engine.
UpdateOutcomes(call) ==
    CASE call.at \in {"read", "running"} ->
           Refused(engine, {IF Exists(engine, call.id) THEN 200 ELSE 404})
      [] call.at = "update"  ->
           EngineUpdate(engine, call.id, call.memory,
                        driver = "docker" /\ call.memory = "none")
      [] call.at = "restart" -> EngineRestart(engine, call.id)

UpdateResources(c) ==
    /\ calls[c].op = "update" /\ calls[c].at \notin {"ok", "err"}
    /\ \E a \in Answers(c, UpdateOutcomes(calls[c])) :
         LET seen == IF calls[c].at = "read" THEN a.r.box ELSE calls[c].seen
         IN  Gets(c, a, [calls[c] EXCEPT
                !.at = IF driver = "docker"
                       THEN D!UpdateResources(@, a.r, seen, calls[c].memory)
                       ELSE P!UpdateResources(@, a.r, seen, calls[c].memory),
                !.seen = seen,
                !.done = IF calls[c].at # "update" THEN @
                         ELSE a.done /\ ~(driver = "docker" /\ calls[c].memory = "none")])

-----------------------------------------------------------------------------
(* RuntimeCleanupWorker. *)

Lists == IF driver = "docker" THEN D!ListContainers(engine) ELSE P!ListContainers(engine)

Inspected(i) ==
    IF driver = "docker" THEN D!GetContainer(engine, i) ELSE P!GetContainer(engine, i)

\* The job begins with a list of the containers and of the volumes they mount, and works from
\* it until it ends. What mounts a container has whose inspection fails it does not know.
CleanupLists ==
    /\ cleanup = NotBegun
    /\ \E known \in SUBSET Lists :
         /\ faults' = faults + (IF known = Lists THEN 0 ELSE 1) /\ faults' <= MaxFaults
         /\ cleanup' = [at |-> "containers", left |-> Lists,
                        mounted |-> \E v \in known : \E d \in Inspected(v.id) : d.mounts]
    /\ UNCHANGED <<driver, engine, calls>>

Mut_CleanupContainers ==
    /\ cleanup.at = "containers"
    /\ \/ \E v \in cleanup.left :
            /\ cleanup' = [cleanup EXCEPT !.left = @ \ {v}]
            /\ \/ engine' = engine
               \/ /\ v.status \notin {"running", "paused"}
                  /\ \E o \in EngineDelete(engine, v.id, TRUE) : engine' = o.engine
       \/ cleanup.left = {} /\ cleanup' = [cleanup EXCEPT !.at = "images"] /\ engine' = engine
    /\ UNCHANGED <<driver, calls, faults>>

\* A container that was neither running nor paused on the list, and is old enough (a free
\* choice here), is deleted, but not by force. What an answer says is only counted.
CleanupContainers ==
    /\ cleanup.at = "containers"
    /\ \/ \E v \in cleanup.left :
            /\ cleanup' = [cleanup EXCEPT !.left = @ \ {v}]
            /\ \/ engine' = engine
               \/ /\ v.status \notin {"running", "paused"}
                  /\ \E o \in EngineDelete(engine, v.id, FALSE) : engine' = o.engine
       \/ cleanup.left = {} /\ cleanup' = [cleanup EXCEPT !.at = "images"] /\ engine' = engine
    /\ UNCHANGED <<driver, calls, faults>>

\* Of the images the driver lists, the old ones without a tag. The drivers list none.
Dangling ==
    {img \in IF driver = "docker" THEN D!ListImages(engine) ELSE P!ListImages(engine) :
        engine.local[img] = "untagged"}

CleanupImages ==
    /\ cleanup.at = "images"
    /\ \E removed \in SUBSET Dangling :
         engine' = [engine EXCEPT !.local =
                      [i \in Images |-> IF i \in removed THEN "absent" ELSE @[i]]]
    /\ cleanup' = [cleanup EXCEPT !.at = "volumes"]
    /\ UNCHANGED <<driver, calls, faults>>

\* An old volume that no container is known to mount is deleted; the engine keeps one in use.
CleanupVolumes ==
    /\ cleanup.at = "volumes"
    /\ \/ engine' = engine
       \/ /\ IF driver = "docker" THEN D!ListVolumes(engine) ELSE P!ListVolumes(engine)
          /\ ~cleanup.mounted
          /\ \E o \in EngineDeleteVolume(engine) : engine' = o.engine
    /\ cleanup' = [cleanup EXCEPT !.at = "done", !.mounted = FALSE]
    /\ UNCHANGED <<driver, calls, faults>>

-----------------------------------------------------------------------------
(* What goes on without the plane. *)

\* A process ends, a tag moves on to a newer image.
Exits ==
    /\ \E i \in Live(engine) :
         /\ engine.boxes[i].state = "running" /\ ~engine.boxes[i].hidden
         /\ engine' = SetState(engine, i, "exited")
    /\ UNCHANGED <<driver, calls, cleanup, faults>>

TagMoves ==
    /\ \E i \in Images :
         engine.local[i] = "tagged" /\ engine' = [engine EXCEPT !.local[i] = "untagged"]
    /\ UNCHANGED <<driver, calls, cleanup, faults>>

Next ==
    \/ \E c \in Calls :
         Begin(c) \/ Operation(c) \/ CreateContainer(c) \/ UpdateResources(c)
    \/ CleanupLists \/ CleanupContainers \/ CleanupImages \/ CleanupVolumes
    \/ Exits \/ TagMoves

Spec == Init /\ [][Next]_vars

-----------------------------------------------------------------------------
(* What is checked. *)

\* Two gaps in the drivers: podman's rename looks at no answer, and a limit that is lifted is no
\* change to docker.
Gap(call) ==
    \/ driver = "podman" /\ call.op = "rename"
    \/ driver = "docker" /\ call.op = "update" /\ call.memory = "none"

\* A call that returned without an error was carried out by the engine: a container that was
\* created was started, one that was stopped was stopped, a limit that was set was set, whatever
\* was refused, lost in transport, or removed under its hands by another caller or the clean-up
\* in between. The gaps named above are left out.
AnsweredOkIsDone ==
    \A c \in Calls : calls[c].at = "ok" /\ ~Gap(calls[c]) => calls[c].done

\* The clean-up works from a list that is old by the time it deletes: a container that has been
\* started since, and the image and the volume of a container that exists, it does not take.
CleanupSpares ==
    cleanup' # cleanup =>
      /\ \A i \in Live(engine) :
           engine.boxes[i].state = "running" => engine'.boxes[i] = engine.boxes[i]
      /\ \A i \in Live(engine') :
           /\ engine'.local[engine'.boxes[i].image] = engine.local[engine'.boxes[i].image]
           /\ engine.volume /\ ~engine.boxes[i].hidden => engine'.volume

CleanupSparesWhatIsUsed == [][CleanupSpares]_vars
=============================================================================
