---------------------------- MODULE PodmanDriver ----------------------------
(***************************************************************************)
(* internal/infra/runtime/podman: what the driver makes of the answers of  *)
(* libpod's REST API. An answer is a record [lost, code, box]: lost says   *)
(* that the request failed in transport, box is the body of an inspect.    *)
(* libpod puts a "message" into the body of every answer from 400 on.      *)
(*                                                                         *)
(* An operation of one request is the set of answers it takes for success; *)
(* one of several is the step that follows an answer.                      *)
(***************************************************************************)
EXTENDS Engine

HasMessage(r) == r.code >= 400

\* client.getJSON
getJSON(r) == ~r.lost /\ r.code \in 200 .. 299

\* client.delete
delete(r) == ~r.lost /\ r.code \in 200 .. 299

\* client.post looks at no code: only a request that fails in transport is an error.
post(r) == ~r.lost

\* client.postExpect
postExpect(r, expected) == post(r) /\ r.code \in expected

-----------------------------------------------------------------------------
(* What the plane lists. *)

ListContainers(e) ==
    {[id |-> i, name |-> e.boxes[i].name, image |-> e.boxes[i].image,
      status |-> MapStatus(e.boxes[i].state)] : i \in {j \in Live(e) : ~e.boxes[j].hidden}}

\* GetContainer: an inspect, whose mounts are those of the one volume.
GetContainer(e, i) ==
    IF ~Exists(e, i) THEN {}
    ELSE {[id |-> i, name |-> e.boxes[i].name, image |-> e.boxes[i].image,
           status |-> MapStatus(e.boxes[i].state), mounts |-> ~e.boxes[i].hidden]}

\* The images all of whose containers are hidden.
internalImageIDs(e) ==
    {img \in Images :
        LET users == {i \in Live(e) : e.boxes[i].image = img}
        IN  users # {} /\ \A i \in users : e.boxes[i].hidden}

\* Only what has a tag is listed.
ListImages(e) ==
    {img \in Images : e.local[img] = "tagged"} \ internalImageIDs(e)

ListVolumes(e) == e.volume

-----------------------------------------------------------------------------
(* Operations of one request. *)

StartContainer(r) == post(r) /\ ~HasMessage(r)

StopContainer(r) == post(r) /\ ~HasMessage(r)

RestartContainer(r) == post(r) /\ ~HasMessage(r)

DeleteContainer(r) == delete(r)

\* Neither the code nor the body is looked at.
RenameContainer(r) == post(r)

DeleteImage(r) == delete(r) /\ r.code \in {200, 204}

CreateNetwork(r) == post(r) /\ r.code \in {200, 201}

DeleteNetwork(r) == delete(r) /\ r.code \in {200, 204}

CreateVolume(r) == postExpect(r, {201})

DeleteVolume(r) == delete(r) /\ r.code \in {200, 204}

-----------------------------------------------------------------------------
(* Operations of several requests. *)

Mut_CreateContainer(at, r) ==
    CASE at = "check"  -> IF getJSON(r) /\ r.code = 200 THEN "remove" ELSE "pull"
      [] at = "pull"   -> IF post(r) /\ r.code = 200 THEN "remove" ELSE "err"
      [] at = "remove" -> "create"
      [] at = "create" -> IF post(r) /\ ~HasMessage(r) THEN "start" ELSE "err"
      [] at = "start"  -> IF post(r) THEN "ok" ELSE "err"

\* CreateContainer asks for the image, pulls it if it is not there, removes what has the name
\* whatever the answer, creates and starts. A pull whose body tells of an error is a good pull.
CreateContainer(at, r) ==
    CASE at = "check"  -> IF getJSON(r) /\ r.code = 200 THEN "remove" ELSE "pull"
      [] at = "pull"   -> IF post(r) /\ r.code = 200 THEN "remove" ELSE "err"
      [] at = "remove" -> "create"
      [] at = "create" -> IF post(r) /\ ~HasMessage(r) THEN "start" ELSE "err"
      [] at = "start"  -> IF post(r) /\ ~HasMessage(r) THEN "ok" ELSE "err"

\* A limit below a limit that was set.
Reduces(new, old) == new # "none" /\ old # "none" /\ Order[new] < Order[old]

\* GetResources: an inspect again.
GetResources(r) == getJSON(r) /\ r.code = 200

\* isRunning: a container that cannot be inspected does not run.
isRunning(r) == getJSON(r) /\ r.box.state = "running"

\* UpdateResources reads the limits, sets the new ones, and when memory is reduced restarts
\* the container if it now runs. seen is the body of the first answer.
UpdateResources(at, r, seen, memory) ==
    CASE at = "read"    -> IF GetResources(r) THEN "update" ELSE "err"
      [] at = "update"  -> IF ~(post(r) /\ r.code \in {200, 201}) THEN "err"
                           ELSE IF Reduces(memory, seen.memory) THEN "running" ELSE "ok"
      [] at = "running" -> IF isRunning(r) THEN "restart" ELSE "ok"
      [] at = "restart" -> IF post(r) /\ r.code = 204 THEN "ok" ELSE "err"
=============================================================================
