---------------------------- MODULE DockerDriver ----------------------------
(***************************************************************************)
(* internal/infra/runtime/docker: what the driver makes of the answers of  *)
(* docker's client library, which turns every code from 400 on into an     *)
(* error. The form is that of PodmanDriver.                                *)
(***************************************************************************)
EXTENDS Engine

\* The error of docker's client library.
Good(r) == ~r.lost /\ r.code < 400

-----------------------------------------------------------------------------
(* What the plane lists. *)

\* mapStatus: every state it does not name is "stopped".
mapStatus(state) ==
    IF state \in {"running", "paused", "exited", "created"} THEN state ELSE "stopped"

ListContainers(e) ==
    {[id |-> i, name |-> e.boxes[i].name, image |-> e.boxes[i].image,
      status |-> mapStatus(e.boxes[i].state)] : i \in {j \in Live(e) : ~e.boxes[j].hidden}}

\* GetContainer: an inspect, whose mounts are those of the one volume.
GetContainer(e, i) ==
    IF ~Exists(e, i) THEN {}
    ELSE {[id |-> i, name |-> e.boxes[i].name, image |-> e.boxes[i].image,
           status |-> mapStatus(e.boxes[i].state), mounts |-> ~e.boxes[i].hidden]}

\* Only what has a tag is listed, and nothing that a hidden container uses.
ListImages(e) ==
    {img \in Images : e.local[img] = "tagged"}
        \ {e.boxes[i].image : i \in {j \in Live(e) : e.boxes[j].hidden}}

ListVolumes(e) == e.volume

-----------------------------------------------------------------------------
(* Operations. *)

\* CreateContainer asks for the image, pulls it if it is not there, looks for a container of
\* the name and removes the one it found whatever the answer, creates and starts. The body of
\* the pull is read and thrown away.
CreateContainer(at, r) ==
    CASE at = "check"   -> IF Good(r) THEN "inspect" ELSE "pull"
      [] at = "pull"    -> IF Good(r) THEN "inspect" ELSE "err"
      [] at = "inspect" -> IF Good(r) THEN "remove" ELSE "create"
      [] at = "remove"  -> "create"
      [] at = "create"  -> IF Good(r) THEN "start" ELSE "err"
      [] at = "start"   -> IF Good(r) THEN "ok" ELSE "err"

\* A limit below a limit that was set.
Reduces(new, old) == new # "none" /\ old # "none" /\ Order[new] < Order[old]

\* UpdateResources inspects the container, sets the limits, and when memory is reduced restarts
\* the container if it ran when it was inspected.
UpdateResources(at, r, seen, memory) ==
    CASE at = "read"    -> IF Good(r) THEN "update" ELSE "err"
      [] at = "update"  -> IF ~Good(r) THEN "err"
                           ELSE IF Reduces(memory, seen.memory) /\ seen.state = "running"
                                THEN "restart" ELSE "ok"
      [] at = "restart" -> IF Good(r) THEN "ok" ELSE "err"
=============================================================================
