------------------------------- MODULE Engine -------------------------------
(***************************************************************************)
(* The container engine, docker or podman, as the plane uses it through    *)
(* its API: containers, images, one network and one volume. It is not      *)
(* part of the repository. A request either changes the state and is       *)
(* answered by a code below 400, or leaves it and is answered by 404, 409  *)
(* or 500.                                                                 *)
(*                                                                         *)
(* The types are those of internal/infra/runtime, cut down to what tells   *)
(* one call from another: ports, environment, labels other than the one    *)
(* that hides a container, and sizes are left out.                         *)
(***************************************************************************)
EXTENDS Naturals, Sequences, FiniteSets

CONSTANTS Names, Images

\* ContainerSpec's and Container's fields that matter. Every container the plane creates is
\* attached to the network and mounts the volume; "gone" is a container that was removed.
Box == [name : Names, image : Images, state : {"created", "running", "exited", "gone"},
        hidden : BOOLEAN, memory : {"none", "low", "high"}]

\* An image is local under its tag, or under no tag any more since the tag has moved on.
Engines == [boxes : Seq(Box), local : [Images -> {"absent", "tagged", "untagged"}],
            net : BOOLEAN, volume : BOOLEAN]

Exists(e, i) == i \in DOMAIN e.boxes /\ e.boxes[i].state # "gone"
Live(e) == {i \in DOMAIN e.boxes : Exists(e, i)}

\* The container a name or an id of the API stands for; 0 is none.
Find(e, name) ==
    IF \E i \in Live(e) : e.boxes[i].name = name
    THEN CHOOSE i \in Live(e) : e.boxes[i].name = name ELSE 0

\* Limits, by size.
Order == [none |-> 0, low |-> 1, high |-> 2]

\* What a request comes to: the engine after it and the code of the answer.
Done(e, code) == [engine |-> e, code |-> code]
Refused(e, codes) == {Done(e, code) : code \in codes}

SetState(e, i, s) == [e EXCEPT !.boxes[i].state = s]

EngineCreate(e, name, image) ==
    IF Find(e, name) # 0 THEN Refused(e, {409})
    ELSE IF e.local[image] # "tagged" \/ ~e.net THEN Refused(e, {404})
    ELSE Refused(e, {500})
         \cup {Done([e EXCEPT !.boxes = Append(@, [name |-> name, image |-> image,
                        state |-> "created", hidden |-> FALSE, memory |-> "none"]),
                     !.volume = TRUE], 201)}

EngineStart(e, i) ==
    IF ~Exists(e, i) THEN Refused(e, {404})
    ELSE IF e.boxes[i].state = "running" THEN Refused(e, {304})
    ELSE Refused(e, {500}) \cup {Done(SetState(e, i, "running"), 204)}

EngineStop(e, i) ==
    IF ~Exists(e, i) THEN Refused(e, {404})
    ELSE IF e.boxes[i].state # "running" THEN Refused(e, {304})
    ELSE Refused(e, {500}) \cup {Done(SetState(e, i, "exited"), 204)}

EngineRestart(e, i) ==
    IF ~Exists(e, i) THEN Refused(e, {404})
    ELSE Refused(e, {500}) \cup {Done(SetState(e, i, "running"), 204)}

EngineDelete(e, i, force) ==
    IF ~Exists(e, i) THEN Refused(e, {404})
    ELSE IF e.boxes[i].state = "running" /\ ~force THEN Refused(e, {409})
    ELSE {Done(SetState(e, i, "gone"), 200)}

EngineRename(e, i, new) ==
    IF ~Exists(e, i) THEN Refused(e, {404})
    ELSE IF Find(e, new) # 0 THEN Refused(e, {409})
    ELSE {Done([e EXCEPT !.boxes[i].name = new], 204)}

\* A limit is set on a container. Docker takes "no limit" for "no change".
EngineUpdate(e, i, memory, keep) ==
    IF ~Exists(e, i) THEN Refused(e, {404})
    ELSE Refused(e, {500})
         \cup {Done([e EXCEPT !.boxes[i].memory = IF keep THEN @ ELSE memory], 201)}

\* A pull reports what goes wrong after it has begun within its body, under a good code.
EnginePull(e, image) ==
    Refused(e, {200, 500}) \cup {Done([e EXCEPT !.local[image] = "tagged"], 200)}

EngineDeleteImage(e, image) ==
    IF e.local[image] = "absent" THEN Refused(e, {404})
    ELSE IF \E i \in Live(e) : e.boxes[i].image = image THEN Refused(e, {409})
    ELSE {Done([e EXCEPT !.local[image] = "absent"], 200)}

EngineCreateNetwork(e) ==
    IF e.net THEN Refused(e, {409}) ELSE {Done([e EXCEPT !.net = TRUE], 201)}

EngineDeleteNetwork(e) ==
    IF ~e.net THEN Refused(e, {404})
    ELSE IF \E i \in Live(e) : ~e.boxes[i].hidden THEN Refused(e, {409})
    ELSE {Done([e EXCEPT !.net = FALSE], 204)}

EngineCreateVolume(e) == {Done([e EXCEPT !.volume = TRUE], 201)}

EngineDeleteVolume(e) ==
    IF ~e.volume THEN Refused(e, {404})
    ELSE IF \E i \in Live(e) : ~e.boxes[i].hidden THEN Refused(e, {409})
    ELSE {Done([e EXCEPT !.volume = FALSE], 204)}

-----------------------------------------------------------------------------
(* internal/infra/runtime: what both drivers share. *)

\* MapStatus: the state an engine names, as a status of the plane. ("configured" is podman's
\* word for "created".)
MapStatus(state) ==
    CASE state \in {"running", "exited", "dead", "stopped", "restarting", "paused"} -> state
      [] state \in {"created", "configured"} -> "created"
      [] OTHER -> "unknown"
=============================================================================
