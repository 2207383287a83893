---------------------------- MODULE ImageUpdates ----------------------------
(***************************************************************************)
(* How a new image of a service is found and rolled out: the job that asks *)
(* the registry for digests, and the reconciler's loop over one service    *)
(* with the strategy "rolling".                                            *)
(*                                                                         *)
(* A digest is the number of a published image, 0 the empty digest. Only   *)
(* an update writes deployed_digest, and only a row that has one is found  *)
(* to drift; rows that have one at the start come from another source.     *)
(* A container is created from the image that the engine already holds     *)
(* under the same name: it is pulled only when there is none.              *)
(***************************************************************************)
EXTENDS Naturals, Sequences, FiniteSets

CONSTANTS
    Replicas,       \* the desired number of replicas
    MaxDigest,      \* bound: images published
    MaxBoxes,       \* bound: containers created
    MaxFaults       \* bound: calls that fail, containers that exit, restarts of the plane

ImageAssumption ==
    Replicas \in Nat \ {0} /\ MaxDigest \in Nat \ {0} /\ MaxBoxes \in Nat /\ MaxFaults \in Nat

VARIABLES
    published,  \* the digest the registry answers with
    held,       \* the image the engine holds under that name, or 0
    row,        \* status, deployed_digest and remote_digest of the service
    boxes,      \* its containers in the order of their creation, with the image of each
    poll,       \* the polling job: the digest it got and the deployed_digest it read
    rec,        \* the reconciler: where it is, the row it read, the replicas it still has
                \* to replace, the one it replaces now, the new container
    floor,      \* replicas that ran when the update began and did not exit since
    faults

vars == <<published, held, row, boxes, poll, rec, floor, faults>>

Digests == 0 .. MaxDigest

Updating == {"create", "wait", "stop", "delete", "failed"}

Idle == [at |-> "idle", remote |-> 0, deployed |-> 0, old |-> {}, current |-> 0, new |-> 0,
         missing |-> 0]

TypeOK ==
    /\ published \in Digests \ {0} /\ held \in Digests
    /\ row \in [status : {"running", "deploying", "failed"}, deployed : Digests, remote : Digests,
                available : BOOLEAN]
    /\ boxes \in Seq([state : {"running", "down", "gone"}, image : Digests])
    /\ poll \in [at : {"idle", "fetch", "store"}, digest : Digests, deployed : Digests]
    /\ rec.at \in Updating \cup {"idle", "diff", "heal", "heal create"}
    /\ rec.remote \in Digests /\ rec.missing \in 0 .. Replicas
    /\ floor \in 0 .. Len(boxes) /\ faults \in 0 .. MaxFaults

Init ==
    /\ published = 1 /\ held = 1
    /\ row \in [status : {"running"}, deployed : {0, 1}, remote : {0}, available : {FALSE}]
    /\ boxes = [i \in 1 .. Replicas |-> [state |-> "running", image |-> 1]]
    /\ poll = [at |-> "idle", digest |-> 0, deployed |-> 0]
    /\ rec = Idle
    /\ floor = 0 /\ faults = 0

Fault == faults < MaxFaults /\ faults' = faults + 1

Present == {i \in DOMAIN boxes : boxes[i].state # "gone"}

\* countRunning
Running == {i \in DOMAIN boxes : boxes[i].state = "running"}

-----------------------------------------------------------------------------
(* UpdateCheckWorker *)

Push ==
    /\ published < MaxDigest /\ published' = published + 1
    /\ UNCHANGED <<held, row, boxes, poll, rec, floor, faults>>

PollDigests ==
    /\ poll.at = "idle" /\ row.status = "running"
    /\ poll' = [at |-> "fetch", digest |-> 0, deployed |-> row.deployed]
    /\ UNCHANGED <<published, held, row, boxes, rec, floor, faults>>

\* A registry that does not answer is asked again in the next cycle.
FetchDigest ==
    /\ poll.at = "fetch"
    /\ \/ poll' = [poll EXCEPT !.at = "store", !.digest = published] /\ UNCHANGED faults
       \/ Fault /\ poll' = [poll EXCEPT !.at = "idle"]
    /\ UNCHANGED <<published, held, row, boxes, rec, floor>>

\* The flag is about the deployed_digest that was read before the request.
StoreDigest ==
    /\ poll.at = "store"
    /\ row' = [row EXCEPT !.remote = poll.digest,
                          !.available = @ \/ poll.digest # poll.deployed]
    /\ poll' = [poll EXCEPT !.at = "idle"]
    /\ UNCHANGED <<published, held, boxes, rec, floor, faults>>

-----------------------------------------------------------------------------
(* The calls of the engine. *)

\* CreateContainer pulls the image if there is none and starts the container.
Create ==
    /\ Len(boxes) < MaxBoxes
    /\ held' = IF held = 0 THEN published ELSE held
    /\ boxes' = Append(boxes, [state |-> "running", image |-> held'])

CreateFails == Fault /\ UNCHANGED <<held, boxes>>

Set(i, state) == [boxes EXCEPT ![i].state = state]

-----------------------------------------------------------------------------
(* Reconciler.reconcileAll: the rows are read, then the containers. *)

RecQuery ==
    /\ rec.at = "idle" /\ row.status # "deploying"
    /\ rec' = [Idle EXCEPT !.at = "diff", !.remote = row.remote, !.deployed = row.deployed]
    /\ UNCHANGED <<published, held, row, boxes, poll, floor, faults>>

\* HasImageDrift of the row that was read: both digests are known and differ.
HasImageDrift == rec.deployed # 0 /\ rec.remote # 0 /\ rec.deployed # rec.remote

\* What diff decides: without a running container it heals, with drift it updates, and otherwise
\* it looks at the number of replicas.
DiffHeal ==
    /\ rec.at = "diff" /\ Running = {}
    /\ rec' = [rec EXCEPT !.at = "heal"]
    /\ UNCHANGED <<published, held, row, boxes, poll, floor, faults>>

\* update sets the status and lists the containers that it will replace, also those that do
\* not run.
DiffUpdate ==
    /\ rec.at = "diff" /\ Running # {} /\ HasImageDrift
    /\ row' = [row EXCEPT !.status = "deploying"]
    /\ LET count == Cardinality(Present)
       IN  rec' = [rec EXCEPT !.at = "create", !.old = Present,
                              !.missing = IF count < Replicas THEN Replicas - count ELSE 0]
    /\ floor' = Cardinality(Running)
    /\ UNCHANGED <<published, held, boxes, poll, faults>>

Steady == rec.at = "diff" /\ Running # {} /\ ~HasImageDrift

ScaleUp ==
    /\ Steady /\ Cardinality(Running) < Replicas
    /\ (Create /\ UNCHANGED faults) \/ CreateFails
    /\ rec' = Idle
    /\ UNCHANGED <<published, row, poll, floor>>

\* One of the containers, running or not, is stopped and deleted.
ScaleDown ==
    /\ Steady /\ Cardinality(Running) > Replicas
    /\ \E i \in Present : boxes' = Set(i, "gone")
    /\ rec' = Idle
    /\ UNCHANGED <<published, held, row, poll, floor, faults>>

DiffNoop ==
    /\ Steady /\ Cardinality(Running) = Replicas
    /\ rec' = Idle
    /\ UNCHANGED <<published, held, row, boxes, poll, floor, faults>>

\* heal: a container that came back ends it; otherwise all are removed and one is created.
Heal ==
    /\ rec.at = "heal"
    /\ IF Running # {}
       THEN /\ row' = [row EXCEPT !.status = "running"] /\ rec' = Idle
            /\ UNCHANGED boxes
       ELSE /\ boxes' = [i \in DOMAIN boxes |-> [boxes[i] EXCEPT !.state = "gone"]]
            /\ rec' = [rec EXCEPT !.at = "heal create"]
            /\ UNCHANGED row
    /\ UNCHANGED <<published, held, poll, floor, faults>>

HealCreate ==
    /\ rec.at = "heal create"
    /\ \/ Create /\ row' = [row EXCEPT !.status = "running"] /\ UNCHANGED faults
       \/ CreateFails /\ row' = [row EXCEPT !.status = "failed"]
    /\ rec' = Idle
    /\ UNCHANGED <<published, poll, floor>>

-----------------------------------------------------------------------------
(* Reconciler.rolling: one replica after the other, in the order in which  *)
(* the engine listed them, which may be any.                               *)

CreateReplica ==
    /\ rec.at = "create" /\ rec.old # {}
    /\ \/ /\ Create
          /\ \E i \in rec.old :
               rec' = [rec EXCEPT !.at = "wait", !.old = @ \ {i}, !.current = i,
                                  !.new = Len(boxes')]
          /\ UNCHANGED faults
       \/ CreateFails /\ rec' = [rec EXCEPT !.at = "failed"]
    /\ UNCHANGED <<published, row, poll, floor>>

\* Mutant: a replica that exited during its start counts as one that is up.
Mut_WaitHealthy ==
    /\ rec.at = "wait"
    /\ rec' = [rec EXCEPT !.at = "stop"]
    /\ UNCHANGED <<published, held, row, boxes, poll, floor, faults>>

\* A new replica that is not up, or that cannot be looked at, is removed, and the rollout ends.
WaitHealthy ==
    /\ rec.at = "wait"
    /\ \/ /\ boxes[rec.new].state = "running"
          /\ rec' = [rec EXCEPT !.at = "stop"]
          /\ UNCHANGED <<boxes, faults>>
       \/ /\ boxes[rec.new].state = "down"
          /\ rec' = [rec EXCEPT !.at = "failed"]
          /\ \/ boxes' = Set(rec.new, "gone") /\ UNCHANGED faults
             \/ Fault /\ UNCHANGED boxes
       \/ /\ Fault /\ rec' = [rec EXCEPT !.at = "failed"]
          /\ boxes' = Set(rec.new, "gone")
    /\ UNCHANGED <<published, held, row, poll, floor>>

StopOld ==
    /\ rec.at = "stop"
    /\ rec' = [rec EXCEPT !.at = "delete"]
    /\ \/ boxes' = Set(rec.current, "down") /\ UNCHANGED faults
       \/ Fault /\ UNCHANGED boxes
    /\ UNCHANGED <<published, held, row, poll, floor>>

DeleteOld ==
    /\ rec.at = "delete"
    /\ rec' = [rec EXCEPT !.at = "create"]
    /\ \/ boxes' = Set(rec.current, "gone") /\ UNCHANGED faults
       \/ Fault /\ UNCHANGED boxes
    /\ UNCHANGED <<published, held, row, poll, floor>>

\* The replicas that are missing are created when all are replaced; a failure is only logged.
CreateMissing ==
    /\ rec.at = "create" /\ rec.old = {} /\ rec.missing > 0
    /\ rec' = [rec EXCEPT !.missing = @ - 1]
    /\ (Create /\ UNCHANGED faults) \/ CreateFails
    /\ UNCHANGED <<published, row, poll, floor>>

\* The digest that is recorded is the one the registry had, whatever image the replicas run.
UpdateCommit ==
    /\ rec.at = "create" /\ rec.old = {} /\ rec.missing = 0
    /\ row' = [row EXCEPT !.status = "running", !.deployed = rec.remote, !.available = FALSE]
    /\ rec' = Idle
    /\ UNCHANGED <<published, held, boxes, poll, floor, faults>>

UpdateFails ==
    /\ rec.at = "failed"
    /\ row' = [row EXCEPT !.status = "failed"]
    /\ rec' = Idle
    /\ UNCHANGED <<published, held, boxes, poll, floor, faults>>

-----------------------------------------------------------------------------

Exit ==
    /\ Fault
    /\ \E i \in Running :
         /\ boxes' = Set(i, "down")
         /\ floor' = IF floor = 0 \/ (rec.at = "wait" /\ i = rec.new) THEN floor ELSE floor - 1
    /\ UNCHANGED <<published, held, row, poll, rec>>

\* The process of the plane ends in the middle of an update: the row stays at "deploying".
Crash ==
    /\ Fault
    /\ rec' = Idle /\ poll' = [poll EXCEPT !.at = "idle"]
    /\ UNCHANGED <<published, held, row, boxes, floor>>

\* The cleanup of images that no container uses.
RemoveImage ==
    /\ held # 0 /\ Present = {} /\ held' = 0
    /\ UNCHANGED <<published, row, boxes, poll, rec, floor, faults>>

PollStep == PollDigests \/ FetchDigest \/ StoreDigest

RollingStep == CreateReplica \/ WaitHealthy \/ StopOld \/ DeleteOld \/ CreateMissing

ReconcilerStep ==
    \/ RecQuery \/ DiffHeal \/ DiffUpdate \/ ScaleUp \/ ScaleDown \/ DiffNoop
    \/ Heal \/ HealCreate \/ RollingStep \/ UpdateCommit \/ UpdateFails

Next == Push \/ PollStep \/ ReconcilerStep \/ Exit \/ RemoveImage \/ Crash

Spec == Init /\ [][Next]_vars

\* The job and the loop are started by their tickers.
FairSpec == Spec /\ WF_vars(PollStep) /\ WF_vars(ReconcilerStep)

-----------------------------------------------------------------------------
(* Properties. *)

\* A rolling update never leaves fewer replicas running than ran when it began, but for those
\* that exited on their own, wherever it is and however its calls fail.
UpdateKeepsServing ==
    rec.at \in Updating => Cardinality(Running) >= floor

\* "Drift (RemoteDigest != DeployedDigest) is picked up by the Reconciler on the next loop
\* tick and triggers a blue-green or rolling update automatically."
DriftIsPickedUp ==
    LET drift == row.remote # 0 /\ row.remote # row.deployed IN drift ~> ~drift
=============================================================================
