--------------------------- MODULE RemoteService ---------------------------
(***************************************************************************)
(* A service whose row names a worker: the jobs of the plane that work     *)
(* through the client of the worker's connection, and the operations of    *)
(* that client.                                                            *)
(*                                                                         *)
(* A command is answered by the worker, or not in time: then the caller    *)
(* goes on with an error while the worker may still carry the command out. *)
(* A job that finds the worker offline acts on the plane's own containers. *)
(***************************************************************************)
EXTENDS Naturals, Sequences, FiniteSets

CONSTANTS
    Kinds,          \* the commands that this instance is about
    AsMin, AsMax,   \* the range of the replicas in the manifest
    MaxQueue,       \* bound: commands on their way to the worker
    MaxLosses       \* bound: lost streams, failed commands and answers that come too late

\* Jobs that may run, and the client's operations that no job uses.
JobKinds   == {"heal", "bluegreen", "autoscale"}
AdminKinds == {"deploy", "rolling", "start", "stop", "remove"}

\* The resolver takes a minimum that is not positive for 1.
RemoteAssumption ==
    /\ Kinds \subseteq JobKinds \cup AdminKinds
    /\ AsMin \in Nat \ {0} /\ AsMax \in Nat /\ AsMin <= AsMax
    /\ MaxQueue \in Nat /\ MaxLosses \in Nat

VARIABLES
    row,        \* the status and the active slot of the service's row
    connected,  \* has the registry a connection of the worker
    inbox,      \* commands on their way to the worker
    remote,     \* the worker's containers of the service and its live slot
    local,      \* containers of the service on the plane
    jobs,       \* a job of each kind, and what it has read
    tracker,    \* scaleEntry: how old lastScaleUp and belowThresholdSince are
    losses

vars == <<row, connected, inbox, remote, local, jobs, tracker, losses>>

Slots == {"", "blue", "green"}

Idle == [at |-> "idle", current |-> 0, slot |-> ""]

\* However old the commands are that the worker carries out, it never has more copies of the
\* service than the manifest allows, and it is never told to remove the last one.
TypeOK ==
    /\ row \in [status : {"running", "failed", "stopped", "deploying"}, slot : Slots]
    /\ connected \in BOOLEAN
    /\ Len(inbox) <= MaxQueue
    /\ \A i \in DOMAIN inbox :
           /\ inbox[i].kind \in JobKinds \cup AdminKinds
           /\ inbox[i].kind = "autoscale" => inbox[i].target \in 1 .. AsMax
    /\ remote \in [copies : 0 .. AsMax, slot : Slots]
    /\ local \in 0 .. 1
    /\ jobs \in [JobKinds -> [at : {"idle", "decide", "measure", "send", "wait", "restart"},
                              current : 0 .. AsMax, slot : Slots]]
    /\ tracker \in [lastScaleUp : {"never", "now", "past"}, belowSince : {"never", "now", "past"}]
    /\ losses \in 0 .. MaxLosses

Init ==
    /\ row = [status |-> "running", slot |-> ""]
    /\ connected = TRUE
    /\ inbox = <<>>
    /\ remote \in [copies : AsMin .. AsMax, slot : {""}]
    /\ local = 0
    /\ jobs = [k \in JobKinds |-> Idle]
    /\ tracker = [lastScaleUp |-> "never", belowSince |-> "never"]
    /\ losses = 0

At(k, stage) == jobs[k].at = stage
Goto(k, stage) == jobs' = [jobs EXCEPT ![k].at = stage]
End(k) == jobs' = [jobs EXCEPT ![k] = Idle]

Lose == losses < MaxLosses /\ losses' = losses + 1

NextSlot(s) == IF s = "blue" THEN "green" ELSE "blue"

-----------------------------------------------------------------------------
(* The client. An operation fails at once without a connection, and sends  *)
(* one command otherwise.                                                  *)

Conn == connected

\* What is in a command: the plane gives the worker the manifest, the slot it takes to be the
\* live one, and the number of replicas to have.
Command(k, target, slot) == [kind |-> k, target |-> target, slot |-> slot]

SendCommand(k, target, slot) ==
    /\ Conn /\ k \in Kinds /\ Len(inbox) < MaxQueue
    /\ inbox' = Append(inbox, Command(k, target, slot))

\* An operation fails with an answer that says so. An answer of another type than the one
\* expected counts as a success of an orchestration command and as a failure of a deployment.
Succeeded(k, answer) ==
    CASE answer = "success" -> TRUE
      [] answer = "failure" -> k \in {"start", "stop", "remove"}
      [] answer = "reject"  -> FALSE
      [] answer = "other"   -> k # "deploy"

Deploy == SendCommand("deploy", 1, "")

SendRollingUpdate == SendCommand("rolling", remote.copies, "")

StartContainer == SendCommand("start", 1, "")

StopContainer == SendCommand("stop", 1, "")

RemoveContainer == SendCommand("remove", 1, "")

\* Operations whose outcome changes nothing on the plane.
ClientOperation ==
    /\ Deploy \/ SendRollingUpdate \/ StartContainer \/ StopContainer \/ RemoveContainer
    /\ UNCHANGED <<row, connected, remote, local, jobs, tracker, losses>>

\* The worker that carries out the oldest command. It brings the service to the number of
\* copies the command names, not up or down by one.
Effect(c, next) ==
    CASE c.kind = "autoscale" -> next = [remote EXCEPT !.copies = c.target]
      [] c.kind \in {"heal", "deploy", "start"} ->
           next = [remote EXCEPT !.copies = IF @ = 0 THEN 1 ELSE @]
      [] c.kind = "bluegreen" -> next = [copies |-> 1, slot |-> NextSlot(c.slot)]
      [] c.kind = "rolling" -> next = remote
      [] c.kind \in {"stop", "remove"} ->
           next = [remote EXCEPT !.copies = IF @ = 0 THEN 0 ELSE @ - 1]

-----------------------------------------------------------------------------
(* The end of an operation in the job that called it. *)

\* What a job does with the result of its command.
Heed(k, ok) ==
    CASE k = "heal" -> row' = [row EXCEPT !.status = IF ok THEN "running" ELSE "failed"]
      [] k = "bluegreen" ->
           row' = IF ok THEN [row EXCEPT !.slot = NextSlot(jobs[k].slot)] ELSE row
      [] k = "autoscale" -> UNCHANGED row

Waits(c) == c.kind \in JobKinds /\ At(c.kind, "wait")

\* The command is carried out, or fails, and its answer reaches the job if it still waits. The
\* tracker is only changed by a command that succeeded.
Scaled(c, ok) ==
    tracker' = IF c.kind # "autoscale" \/ ~ok THEN tracker
               ELSE IF c.target > jobs[c.kind].current
                    THEN [lastScaleUp |-> "now", belowSince |-> "never"]
                    ELSE [tracker EXCEPT !.belowSince = "never"]

Answer(c, answer) ==
    IF Waits(c)
    THEN /\ Heed(c.kind, Succeeded(c.kind, answer))
         /\ Scaled(c, Succeeded(c.kind, answer))
         /\ End(c.kind)
    ELSE UNCHANGED <<row, jobs, tracker>>

WorkerRuns ==
    /\ connected /\ inbox # <<>>
    /\ inbox' = Tail(inbox)
    /\ \/ /\ Effect(Head(inbox), remote')
          /\ Answer(Head(inbox), "success")
          /\ UNCHANGED losses
       \/ /\ Lose
          /\ \E answer \in {"failure", "reject", "other"} : Answer(Head(inbox), answer)
          /\ UNCHANGED remote
    /\ UNCHANGED <<connected, local>>

\* Send gives up after its timeout, or with the stream; the command is not taken back.
TimesOut(k) ==
    /\ At(k, "wait") /\ Lose
    /\ Heed(k, FALSE)
    /\ End(k)
    /\ UNCHANGED <<connected, inbox, remote, local, tracker>>

-----------------------------------------------------------------------------
(* HealWorker *)

HealLoad ==
    /\ "heal" \in Kinds /\ At("heal", "idle") /\ row.status \notin {"deploying", "stopped"}
    /\ Goto("heal", "decide")
    /\ UNCHANGED <<row, connected, inbox, remote, local, tracker, losses>>

\* After its pause the job asks the registry once: with a connection it sends the command,
\* without one it looks at the containers of the plane.
HealDecide ==
    /\ At("heal", "decide")
    /\ IF connected THEN Goto("heal", "send")
       ELSE IF local > 0 THEN End("heal") ELSE Goto("heal", "restart")
    /\ UNCHANGED <<row, connected, inbox, remote, local, tracker, losses>>

\* restartService, which starts a container of the service on the plane.
HealRestart ==
    /\ At("heal", "restart")
    /\ local' = 1
    /\ row' = [row EXCEPT !.status = "running"]
    /\ End("heal")
    /\ UNCHANGED <<connected, inbox, remote, tracker, losses>>

Send(k, target) ==
    /\ At(k, "send")
    /\ \/ /\ SendCommand(k, target, jobs[k].slot)
          /\ Goto(k, "wait")
          /\ UNCHANGED row
       \/ /\ ~connected
          /\ Heed(k, FALSE)
          /\ End(k)
          /\ UNCHANGED inbox
    /\ UNCHANGED <<connected, remote, local, tracker, losses>>

-----------------------------------------------------------------------------
(* deployBlueGreen for a service of a worker. *)

BlueGreenLoad ==
    /\ "bluegreen" \in Kinds /\ At("bluegreen", "idle") /\ row.status # "stopped"
    /\ jobs' = [jobs EXCEPT !["bluegreen"] = [at |-> "decide", current |-> 0, slot |-> row.slot]]
    /\ UNCHANGED <<row, connected, inbox, remote, local, tracker, losses>>

\* Without a connection the slots of the plane are switched: the container under the next slot
\* is started here.
BlueGreenDecide ==
    /\ At("bluegreen", "decide")
    /\ IF connected
       THEN Goto("bluegreen", "send") /\ UNCHANGED <<row, local>>
       ELSE /\ local' = 1
            /\ row' = [row EXCEPT !.slot = NextSlot(jobs["bluegreen"].slot)]
            /\ End("bluegreen")
    /\ UNCHANGED <<connected, inbox, remote, tracker, losses>>

-----------------------------------------------------------------------------
(* processWorkerAutoscale *)

AutoscaleLoad ==
    /\ "autoscale" \in Kinds /\ At("autoscale", "idle") /\ row.status = "running"
    /\ Goto("autoscale", "decide")
    /\ UNCHANGED <<row, connected, inbox, remote, local, tracker, losses>>

\* ListContainers: the worker answers with what it has now. Without a worker the job turns to
\* the containers of the plane, which the module Replicas is about.
ListContainers ==
    /\ At("autoscale", "decide")
    /\ IF connected /\ remote.copies > 0
       THEN jobs' = [jobs EXCEPT !["autoscale"].at = "measure",
                                 !["autoscale"].current = remote.copies]
       ELSE End("autoscale")
    /\ UNCHANGED <<row, connected, inbox, remote, local, tracker, losses>>

\* Mutant: the upper end of the range is not looked at.
Mut_ScaleTarget(current, load) ==
    CASE load = "high" -> current + 1
      [] load = "low" /\ current > AsMin -> current - 1
      [] OTHER -> current

\* The number of replicas to ask for, by the load of the whole worker.
ScaleTarget(current, load) ==
    CASE load = "high" /\ current < AsMax -> current + 1
      [] load = "low" /\ current > AsMin -> current - 1
      [] OTHER -> current

\* A low load counts from the first time it was seen; a higher load in between does not end
\* that time.
CollectMetrics ==
    /\ At("autoscale", "measure")
    /\ \E load \in {"high", "medium", "low"} :
         LET current == jobs["autoscale"].current
             target  == ScaleTarget(current, load)
         IN  CASE target = current
                    -> End("autoscale") /\ UNCHANGED <<inbox, tracker>>
               [] target > current /\ tracker.lastScaleUp = "now"
                    -> End("autoscale") /\ UNCHANGED <<inbox, tracker>>
               [] target < current /\ tracker.belowSince # "past"
                    -> /\ End("autoscale")
                       /\ tracker' = IF tracker.belowSince = "never"
                                     THEN [tracker EXCEPT !.belowSince = "now"] ELSE tracker
                       /\ UNCHANGED inbox
               [] OTHER
                    -> \/ ~connected /\ End("autoscale") /\ UNCHANGED <<inbox, tracker>>
                       \/ /\ SendCommand("autoscale", target, "")
                          /\ Goto("autoscale", "wait")
                          /\ UNCHANGED tracker
    /\ UNCHANGED <<row, connected, remote, local, losses>>

\* The cooldowns pass.
Tick ==
    /\ \E f \in DOMAIN tracker : tracker[f] = "now"
    /\ tracker' = [f \in DOMAIN tracker |-> IF tracker[f] = "now" THEN "past" ELSE tracker[f]]
    /\ UNCHANGED <<row, connected, inbox, remote, local, jobs, losses>>

-----------------------------------------------------------------------------

\* The stream breaks, with or without the commands that were on their way.
LoseStream ==
    /\ connected /\ Lose
    /\ connected' = FALSE
    /\ inbox' \in {inbox, <<>>}
    /\ UNCHANGED <<row, remote, local, jobs, tracker>>

Connect ==
    /\ ~connected /\ connected' = TRUE
    /\ UNCHANGED <<row, inbox, remote, local, jobs, tracker, losses>>

\* A container of the worker ends.
CopyEnds ==
    /\ remote.copies > 0 /\ Lose
    /\ remote' = [remote EXCEPT !.copies = @ - 1]
    /\ UNCHANGED <<row, connected, inbox, local, jobs, tracker>>

Next ==
    \/ ClientOperation \/ WorkerRuns
    \/ \E k \in JobKinds : TimesOut(k)
    \/ HealLoad \/ HealDecide \/ HealRestart \/ Send("heal", 1)
    \/ BlueGreenLoad \/ BlueGreenDecide \/ Send("bluegreen", 1)
    \/ AutoscaleLoad \/ ListContainers \/ CollectMetrics \/ Tick
    \/ LoseStream \/ Connect \/ CopyEnds

Spec == Init /\ [][Next]_vars

=============================================================================
