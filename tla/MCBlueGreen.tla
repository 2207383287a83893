---------------------------- MODULE MCBlueGreen ----------------------------
(***************************************************************************)
(* The model checked for blue-green deployments: three instances of        *)
(* BlueGreen over the same variables, each with the bounds under which its *)
(* question is worth asking. "scene" says which of them a behavior is one  *)
(* of. The instances are of BlueGreenProofs, that is BlueGreen with what   *)
(* is proved about it, for DeploymentProofs.                               *)
(***************************************************************************)
EXTENDS Integers, FiniteSets

CONSTANTS
    Deployers,                                     \* redeploy jobs
    MaxVersion, MaxFaults, MaxCrashes, MaxExits,   \* bounds of deployments by themselves
    HealVersions, HealFaults, HealCrashes, HealExits   \* and with the healers beside them

VARIABLES scene, row, box, upstream, dep, hc, rec, budget

\* Deployments alone, whose new containers may not come up; the same with crashes of the plane
\* and a call that fails; and deployments with the healers beside them.
Alone == INSTANCE BlueGreenProofs WITH MaxFaults <- 0, MaxCrashes <- 0
Crash == INSTANCE BlueGreenProofs
Heal  == INSTANCE BlueGreenProofs WITH
             MaxVersion <- HealVersions, MaxFaults <- HealFaults,
             MaxCrashes <- HealCrashes, MaxExits <- HealExits

ASSUME ScenesAssumption ==
    Alone!BlueGreenAssumption /\ Crash!BlueGreenAssumption /\ Heal!BlueGreenAssumption

vars == <<scene, row, box, upstream, dep, hc, rec, budget>>

Init ==
    \/ scene = "alone" /\ Alone!Init
    \/ scene = "crash" /\ Crash!Init
    \/ scene = "heal" /\ Heal!Init

AloneStep == scene = "alone" /\ Alone!DeployNext /\ UNCHANGED scene
CrashStep == scene = "crash" /\ Crash!DeployNext /\ UNCHANGED scene
HealStep  == scene = "heal" /\ Heal!Next /\ UNCHANGED scene

Next == AloneStep \/ CrashStep \/ HealStep

Spec == Init /\ [][Next]_vars

\* The fairness of BlueGreen!FairDeploySpec in the scene with crashes, and of BlueGreen!FairSpec
\* in that with the healers.
FairSpec ==
    /\ Spec
    /\ \A d \in Deployers : WF_vars(scene = "crash" /\ Crash!JobStep(d) /\ UNCHANGED scene)
    /\ \A d \in Deployers : WF_vars(scene = "heal" /\ Heal!JobStep(d) /\ UNCHANGED scene)
    /\ WF_vars(scene = "heal" /\ hc.at # "idle" /\ Heal!HealthCheckStep /\ UNCHANGED scene)
    /\ WF_vars(scene = "heal" /\ Heal!ReconcilerStep /\ UNCHANGED scene)

-----------------------------------------------------------------------------
(* Properties *)

\* The type invariant of BlueGreen.
TypeOK ==
    /\ scene = "alone" => Alone!TypeOK
    /\ scene = "crash" => Crash!TypeOK
    /\ scene = "heal" => Heal!TypeOK

\* BlueGreen: a deployment implements what Rollout promises to the users of the service, also
\* when the new slot does not come up.
Promise == INSTANCE Rollout WITH
    Versions  <- Alone!Versions,
    serving   <- IF scene = "alone" THEN Alone!Serving ELSE 1,
    candidate <- IF scene = "alone" THEN Alone!Candidate ELSE 0

KeepsPromise == Promise!Spec

\* BlueGreen: after a deployment that succeeded exactly the container that receives the traffic
\* is left, and the row knows its slot, whatever crashed before.
OneSlotLeft == scene = "crash" => Crash!OneSlotLeft

\* BlueGreen: every deployment ends, by success or by giving up.
DeploymentsEnd ==
    \A d \in Deployers :
        scene = "crash" /\ dep[d].at # "idle" ~> dep[d].at = "idle"

\* BlueGreen: a service without a running container gets one again.
ContainerComesBack == scene = "heal" => Heal!ContainerComesBack
=============================================================================
