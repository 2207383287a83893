-------------------------- MODULE DeploymentProofs --------------------------
(***************************************************************************)
(* The scenes of MCBlueGreen, for any bounds: the types, the promise that  *)
(* Rollout states and the one slot that is left, from what BlueGreenProofs *)
(* proves of a scene. The last two are about one redeploy job, as in the   *)
(* run.                                                                    *)
(***************************************************************************)
EXTENDS MCBlueGreen, TLAPS

\* A step is one of the scene that is played, or changes nothing.
LEMMA SceneSteps ==
    ASSUME [Next]_vars
    PROVE  /\ scene' = scene
           /\ scene = "alone" => [Alone!DeployNext]_Alone!vars
           /\ scene = "crash" => [Crash!DeployNext]_Crash!vars
           /\ scene = "heal" => [Heal!Next]_Heal!vars
<1>1. CASE UNCHANGED vars
  BY <1>1 DEF vars, Alone!vars, Crash!vars, Heal!vars
<1>2. CASE AloneStep
  BY <1>2 DEF AloneStep
<1>3. CASE CrashStep
  BY <1>3 DEF CrashStep
<1>4. CASE HealStep
  BY <1>4 DEF HealStep
<1> QED
  BY <1>1, <1>2, <1>3, <1>4 DEF Next

\* The records of BlueGreen, in the scene that is played.
SceneTyped ==
    /\ scene = "alone" => Alone!Typed
    /\ scene = "crash" => Crash!Typed
    /\ scene = "heal" => Heal!Typed

LEMMA SceneTypedInit == Init => SceneTyped
<1>1. CASE scene = "alone" /\ Alone!Init
  BY <1>1, ScenesAssumption, Alone!TypedInit DEF SceneTyped
<1>2. CASE scene = "crash" /\ Crash!Init
  BY <1>2, ScenesAssumption, Crash!TypedInit DEF SceneTyped
<1>3. CASE scene = "heal" /\ Heal!Init
  BY <1>3, ScenesAssumption, Heal!TypedInit DEF SceneTyped
<1> QED
  BY <1>1, <1>2, <1>3 DEF Init

LEMMA SceneTypedStep == SceneTyped /\ [Next]_vars => SceneTyped'
<1> SUFFICES ASSUME SceneTyped, [Next]_vars PROVE SceneTyped'
  OBVIOUS
<1>0. scene' = scene
  BY SceneSteps
<1>1. CASE scene = "alone"
  <2>1. [Alone!Next]_Alone!vars
    BY <1>1, SceneSteps DEF Alone!Next
  <2> QED
    BY <1>0, <1>1, <2>1, ScenesAssumption, Alone!TypedStep DEF SceneTyped
<1>2. CASE scene = "crash"
  <2>1. [Crash!Next]_Crash!vars
    BY <1>2, SceneSteps DEF Crash!Next
  <2> QED
    BY <1>0, <1>2, <2>1, ScenesAssumption, Crash!TypedStep DEF SceneTyped
<1>3. CASE scene = "heal"
  BY <1>0, <1>3, SceneSteps, ScenesAssumption, Heal!TypedStep DEF SceneTyped
<1> QED
  BY <1>0, <1>1, <1>2, <1>3 DEF SceneTyped

\* Deployments and healers keep their types in every scene.
THEOREM SceneTypes == Spec => []TypeOK
<1>1. SceneTyped => TypeOK
  BY Alone!TypedIsTypeOK, Crash!TypedIsTypeOK, Heal!TypedIsTypeOK DEF SceneTyped, TypeOK
<1> QED
  BY <1>1, SceneTypedInit, SceneTypedStep, PTL DEF Spec

\* Whatever crashes and failed calls interrupt the only deployment, and however often River tries
\* it again, exactly the container that receives the traffic is left when it succeeds, and the
\* row knows its slot.
THEOREM OneSlotIsLeftInScenes ==
    ASSUME NEW D, Deployers = {D}
    PROVE  Spec => []OneSlotLeft
<1> DEFINE Kept == SceneTyped /\ (scene = "crash" => Crash!Tidy(D))
<1>1. Init => Kept
  <2>1. scene = "crash" /\ Crash!Init => Crash!Tidy(D)
    BY Crash!TidyInit
  <2> QED
    BY <2>1, SceneTypedInit DEF Init
<1>2. Kept /\ [Next]_vars => Kept'
  <2> SUFFICES ASSUME Kept, [Next]_vars PROVE Kept'
    OBVIOUS
  <2>1. SceneTyped' /\ scene' = scene
    BY SceneTypedStep, SceneSteps
  <2>2. CASE scene = "crash"
    <3>1. Crash!Tidy(D)'
      BY <2>2, ScenesAssumption, SceneSteps, Crash!TidyStep DEF SceneTyped
    <3> QED
      BY <2>1, <3>1
  <2> QED
    BY <2>1, <2>2
<1>3. Kept => OneSlotLeft
  BY DEF Crash!Tidy, Crash!OneSlotLeft, Crash!DeployIdle, OneSlotLeft
<1> QED
  BY <1>1, <1>2, <1>3, PTL DEF Spec

\* Refinement: while no call fails and the plane goes on, the deployments of one job implement
\* Rollout, also when the new slot does not come up.
THEOREM ScenesKeepPromise ==
    ASSUME NEW D, Deployers = {D}
    PROVE  Spec => KeepsPromise
<1> DEFINE Kept == SceneTyped /\ (scene = "alone" => Alone!Faithful(D))
           Served == IF scene = "alone" THEN Alone!Serving ELSE 1
           Prepared == IF scene = "alone" THEN Alone!Candidate ELSE 0
<1>0. 1 \in Alone!Versions /\ MaxVersion \in Nat
  BY ScenesAssumption, Alone!FirstVersion DEF Alone!BlueGreenAssumption
<1>1. Init => Kept /\ Promise!Init
  <2> SUFFICES ASSUME Init PROVE Kept /\ Promise!Init
    OBVIOUS
  <2>1. CASE scene = "alone" /\ Alone!Init
    <3>1. Alone!Faithful(D) /\ Alone!Promise!Init
      BY <2>1, ScenesAssumption, Alone!InitIsAllowed
    <3> QED
      BY <2>1, <3>1, SceneTypedInit DEF Promise!Init, Alone!Promise!Init, Promise!Nobody,
         Alone!Promise!Nobody
  <2>2. CASE scene # "alone"
    BY <1>0, <2>2, SceneTypedInit DEF Promise!Init, Promise!Nobody
  <2> QED
    BY <2>1, <2>2 DEF Init
<1>2. Kept /\ [Next]_vars => Kept' /\ [Promise!Next]_<<Served, Prepared>>
  <2> SUFFICES ASSUME Kept, [Next]_vars PROVE Kept' /\ [Promise!Next]_<<Served, Prepared>>
    OBVIOUS
  <2>1. SceneTyped' /\ scene' = scene
    BY SceneTypedStep, SceneSteps
  <2>2. CASE scene = "alone"
    <3>1. Alone!Typed /\ Alone!Typed' /\ Alone!Faithful(D) /\ [Alone!DeployNext]_Alone!vars
      BY <2>1, <2>2, SceneSteps DEF SceneTyped
    <3>2. Alone!Faithful(D)'
      BY <1>0, <3>1, Alone!FaithfulStep
    <3>3. [Alone!Promise!Next]_<<Alone!Serving, Alone!Candidate>>
      BY <1>0, <3>1, <3>2, Alone!StepIsAllowed
    <3> QED
      BY <2>1, <2>2, <3>2, <3>3
      DEF Promise!Next, Alone!Promise!Next, Promise!Prepare, Alone!Promise!Prepare,
          Promise!Abandon, Alone!Promise!Abandon, Promise!Cut, Alone!Promise!Cut,
          Promise!Connect, Alone!Promise!Connect, Promise!Nobody, Alone!Promise!Nobody
  <2>3. CASE scene # "alone"
    BY <2>1, <2>3
  <2> QED
    BY <2>2, <2>3
<1> QED
  BY <1>1, <1>2, PTL DEF Spec, KeepsPromise, Promise!Spec
=============================================================================
