------------------------------ MODULE Rollout ------------------------------
(***************************************************************************)
(* What a blue-green deployment promises to the users of a service: they   *)
(* reach one version until the candidate is ready, then the candidate; an  *)
(* abandoned candidate changes nothing. They reach no version at all only  *)
(* in the middle of a switch, which always ends at the candidate.          *)
(***************************************************************************)
EXTENDS Naturals

CONSTANT Versions   \* positive numbers

VARIABLES
    serving,    \* the version the route leads to, or Nobody
    candidate   \* the version being prepared, or Nobody

Nobody == 0

Init == serving \in Versions /\ candidate = Nobody

Prepare ==
    /\ candidate = Nobody
    /\ serving # Nobody
    /\ candidate' \in {v \in Versions : v > serving}
    /\ UNCHANGED serving

Abandon ==
    /\ candidate # Nobody
    /\ serving # Nobody
    /\ candidate' = Nobody
    /\ UNCHANGED serving

Cut ==
    /\ candidate # Nobody
    /\ serving' = Nobody
    /\ UNCHANGED candidate

Connect ==
    /\ candidate # Nobody
    /\ serving = Nobody
    /\ serving' = candidate
    /\ candidate' = Nobody

Next == Prepare \/ Abandon \/ Cut \/ Connect

Spec == Init /\ [][Next]_<<serving, candidate>>
=============================================================================
