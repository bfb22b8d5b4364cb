---------------------------- MODULE Perturbation ----------------------------
(***************************************************************************)
(* What the perturber promises the world lifecycle, without schedules,     *)
(* events or injector calls: effects appear only while perturbing, may     *)
(* disappear until the report is made, and the report is "clean" only when *)
(* none is left.                                                           *)
(***************************************************************************)
CONSTANT Effect

VARIABLES stage, effects, report

vars == <<stage, effects, report>>

Init == stage = "perturb" /\ effects = {} /\ report = "none"

Apply(f) ==
    /\ stage = "perturb"
    /\ effects' = effects \cup {f}
    /\ UNCHANGED <<stage, report>>

\* A failed injection stops the perturbation; its effect may have stayed.
Stop ==
    /\ stage = "perturb"
    /\ stage' = "stopped"
    /\ \E f \in Effect : effects' \in {effects, effects \cup {f}}
    /\ UNCHANGED report

Lift(f) ==
    /\ stage # "reported"
    /\ effects' = effects \ {f}
    /\ UNCHANGED <<stage, report>>

StartHeal ==
    /\ stage # "heal"
    /\ stage' = "heal"
    /\ report' = "none"
    /\ UNCHANGED effects

Report ==
    /\ stage = "heal"
    /\ stage' = "reported"
    /\ report' \in IF effects = {} THEN {"clean", "dirty"} ELSE {"dirty"}
    /\ UNCHANGED effects

Next ==
    \/ \E f \in Effect : Apply(f) \/ Lift(f)
    \/ Stop \/ StartHeal \/ Report

Spec == Init /\ [][Next]_vars

=============================================================================
