------------------------------ MODULE Outcome ------------------------------
(***************************************************************************)
(* How a world and a run end, and how outcomes are folded:                 *)
(* internal/control/outcome.go.                                            *)
(***************************************************************************)
EXTENDS Naturals

Outcomes == {"pass", "budget_exhausted", "canceled", "inconclusive",
             "harness_error", "violation", "config_error"}

Rank == [pass |-> 0, budget_exhausted |-> 1, canceled |-> 2,
         inconclusive |-> 3, harness_error |-> 4, violation |-> 5,
         config_error |-> 6]

Worse(o, p) == IF Rank[p] > Rank[o] THEN p ELSE o
=============================================================================
