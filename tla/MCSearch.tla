------------------------------ MODULE MCSearch ------------------------------
(***************************************************************************)
(* Two lanes, a sweep of the control world and two fault probes, and a     *)
(* tree with a node under its first child and none under its second, which *)
(* is at the fault ceiling.                                                *)
(***************************************************************************)
EXTENDS Search, TLC

MCParent == (2 :> 1) @@ (3 :> 2) @@ (4 :> 1)

\* Coverage is new or not where a tree can prune on it.
MCResults ==
    {[is |-> "clean", novel |-> TRUE], [is |-> "clean", novel |-> FALSE],
     [is |-> "failed", novel |-> FALSE],
     [is |-> "violated", novel |-> TRUE], [is |-> "glimpsed", novel |-> TRUE]}

=============================================================================
