------------------------------ MODULE MCShrink ------------------------------
(* Constants for the TLC run of Shrink. *)
EXTENDS Shrink

\* Three faults, one of them long enough to be narrowed on both sides.
MCWindows == <<<<0, 4>>, <<0, 1>>, <<1, 2>>>>

\* Nothing could be judged, nothing was seen, or one violation was.
MCAttempts ==
    {[reached |-> FALSE, observed |-> {}], [reached |-> TRUE, observed |-> {}]} \cup
    {[reached |-> TRUE, observed |-> {id}] : id \in Identity}

Default == [accept |-> 1, typed |-> "default", baseline |-> TRUE, ops |-> FALSE, narrow |-> TRUE,
            commit |-> TRUE, planned |-> FALSE, worlds |-> 13,
            found |-> [world |-> "none", plan |-> "none"]]

Found(w, p) == [world |-> w, plan |-> p]

\* The default; --accept-trials 2; an operation plan, with a plan left torn by a
\* command that died; a level typed and no baseline, over a world committed
\* without its plan; --strictness class, under a name that is taken; budgets
\* below the reserve, and --no-commit.
MCOptions ==
    {Default,
     [Default EXCEPT !.accept = 2, !.worlds = 11],
     [Default EXCEPT !.ops = TRUE, !.planned = TRUE, !.worlds = 12, !.found = Found("own", "torn")],
     [Default EXCEPT !.typed = "key", !.baseline = FALSE, !.ops = TRUE, !.worlds = 10,
                     !.found = Found("own", "none")],
     [Default EXCEPT !.typed = "class", !.planned = TRUE, !.worlds = 11],
     [Default EXCEPT !.typed = "class", !.narrow = FALSE, !.worlds = 9, !.found = Found("other", "none")],
     [Default EXCEPT !.baseline = FALSE, !.worlds = 1],
     [Default EXCEPT !.commit = FALSE, !.worlds = 4]}
=============================================================================
