---------------------------- MODULE MCFamilies -----------------------------
(* Constants for the TLC runs of Families. *)
EXTENDS Families

MCNode == 1..2

\* Kinds of a pair of faults; the faults come in any order, so one order of each
\* pair is enough.
Order == <<"pause", "kill", "restart", "slow", "partition", "shape", "clock",
           "fill", "mem", "fd">>
Pairs == {<<Order[i], Order[j]>> : i, j \in 1..Len(Order)}
Ordered == {p \in Pairs : \E i \in 1..Len(Order) :
                    p[1] = Order[i] /\ \E j \in i..Len(Order) : p[2] = Order[j]}

\* Two faults that share node 1, one of them perhaps on both nodes.
On(k, T) == [kind |-> k, nodes |-> T]
Targets == {<<{1}, {1}>>, <<{1, 2}, {1}>>, <<{1}, {1, 2}>>}
PlansOf(pairs) == {[f1 |-> On(p[1], t[1]), f2 |-> On(p[2], t[2])] : p \in pairs, t \in Targets}

MCPlans == PlansOf(Ordered)
=============================================================================
