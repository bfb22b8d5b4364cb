--------------------------- MODULE FaultSchedule ---------------------------
(***************************************************************************)
(* A compiled fault schedule: internal/perturber/compile.go.               *)
(*                                                                         *)
(* Faults are the indexes 1..NumFaults in canonical order, as Compile      *)
(* leaves them.  The event list of buildEvents is not a sequence here but  *)
(* the strict total order Before on the set Event, which is all that the   *)
(* executor and the concurrency check use of it.                           *)
(***************************************************************************)
EXTENDS Integers, FiniteSets

CONSTANTS
    NumFaults,      \* faults in the planned schedule
    MaxTime,        \* the last virtual millisecond a window may name
    MinWidth,       \* 0: every window the fault grammar accepts
    MaxConcurrent   \* perturber.budget.max_concurrent_faults

ASSUME ScheduleAssumption ==
    /\ NumFaults \in Nat \ {0}
    /\ MaxTime \in Nat
    /\ MinWidth \in Nat
    /\ MaxConcurrent \in Nat \ {0}

Fault == 1..NumFaults

\* A window the grammar accepts: FaultSpec.Validate refuses only end < start.
Window == {w \in [start : 0..MaxTime, end : 0..MaxTime] :
                w.end >= w.start + MinWidth}

Event == [kind : {"withdraw", "inject"}, fault : Fault]

InjectOf(f)   == [kind |-> "inject",   fault |-> f]
WithdrawOf(f) == [kind |-> "withdraw", fault |-> f]

At(plan, e) == IF e.kind = "inject" THEN plan[e.fault].start
                                    ELSE plan[e.fault].end

KindRank(e) == IF e.kind = "withdraw" THEN 0 ELSE 1

\* (at_ms, kind, fault index), with a withdrawal first at one instant.
Before(plan, d, e) ==
    \/ At(plan, d) < At(plan, e)
    \/ /\ At(plan, d) = At(plan, e)
       /\ \/ KindRank(d) < KindRank(e)
          \/ KindRank(d) = KindRank(e) /\ d.fault < e.fault

\* Compile sorts the specs by (start, end) before it numbers them.
Canonical(plan) ==
    \A f, g \in Fault : f < g =>
        \/ plan[f].start < plan[g].start
        \/ plan[f].start = plan[g].start /\ plan[f].end <= plan[g].end

\* The faults checkConcurrency counts as active just after event e.
ActiveAfter(plan, e) ==
    {f \in Fault :
        /\ InjectOf(f) = e \/ Before(plan, InjectOf(f), e)
        /\ ~ /\ Before(plan, InjectOf(f), WithdrawOf(f))
             /\ WithdrawOf(f) = e \/ Before(plan, WithdrawOf(f), e)}

WithinConcurrency(plan) ==
    \A e \in Event : Cardinality(ActiveAfter(plan, e)) <= MaxConcurrent

\* The schedules Compile hands to NewExecutor.
Schedules == {plan \in [Fault -> Window] :
                Canonical(plan) /\ WithinConcurrency(plan)}

=============================================================================
