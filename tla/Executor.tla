------------------------------ MODULE Executor ------------------------------
(***************************************************************************)
(* The fault executor: internal/perturber/execute.go, one Run followed by  *)
(* any number of Heal calls, with the caller's context cancelled at any    *)
(* point and injectors that may fail at any call.                          *)
(*                                                                         *)
(* Run and Heal are one goroutine; the only concurrency is between it, the *)
(* canceller and the calls it makes into an injector, so every such call   *)
(* is two steps (call, then return) and a cancellation may fall between.   *)
(***************************************************************************)
EXTENDS FaultSchedule

CONSTANTS
    Node,            \* the topology's nodes of one service
    Bindings,        \* node sets the targets may resolve to at injection
    Partitioning,    \* the faults whose kind partitions its targets
    PartitionLimit   \* "never partition more than N of <service>"

ASSUME ExecutorAssumption ==
    /\ Bindings \subseteq SUBSET Node
    /\ IsFiniteSet(Node)
    /\ Partitioning \subseteq Fault
    /\ PartitionLimit \in Nat

VARIABLES
    plan,       \* the compiled schedule
    at,         \* where the single goroutine is
    processed,  \* events the Run loop has taken
    rec,        \* Injection.InjectOK / InjectErr, by fault
    bound,      \* Injection.Nodes, by fault
    wd,         \* the last Withdraw's outcome, by fault
    active,     \* activeIDs
    stamp,      \* position in activeIDs: the order of successful injections
    call,       \* the injector call in flight
    sweep,      \* what withdrawAllErr has still to try
    ctxOver,    \* ctx.Err() # nil
    run,        \* what Run returned
    heal,       \* what the last Heal returned, and its context
    inForce     \* the truth on the nodes: faults whose effect is present

executorVars == <<plan, at, processed, rec, bound, wd, active, stamp, call, sweep,
          ctxOver, run, heal, inForce>>

None == [op |-> "none"]

Call == [op : {"inject", "withdraw"}, fault : Fault, detached : BOOLEAN]

Idle == call = None

NoHeal == [err |-> FALSE, verified |-> FALSE, withdrawn |-> {},
           detached |-> FALSE]

ExecutorInit ==
    /\ plan \in Schedules
    /\ at = "new"
    /\ processed = {}
    /\ rec = [f \in Fault |-> "none"]
    /\ bound = [f \in Fault |-> {}]
    /\ wd = [f \in Fault |-> "none"]
    /\ active = {}
    /\ stamp = [f \in Fault |-> 0]
    /\ call = None
    /\ sweep = {}
    /\ ctxOver = FALSE
    /\ run = [err |-> FALSE, canceled |-> FALSE]
    /\ heal = NoHeal
    /\ inForce = {}

-----------------------------------------------------------------------------
(* The context.                                                            *)

\* The caller cancels the context Run (and Heal, on the main path) was given.
CancelRun ==
    /\ ~ctxOver
    /\ ctxOver' = TRUE
    /\ UNCHANGED <<plan, at, processed, rec, bound, wd, active, stamp, call,
                   sweep, run, heal, inForce>>

-----------------------------------------------------------------------------
(* Run.                                                                    *)

Run ==
    /\ at = "new"
    /\ at' = "run"
    /\ UNCHANGED <<plan, processed, rec, bound, wd, active, stamp, call, sweep,
                   ctxOver, run, heal, inForce>>

IsNext(e) == /\ e \notin processed
             /\ \A d \in Event : Before(plan, d, e) => d \in processed

Injected == {f \in Fault : rec[f] = "ok"}

BeginSweepOfNothing(next)  == at' = next /\ sweep' = {}

\* withdrawAllErr over a copy of activeIDs.
BeginSweep(next) ==
    /\ at' = next
    /\ sweep' = active

\* Mutant of Interrupted: the loop notes the cancellation and carries on.
InterruptedOnly ==
    /\ at = "run" /\ Idle /\ ctxOver
    /\ \E e \in Event : IsNext(e)
    /\ run' = [err |-> TRUE, canceled |-> TRUE]
    /\ UNCHANGED <<plan, at, processed, rec, bound, wd, active, stamp, call,
                   sweep, ctxOver, heal, inForce>>

\* SleepUntilR returns an error: the schedule stops and everything comes out.
Interrupted ==
    /\ at = "run" /\ Idle /\ ctxOver
    /\ \E e \in Event : IsNext(e)
    /\ run' = [err |-> TRUE, canceled |-> TRUE]
    /\ BeginSweep("sweep")
    /\ UNCHANGED <<plan, processed, rec, bound, wd, active, stamp, call,
                   ctxOver, heal, inForce>>

\* checkPartitionLimit, for the one fault being injected.
WithinLimit(f, nodes) ==
    f \in Partitioning => Cardinality(nodes) <= PartitionLimit

InjectionFails(f) ==
    /\ rec' = [rec EXCEPT ![f] = "failed"]
    /\ run' = [run EXCEPT !.err = TRUE]
    /\ BeginSweep("sweep")

\* Resolve and CheckResolved, then the call into the injector.
InjectCall(f, nodes) ==
    /\ at = "run" /\ Idle /\ ~ctxOver
    /\ IsNext(InjectOf(f))
    /\ processed' = processed \cup {InjectOf(f)}
    /\ bound' = [bound EXCEPT ![f] = nodes]
    /\ IF nodes # {} /\ WithinLimit(f, nodes)
       THEN /\ call' = [op |-> "inject", fault |-> f, detached |-> FALSE]
            /\ UNCHANGED <<at, rec, run, sweep>>
       ELSE InjectionFails(f) /\ UNCHANGED call
    /\ UNCHANGED <<plan, wd, active, stamp, ctxOver, heal, inForce>>

InjectOK ==
    /\ call.op = "inject"
    /\ LET f == call.fault
       IN  /\ rec' = [rec EXCEPT ![f] = "ok"]
           /\ active' = active \cup {f}
           /\ stamp' = [stamp EXCEPT ![f] = Cardinality(processed)]
           /\ inForce' = inForce \cup {f}
    /\ call' = None
    /\ UNCHANGED <<plan, at, processed, bound, wd, sweep, ctxOver, run, heal>>

\* A failed injection rolls itself back, unless the rollback fails as well.
InjectFailed ==
    /\ call.op = "inject"
    /\ InjectionFails(call.fault)
    /\ inForce' \in {inForce, inForce \cup {call.fault}}
    /\ call' = None
    /\ UNCHANGED <<plan, processed, bound, wd, active, stamp, ctxOver, heal>>

Due(f) == f \in active

\* withdrawByID: a fault that is not active is skipped.
WithdrawEvent(f) ==
    /\ at = "run" /\ Idle /\ ~ctxOver
    /\ IsNext(WithdrawOf(f))
    /\ processed' = processed \cup {WithdrawOf(f)}
    /\ call' = IF Due(f)
               THEN [op |-> "withdraw", fault |-> f, detached |-> FALSE]
               ELSE None
    /\ UNCHANGED <<plan, at, rec, bound, wd, active, stamp, sweep, ctxOver, run,
                   heal, inForce>>

RunReturns ==
    /\ at = "run" /\ Idle
    /\ \A e \in Event : e \in processed
    /\ at' = "ret"
    /\ UNCHANGED <<plan, processed, rec, bound, wd, active, stamp, call, sweep,
                   ctxOver, run, heal, inForce>>

-----------------------------------------------------------------------------
(* Withdrawal of the whole active set, by Run and by Heal, newest first.   *)

Newest(f) == f \in sweep /\ \A g \in sweep : stamp[g] <= stamp[f]

SweepAfter(f) == sweep \ {f}

SweepWithdraw(f) ==
    /\ at \in {"sweep", "heal"} /\ Idle
    /\ Newest(f)
    /\ sweep' = SweepAfter(f)
    /\ call' = [op |-> "withdraw", fault |-> f,
                detached |-> ctxOver \/ (at = "heal" /\ heal.detached)]
    /\ UNCHANGED <<plan, at, processed, rec, bound, wd, active, stamp, ctxOver,
                   run, heal, inForce>>

SweepDone ==
    /\ at \in {"sweep", "heal"} /\ Idle /\ sweep = {}
    /\ at' = IF at = "sweep" THEN "ret" ELSE "verify"
    /\ UNCHANGED <<plan, processed, rec, bound, wd, active, stamp, call, sweep,
                   ctxOver, run, heal, inForce>>

WithdrawOK ==
    /\ call.op = "withdraw"
    /\ wd' = [wd EXCEPT ![call.fault] = "ok"]
    /\ active' = active \ {call.fault}
    /\ inForce' = inForce \ {call.fault}
    /\ call' = None
    /\ UNCHANGED <<plan, at, processed, rec, bound, stamp, sweep, ctxOver, run,
                   heal>>

\* Mutant of ActiveAfterFailure: a failed withdrawal is not retried.
ActiveUnlessTried(f) == active \ {f}

ActiveAfterFailure(f) == active

\* The fault stays active; whether its effect is still there is unknown.
WithdrawFailed ==
    /\ call.op = "withdraw"
    /\ wd' = [wd EXCEPT ![call.fault] = "failed"]
    /\ inForce' \in {inForce, inForce \ {call.fault}}
    /\ active' = ActiveAfterFailure(call.fault)
    /\ IF at = "heal"
       THEN heal' = [heal EXCEPT !.err = TRUE] /\ UNCHANGED run
       ELSE run' = [run EXCEPT !.err = TRUE] /\ UNCHANGED heal
    /\ call' = None
    /\ UNCHANGED <<plan, at, processed, rec, bound, stamp, sweep, ctxOver>>

-----------------------------------------------------------------------------
(* Heal.                                                                   *)

\* Mutant of MayHeal: HEAL does not wait for the schedule to stop.
MayHealEarly == at \in {"new", "run", "ret", "healed"}

MayHeal == at \in {"new", "ret", "healed"}

\* runWorld heals on the run's context and its cleanup on a detached one;
\* Heal may follow a Run that never happened, and may be repeated.
HealCall(detached) ==
    /\ MayHeal
    /\ heal' = [NoHeal EXCEPT !.withdrawn = active, !.detached = detached]
    /\ BeginSweep("heal")
    /\ UNCHANGED <<plan, processed, rec, bound, wd, active, stamp, call,
                   ctxOver, run, inForce>>

\* Mutant of Residues: ask only about what this world injected.
ResiduesOfInjected == inForce \cap Injected

\* Every registered injector is asked, and every effect is reported.
Residues == inForce

\* verifyClean: every injector answers, reporting each effect it still finds,
\* or one of them cannot carry the check out.
Verified ==
    /\ at = "verify"
    /\ heal' = [heal EXCEPT !.verified = TRUE,
                            !.err = @ \/ Residues # {}]
    /\ at' = "healed"
    /\ UNCHANGED <<plan, processed, rec, bound, wd, active, stamp, call, sweep,
                   ctxOver, run, inForce>>

Unverified ==
    /\ at = "verify"
    /\ heal' = [heal EXCEPT !.err = TRUE]
    /\ at' = "healed"
    /\ UNCHANGED <<plan, processed, rec, bound, wd, active, stamp, call, sweep,
                   ctxOver, run, inForce>>

-----------------------------------------------------------------------------
Returns == InjectOK \/ InjectFailed \/ WithdrawOK \/ WithdrawFailed

Steps ==
    \/ Run \/ Interrupted \/ RunReturns
    \/ \E f \in Fault, nodes \in Bindings : InjectCall(f, nodes)
    \/ \E f \in Fault : WithdrawEvent(f)
    \/ \E f \in Fault : SweepWithdraw(f)
    \/ SweepDone

ExecutorNext ==
    \/ CancelRun
    \/ Steps \/ Returns
    \/ \E detached \in BOOLEAN : HealCall(detached)
    \/ Verified \/ Unverified

ExecutorSpec == ExecutorInit /\ [][ExecutorNext]_executorVars

\* The goroutine runs, a withdrawal returns within its timeout and everything
\* else once the context is cancelled: an injection has no timeout of its own.
Bounded == call.op = "withdraw" \/ ctxOver

ExecutorFairness ==
    /\ WF_executorVars(Steps)
    /\ WF_executorVars(Bounded /\ Returns)
    /\ WF_executorVars((ctxOver \/ heal.detached) /\ (Verified \/ Unverified))

ExecutorFairSpec == ExecutorSpec /\ ExecutorFairness

-----------------------------------------------------------------------------
(* Properties.                                                             *)

ExecutorTypeOK ==
    /\ plan \in [Fault -> Window]
    /\ at \in {"new", "run", "sweep", "ret", "heal", "verify", "healed"}
    /\ processed \subseteq Event
    /\ rec \in [Fault -> {"none", "ok", "failed"}]
    /\ bound \in [Fault -> SUBSET Node]
    /\ wd \in [Fault -> {"none", "ok", "failed"}]
    /\ active \subseteq Fault
    /\ stamp \in [Fault -> Nat]
    /\ call \in {None} \cup Call
    /\ sweep \subseteq active
    /\ ctxOver \in BOOLEAN
    /\ run \in [err : BOOLEAN, canceled : BOOLEAN]
    /\ heal \in [err : BOOLEAN, verified : BOOLEAN,
                 withdrawn : SUBSET Fault, detached : BOOLEAN]
    /\ inForce \subseteq Fault

\* HEAL that returns no error leaves the nodes clean: no effect of any fault,
\* nothing still tracked as active (doc.go, property 2 of the package).
HealedMeansClean ==
    at = "healed" /\ ~heal.err => heal.verified /\ inForce = {} /\ active = {}

\* No effect is lost track of: what is in force on a node is in activeIDs, so
\* the next sweep tries it, or it is what the rollback of a failed injection
\* left, and then Run has reported an error (markActive only on success).
TrackedOrReported ==
    \A f \in inForce : f \in active \/ (rec[f] = "failed" /\ run.err)

\* Once the schedule stopped, or HEAL began, no effect appears any more: "a
\* fault whose injection lands after HEAL has begun is a leak".
NoInjectionAfterStop ==
    [][at \notin {"new", "run"} => inForce' \subseteq inForce]_executorVars

\* A cancelled Run returns, though an injector may never answer on its own.
CanceledRunReturns ==
    ctxOver /\ at \in {"run", "sweep"} ~> at \notin {"run", "sweep"}

\* The executor implements what the world lifecycle relies on.
Stage == CASE at \in {"new", "run"}     -> "perturb"
           [] at \in {"sweep", "ret"}   -> "stopped"
           [] at \in {"heal", "verify"} -> "heal"
           [] OTHER                     -> "reported"

P == INSTANCE Perturbation WITH
        Effect  <- Fault,
        stage   <- Stage,
        effects <- inForce,
        report  <- IF at # "healed" THEN "none"
                   ELSE IF heal.err THEN "dirty" ELSE "clean"

\* Every behaviour of the executor is one of Perturbation.
ImplementsPerturbation == P!Spec

=============================================================================
