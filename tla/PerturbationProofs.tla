-------------------------- MODULE PerturbationProofs --------------------------
(***************************************************************************)
(* Theorems about the two sides of Perturbation: the executor, for every   *)
(* schedule, topology and injector behaviour its constants allow, and the  *)
(* world that relies on it, for any set of faults and both ways a driver   *)
(* may drain.                                                              *)
(***************************************************************************)
EXTENDS Executor, World, FiniteSetTheorems, TLAPS

-----------------------------------------------------------------------------
(* Executor                                                                *)

\* The calls in flight: which phase makes them and what they may be about.
CallInv ==
    /\ call # None => call \in Call /\ at \in {"run", "sweep", "heal"}
    /\ call.op = "inject" => at = "run"
    /\ call.op = "withdraw" => call.fault \in active /\ call.fault \notin sweep
    /\ at \notin {"sweep", "heal"} => sweep = {}

\* What HEAL's sweep has dealt with so far.
HealCallInv ==
    /\ at = "heal" /\ ~heal.err =>
          \A f \in active : f \in sweep \/ (call.op = "withdraw" /\ call.fault = f)
    /\ at = "verify" /\ ~heal.err => active = {}

\* The inductive invariant.  HealedMeansClean and TrackedOrReported are not
\* inductive alone: they need what CallInv and HealCallInv say of a sweep under way.
ExecutorIInv ==
    /\ ExecutorTypeOK
    /\ IsFiniteSet(processed)
    /\ CallInv
    /\ HealCallInv
    /\ HealedMeansClean
    /\ TrackedOrReported

LEMMA ExecutorInitIInv == ExecutorInit => ExecutorIInv
<1> SUFFICES ASSUME ExecutorInit PROVE ExecutorIInv
    OBVIOUS
<1>1. ExecutorTypeOK
    BY DEF ExecutorInit, ExecutorTypeOK, Schedules, NoHeal
<1>2. IsFiniteSet(processed)
    BY FS_EmptySet DEF ExecutorInit
<1>3. CallInv /\ HealCallInv /\ HealedMeansClean /\ TrackedOrReported
    BY DEF ExecutorInit, CallInv, HealCallInv, HealedMeansClean, TrackedOrReported, None
<1> QED BY <1>1, <1>2, <1>3 DEF ExecutorIInv

LEMMA EventTyped ==
    ASSUME NEW f \in Fault
    PROVE  InjectOf(f) \in Event /\ WithdrawOf(f) \in Event
BY DEF InjectOf, WithdrawOf, Event

\* One step per action.
LEMMA ExecutorNextIInv == ExecutorIInv /\ [ExecutorNext]_executorVars => ExecutorIInv'
<1> SUFFICES ASSUME ExecutorIInv, [ExecutorNext]_executorVars PROVE ExecutorIInv'
    OBVIOUS
<1> USE DEF ExecutorIInv
<1>1. CASE CancelRun
    BY <1>1 DEF CancelRun, ExecutorTypeOK, CallInv, HealCallInv, HealedMeansClean,
                TrackedOrReported, None
<1>2. CASE Run
    BY <1>2 DEF Run, ExecutorTypeOK, CallInv, HealCallInv, HealedMeansClean,
                TrackedOrReported, None
<1>3. CASE Interrupted
    BY <1>3 DEF Interrupted, BeginSweep, Idle, ExecutorTypeOK, CallInv, HealCallInv,
                HealedMeansClean, TrackedOrReported, None
<1>4. CASE RunReturns
    BY <1>4 DEF RunReturns, Idle, ExecutorTypeOK, CallInv, HealCallInv, HealedMeansClean,
                TrackedOrReported, None
<1>5. ASSUME NEW f \in Fault, NEW nodes \in Bindings, InjectCall(f, nodes)
      PROVE  ExecutorIInv'
    <2> DEFINE c == [op |-> "inject", fault |-> f, detached |-> FALSE]
    <2>1. IsFiniteSet(processed')
        BY <1>5, FS_AddElement DEF InjectCall
    <2>2. nodes \in SUBSET Node /\ InjectOf(f) \in Event /\ c \in Call /\ c # None
        BY ExecutorAssumption, EventTyped DEF Call, None
    <2>3. CASE nodes # {} /\ WithinLimit(f, nodes)
        <3>1. call' = c /\ UNCHANGED <<at, rec, run, sweep>>
            BY <1>5, <2>3 DEF InjectCall
        <3>2. ExecutorTypeOK'
            BY <1>5, <2>2, <3>1 DEF InjectCall, ExecutorTypeOK
        <3>3. CallInv'
            BY <1>5, <2>2, <3>1 DEF InjectCall, CallInv
        <3>4. HealCallInv' /\ HealedMeansClean' /\ TrackedOrReported'
            BY <1>5, <3>1 DEF InjectCall, HealCallInv, HealedMeansClean,
                TrackedOrReported
        <3> QED BY <2>1, <3>2, <3>3, <3>4
    <2>4. CASE ~(nodes # {} /\ WithinLimit(f, nodes))
        <3>1. InjectionFails(f) /\ call' = call /\ call = None
            BY <1>5, <2>4 DEF InjectCall, Idle
        <3>2. ExecutorTypeOK'
            BY <1>5, <2>2, <3>1 DEF InjectCall, InjectionFails, BeginSweep, ExecutorTypeOK
        <3>3. CallInv'
            BY <1>5, <3>1 DEF InjectionFails, BeginSweep, CallInv, None
        <3>4. HealCallInv' /\ HealedMeansClean' /\ TrackedOrReported'
            BY <1>5, <3>1 DEF InjectCall, InjectionFails, BeginSweep, HealCallInv,
                HealedMeansClean, TrackedOrReported, ExecutorTypeOK
        <3> QED BY <2>1, <3>2, <3>3, <3>4
    <2> QED BY <2>3, <2>4
<1>6. ASSUME NEW f \in Fault, WithdrawEvent(f)
      PROVE  ExecutorIInv'
    <2> DEFINE c == [op |-> "withdraw", fault |-> f, detached |-> FALSE]
    <2>1. IsFiniteSet(processed')
        BY <1>6, FS_AddElement DEF WithdrawEvent
    <2>2. WithdrawOf(f) \in Event /\ c \in Call /\ c # None
        BY EventTyped DEF Call, None
    <2>3. ExecutorTypeOK'
        BY <1>6, <2>2 DEF WithdrawEvent, ExecutorTypeOK
    <2>4. CallInv'
        BY <1>6, <2>2 DEF WithdrawEvent, Due, CallInv, None
    <2>5. HealCallInv' /\ HealedMeansClean' /\ TrackedOrReported'
        BY <1>6 DEF WithdrawEvent, HealCallInv, HealedMeansClean, TrackedOrReported
    <2> QED BY <2>1, <2>3, <2>4, <2>5
<1>7. ASSUME NEW f \in Fault, SweepWithdraw(f)
      PROVE  ExecutorIInv'
    <2>1. PICK d \in BOOLEAN : call' = [op |-> "withdraw", fault |-> f, detached |-> d]
        BY <1>7 DEF SweepWithdraw, ExecutorTypeOK
    <2>2. call' \in Call /\ call' # None /\ call'.op = "withdraw" /\ call'.fault = f
        BY <2>1 DEF Call, None
    <2>3. ExecutorTypeOK'
        BY <1>7, <2>2 DEF SweepWithdraw, SweepAfter, ExecutorTypeOK
    <2>4. CallInv'
        BY <1>7, <2>2 DEF SweepWithdraw, SweepAfter, Newest, CallInv, ExecutorTypeOK
    <2>5. HealCallInv' /\ HealedMeansClean' /\ TrackedOrReported'
        BY <1>7, <2>2 DEF SweepWithdraw, SweepAfter, Idle, None, HealCallInv,
            HealedMeansClean, TrackedOrReported
    <2> QED BY <1>7, <2>3, <2>4, <2>5 DEF SweepWithdraw
<1>8. CASE SweepDone
    BY <1>8 DEF SweepDone, Idle, ExecutorTypeOK, CallInv, HealCallInv, HealedMeansClean,
                TrackedOrReported, None
<1>9. CASE InjectOK
    <2>1. call \in Call /\ call.fault \in Fault /\ at = "run"
        BY <1>9 DEF InjectOK, CallInv, None, Call
    <2>2. Cardinality(processed) \in Nat
        BY FS_CardinalityType
    <2>3. ExecutorTypeOK'
        BY <1>9, <2>1, <2>2 DEF InjectOK, ExecutorTypeOK
    <2>4. CallInv' /\ HealCallInv' /\ HealedMeansClean' /\ TrackedOrReported'
        BY <1>9, <2>1 DEF InjectOK, ExecutorTypeOK, CallInv, HealCallInv, HealedMeansClean,
            TrackedOrReported, None
    <2> QED BY <1>9, <2>3, <2>4 DEF InjectOK
<1>10. CASE InjectFailed
    <2>1. call \in Call /\ call.fault \in Fault /\ at = "run"
        BY <1>10 DEF InjectFailed, CallInv, None, Call
    <2>2. ExecutorTypeOK'
        BY <1>10, <2>1 DEF InjectFailed, InjectionFails, BeginSweep, ExecutorTypeOK
    <2>3. CallInv' /\ HealCallInv' /\ HealedMeansClean' /\ TrackedOrReported'
        BY <1>10, <2>1 DEF InjectFailed, InjectionFails, BeginSweep, ExecutorTypeOK,
            CallInv, HealCallInv, HealedMeansClean, TrackedOrReported, None
    <2> QED BY <1>10, <2>2, <2>3 DEF InjectFailed
<1>11. CASE WithdrawOK
    <2>1. call \in Call /\ call.fault \in Fault /\ at \in {"run", "sweep", "heal"}
        BY <1>11 DEF WithdrawOK, CallInv, None, Call
    <2>2. ExecutorTypeOK'
        BY <1>11, <2>1 DEF WithdrawOK, ExecutorTypeOK, CallInv
    <2>3. CallInv' /\ HealCallInv' /\ HealedMeansClean' /\ TrackedOrReported'
        BY <1>11, <2>1 DEF WithdrawOK, ExecutorTypeOK, CallInv, HealCallInv,
            HealedMeansClean, TrackedOrReported, None
    <2> QED BY <1>11, <2>2, <2>3 DEF WithdrawOK
<1>12. CASE WithdrawFailed
    <2>1. call \in Call /\ call.fault \in Fault /\ at \in {"run", "sweep", "heal"}
        BY <1>12 DEF WithdrawFailed, CallInv, None, Call
    <2>2. ExecutorTypeOK'
        BY <1>12, <2>1 DEF WithdrawFailed, ActiveAfterFailure, ExecutorTypeOK
    <2>3. CallInv' /\ HealCallInv' /\ HealedMeansClean' /\ TrackedOrReported'
        BY <1>12, <2>1 DEF WithdrawFailed, ActiveAfterFailure, ExecutorTypeOK, CallInv,
            HealCallInv, HealedMeansClean, TrackedOrReported, None
    <2> QED BY <1>12, <2>2, <2>3 DEF WithdrawFailed
<1>13. ASSUME NEW detached \in BOOLEAN, HealCall(detached)
       PROVE  ExecutorIInv'
    <2>1. ExecutorTypeOK'
        BY <1>13 DEF HealCall, BeginSweep, NoHeal, ExecutorTypeOK
    <2>2. call = None /\ call' = None /\ at' = "heal" /\ sweep' = active
        BY <1>13 DEF HealCall, MayHeal, BeginSweep, CallInv
    <2>3. CallInv'
        BY <2>2 DEF CallInv, None
    <2>4. HealCallInv' /\ HealedMeansClean' /\ TrackedOrReported'
        BY <1>13, <2>2 DEF HealCall, HealCallInv, HealedMeansClean, TrackedOrReported
    <2> QED BY <1>13, <2>1, <2>3, <2>4 DEF HealCall
<1>14. CASE Verified
    <2>1. ExecutorTypeOK'
        BY <1>14 DEF Verified, ExecutorTypeOK
    <2>2. CallInv' /\ HealCallInv' /\ TrackedOrReported'
        BY <1>14 DEF Verified, CallInv, HealCallInv, TrackedOrReported
    <2>3. ~heal'.err => active = {} /\ inForce = {}
        BY <1>14 DEF Verified, Residues, HealCallInv, ExecutorTypeOK
    <2>4. HealedMeansClean'
        BY <1>14, <2>3 DEF Verified, HealedMeansClean, ExecutorTypeOK
    <2> QED BY <1>14, <2>1, <2>2, <2>4 DEF Verified
<1>15. CASE Unverified
    BY <1>15 DEF Unverified, ExecutorTypeOK, CallInv, HealCallInv, HealedMeansClean,
        TrackedOrReported, None
<1>16. CASE UNCHANGED executorVars
    BY <1>16 DEF executorVars, ExecutorTypeOK, CallInv, HealCallInv, HealedMeansClean,
        TrackedOrReported, Idle, None
<1> QED
    BY <1>1, <1>2, <1>3, <1>4, <1>5, <1>6, <1>7, <1>8, <1>9, <1>10, <1>11,
       <1>12, <1>13, <1>14, <1>15, <1>16 DEF ExecutorNext, Steps, Returns

\* The invariant holds of every reachable state.
LEMMA AlwaysIInv == ExecutorSpec => []ExecutorIInv
BY ExecutorInitIInv, ExecutorNextIInv, PTL DEF ExecutorSpec

\* Every reachable state is typed, and a sweep only ever holds active faults.
THEOREM ExecutorIsTyped == ExecutorSpec => []ExecutorTypeOK
BY AlwaysIInv, PTL DEF ExecutorIInv

\* HEAL that reports no error leaves nothing of any fault on any node.
THEOREM HealIsTruthful == ExecutorSpec => []HealedMeansClean
BY AlwaysIInv, PTL DEF ExecutorIInv

\* An effect on a node is tracked for withdrawal, or its failed rollback has
\* been reported by Run.
THEOREM NothingIsLost == ExecutorSpec => []TrackedOrReported
BY AlwaysIInv, PTL DEF ExecutorIInv

-----------------------------------------------------------------------------
LEMMA StepAfterStop ==
    ASSUME ExecutorIInv, [ExecutorNext]_executorVars, at \notin {"new", "run"}
    PROVE  inForce' \subseteq inForce
<1>1. call.op # "inject"
    BY DEF ExecutorIInv, CallInv
<1> QED
    BY <1>1 DEF ExecutorNext, Steps, Returns, CancelRun, Run, Interrupted, RunReturns,
        InjectCall, WithdrawEvent, SweepWithdraw, SweepDone, InjectOK,
        InjectFailed, WithdrawOK, WithdrawFailed, HealCall, Verified, Unverified,
        executorVars

\* Once the schedule has stopped no step makes a fault's effect appear.
THEOREM NothingLandsAfterStop == ExecutorSpec => NoInjectionAfterStop
<1>1. ExecutorIInv /\ [ExecutorNext]_executorVars =>
        [at \notin {"new", "run"} => inForce' \subseteq inForce]_executorVars
    BY StepAfterStop
<1> QED
    BY <1>1, AlwaysIInv, PTL DEF ExecutorSpec, NoInjectionAfterStop

-----------------------------------------------------------------------------
(* The executor implements Perturbation: each step is one of its steps or  *)
(* changes nothing it can see.                                             *)

Seen == <<Stage, inForce,
          IF at # "healed" THEN "none" ELSE IF heal.err THEN "dirty" ELSE "clean">>

LEMMA StepRefines == ExecutorIInv /\ [ExecutorNext]_executorVars => [P!Next]_(P!vars)
<1> SUFFICES ASSUME ExecutorIInv, [ExecutorNext]_executorVars PROVE P!Next \/ UNCHANGED Seen
    BY DEF P!vars, Seen
<1> USE DEF Seen, Stage
<1>1. CASE CancelRun \/ Run \/ RunReturns \/ Interrupted \/ SweepDone
    <2>1. CASE Interrupted
        <3>1. PICK e \in Event : IsNext(e)
            BY <2>1 DEF Interrupted
        <3>2. e.fault \in Fault
            BY <3>1 DEF Event
        <3>3. P!Stop
            BY <2>1, <3>2 DEF Interrupted, BeginSweep, P!Stop
        <3> QED BY <3>3 DEF P!Next
    <2>2. CASE RunReturns
        <3>1. 1 \in Fault
            BY ScheduleAssumption DEF Fault
        <3>2. P!Stop
            BY <2>2, <3>1 DEF RunReturns, P!Stop
        <3> QED BY <3>2 DEF P!Next
    <2> QED
        BY <1>1, <2>1, <2>2 DEF CancelRun, Run, SweepDone
<1>2. ASSUME NEW f \in Fault, NEW nodes \in Bindings, InjectCall(f, nodes)
      PROVE  P!Next \/ UNCHANGED Seen
    <2>1. CASE at' = at
        BY <1>2, <2>1 DEF InjectCall
    <2>2. CASE at' # at
        <3>1. P!Stop
            BY <1>2, <2>2 DEF InjectCall, InjectionFails, BeginSweep, P!Stop
        <3> QED BY <3>1 DEF P!Next
    <2> QED BY <2>1, <2>2
<1>3. ASSUME NEW f \in Fault, WithdrawEvent(f) \/ SweepWithdraw(f)
      PROVE  P!Next \/ UNCHANGED Seen
    BY <1>3 DEF WithdrawEvent, SweepWithdraw
<1>4. CASE InjectOK \/ InjectFailed
    <2>1. call.fault \in Fault /\ at = "run"
        BY <1>4 DEF InjectOK, InjectFailed, ExecutorIInv, CallInv, None, Call
    <2>2. CASE InjectOK
        BY <2>1, <2>2 DEF InjectOK, P!Next, P!Apply
    <2>3. CASE InjectFailed
        <3>1. P!Stop
            BY <2>1, <2>3 DEF InjectFailed, InjectionFails, BeginSweep, P!Stop
        <3> QED BY <3>1 DEF P!Next
    <2> QED BY <1>4, <2>2, <2>3
<1>5. CASE WithdrawOK \/ WithdrawFailed
    <2>1. call.fault \in Fault /\ at \in {"run", "sweep", "heal"}
        BY <1>5 DEF WithdrawOK, WithdrawFailed, ExecutorIInv, CallInv, None, Call
    <2>2. CASE inForce' = inForce \ {call.fault}
        <3>1. P!Lift(call.fault)
            BY <1>5, <2>1, <2>2 DEF WithdrawOK, WithdrawFailed, P!Lift
        <3> QED BY <2>1, <3>1 DEF P!Next
    <2>3. CASE inForce' = inForce
        BY <1>5, <2>1, <2>3 DEF WithdrawOK, WithdrawFailed
    <2> QED BY <1>5, <2>2, <2>3 DEF WithdrawOK, WithdrawFailed
<1>6. ASSUME NEW detached \in BOOLEAN, HealCall(detached)
      PROVE  P!Next \/ UNCHANGED Seen
    <2>1. P!StartHeal
        BY <1>6 DEF HealCall, MayHeal, BeginSweep, P!StartHeal
    <2> QED BY <2>1 DEF P!Next
<1>7. CASE Verified \/ Unverified
    <2>1. heal'.err \in BOOLEAN /\ (~heal'.err => inForce = {})
        BY <1>7 DEF Verified, Unverified, Residues, ExecutorIInv, ExecutorTypeOK
    <2>2. P!Report
        BY <1>7, <2>1 DEF Verified, Unverified, P!Report
    <2> QED BY <2>2 DEF P!Next
<1>8. CASE UNCHANGED executorVars
    BY <1>8 DEF executorVars
<1> QED
    BY <1>1, <1>2, <1>3, <1>4, <1>5, <1>6, <1>7, <1>8 DEF ExecutorNext, Steps, Returns

\* The executor refines the perturber the world lifecycle relies on.
THEOREM ExecutorRefines == ExecutorSpec => ImplementsPerturbation
<1>1. ExecutorInit => P!Init
    BY DEF ExecutorInit, P!Init, Stage
<1>2. ExecutorSpec => []ExecutorIInv
    BY AlwaysIInv
<1> QED
    BY <1>1, <1>2, StepRefines, PTL DEF ExecutorSpec, ImplementsPerturbation, P!Spec

-----------------------------------------------------------------------------
(* World                                                                   *)

\* The places of runWorld before it returns, and where it stands once the
\* driver was started, retired and stopped.
Early    == {"boot", "booted", "seed", "drive"}
Driving  == {"perturb", "run", "heal", "healing", "quiesce", "draining"}
Late     == {"converge", "assert"}
Main     == Early \cup Driving \cup {"stopping"} \cup Late
AfterHEAL == {"quiesce", "draining", "stopping"} \cup Late

WorldOutcomes == {"pass", "canceled", "inconclusive", "harness_error", "violation"}

\* The record of the driver is of this process, and a kill is somebody's.
DriverInv ==
    /\ pc \in Early => handle = "none" /\ sup = "none"
    /\ pc \in Driving => handle = "held"
    /\ handle = "none" => sup = "none" /\ drain = "none"
    /\ sup \in {"none", "starting", "spawned", "live"} => ~res.started
    /\ killRequested => handle \in {"stopping", "stopped"}
    /\ watched => canceled
    /\ drain = "completed" => sup = "done" /\ ~killRequested
    /\ sup = "done" /\ res.started =>
          proc = "exited" /\ res.stopped = Signaled /\ res.failed = ~clean

\* A report is of effects that no longer change, and "clean" of none.
HealInv ==
    /\ report = "none" <=> stage # "reported"
    /\ report = "clean" => effects = {}
    /\ effects # {} => perturb
    /\ healed => stage = "reported"
    /\ pc \in {"boot", "booted", "seed", "drive", "perturb", "run", "heal"} => stage = "perturb"
    /\ pc \in {"run", "heal", "healing"} \cup AfterHEAL => perturb
    /\ pc \in {"healing", "cHealing"} => stage = "heal"
    /\ pc \in AfterHEAL => healed
    /\ pc \in {"cTeardown", "cStopping", "cDown", "returned"} /\ perturb => stage = "reported"

\* What the outcome gathered so far stands for.
MeasureInv ==
    /\ pc \in Main => outcome = "none" /\ judged = {}
                      /\ worldOutcome \in {"pass", "inconclusive", "harness_error"}
    /\ pc \notin Main => outcome \in WorldOutcomes
    /\ pc \in Main \ {"boot", "booted"} /\ worldOutcome = "pass" => imagesOK
    /\ pc \in AfterHEAL /\ report = "dirty" => worldOutcome = "harness_error"
    /\ pc \in Late /\ worldOutcome = "pass" => ~Refusal

\* The topology the world holds is the project it booted.
ProjectInv ==
    /\ pc # "returned" => (topo => project = "up") /\ ~teardownErr /\ ~keptUp
    /\ pc = "returned" /\ project \in {"up", "partial"} /\ ~keptUp =>
          teardownErr /\ outcome \in Severe

\* A world that passes was conducted in full; all that is left is its project.
PassInv ==
    pc \notin Main /\ outcome = "pass" =>
        /\ imagesOK /\ written
        /\ perturb /\ healed /\ report = "clean"
        /\ ~Refusal /\ ~Signaled
        /\ judged = {"pass"}
        /\ pc = "returned" => /\ ~teardownErr
                              /\ IF keptUp THEN project = "up" ELSE project = "absent"

\* What was found stays found.
FoundInv ==
    /\ "violation" \in judged => outcome = "violation"
    /\ pc \notin Main /\ stage = "reported" /\ report = "dirty" => outcome \in Severe

IInv == TypeOK /\ DriverInv /\ HealInv /\ MeasureInv /\ ProjectInv /\ PassInv /\ FoundInv

-----------------------------------------------------------------------------
\* worse returns one of its arguments, and none is worse than what it returns.
LEMMA WorseIsWorst ==
    ASSUME NEW o \in Outcomes, NEW p \in Outcomes
    PROVE  Worse(o, p) \in {o, p} /\ Rank[o] <= Rank[Worse(o, p)] /\ Rank[p] <= Rank[Worse(o, p)]
BY DEF Worse, Rank, Outcomes

\* A phase that is entered, nested or cut short leaves the phase log well formed.
LEMMA PhasesTyped ==
    ASSUME PhaseTypeOK, NEW p \in Phase,
           Advance(p) \/ AdvanceFails(p) \/ Nest(p) \/ NestFails(p)
    PROVE  PhaseTypeOK'
BY DEF PhaseTypeOK, Advance, AdvanceFails, Nest, NestFails, Enters, phases

\* Outcomes folded with worse, in any order, give the worst among them.
LEMMA FoldIsWorst ==
    ASSUME NEW o \in WorldOutcomes, NEW os \in SUBSET WorldOutcomes
    PROVE  Fold(o, os) \in os \cup {o} /\ \A x \in os \cup {o} : Rank[x] <= Rank[Fold(o, os)]
<1>1. \E w \in os \cup {o} : \A x \in os \cup {o} : Rank[x] <= Rank[w]
    BY DEF WorldOutcomes, Rank
<1> QED BY <1>1 DEF Fold

\* Every step of the world, of the driver and of its environment keeps the
\* invariant.
LEMMA NextIInv == IInv /\ [Next]_vars => IInv'
<1> SUFFICES ASSUME IInv, [Next]_vars PROVE IInv'
    OBVIOUS
<1> USE DEF IInv, driver, phases, boot, perturbation, measured, returned, Return,
    Go, Early, Driving, Late, Main, AfterHEAL, WorldOutcomes
<1>t. DriverTypeOK /\ PhaseTypeOK
    BY DEF TypeOK
<1>o. /\ worldOutcome \in Outcomes /\ (pc \notin Main => outcome \in Outcomes)
      /\ "harness_error" \in Outcomes /\ "inconclusive" \in Outcomes
    BY DEF TypeOK, MeasureInv, Outcomes
<1>1. CASE Boot
    <2>3. DriverTypeOK' /\ PhaseTypeOK' => TypeOK'
        BY <1>1 DEF Boot, UpOK, UpRefused, UpFails, TypeOK, Outcomes
    <2>2. PhaseTypeOK'
        BY <1>1, <1>t, PhasesTyped DEF Boot, Phase, TEARDOWN, BOOT
    <2> USE <1>1 DEF Boot, AdvanceFails, Advance, UpOK, UpRefused, UpFails,
        MayAdvance, Enters
    <2>1. DriverTypeOK'
        BY <1>t DEF DriverTypeOK
    <2>4. DriverInv'
        BY <1>t DEF DriverInv
    <2>5. HealInv'
        BY DEF HealInv
    <2>6. MeasureInv'
        BY DEF MeasureInv
    <2>7. ProjectInv'
        BY DEF ProjectInv
    <2>8. PassInv'
        BY DEF PassInv
    <2>9. FoundInv'
        BY DEF FoundInv, MeasureInv, HealInv
    <2> QED BY <2>1, <2>2, <2>3, <2>4, <2>5, <2>6, <2>7, <2>8, <2>9
<1>2. CASE Booted
    <2>3. DriverTypeOK' /\ PhaseTypeOK' => TypeOK'
        BY <1>2, <1>o, WorseIsWorst DEF Booted, ImagesJudged, TypeOK
    <2> USE <1>2 DEF Booted, ImagesJudged
    <2>1. DriverTypeOK'
        BY <1>t DEF DriverTypeOK
    <2>2. PhaseTypeOK'
        BY <1>t DEF PhaseTypeOK
    <2>4. DriverInv'
        BY <1>t DEF DriverInv
    <2>5. HealInv'
        BY DEF HealInv
    <2>6. MeasureInv'
        BY DEF MeasureInv, Worse, Rank
    <2>7. ProjectInv'
        BY DEF ProjectInv
    <2>8. PassInv'
        BY DEF PassInv
    <2>9. FoundInv'
        BY DEF FoundInv, MeasureInv, HealInv
    <2> QED BY <2>1, <2>2, <2>3, <2>4, <2>5, <2>6, <2>7, <2>8, <2>9
<1>3. CASE Seed
    <2>3. DriverTypeOK' /\ PhaseTypeOK' => TypeOK'
        BY <1>3 DEF Seed, TypeOK, Outcomes
    <2>2. PhaseTypeOK'
        BY <1>3, <1>t, PhasesTyped DEF Seed, SEED, Phase, TEARDOWN, BOOT
    <2> USE <1>3 DEF Seed, AdvanceFails, Advance, MayAdvance, Enters
    <2>1. DriverTypeOK'
        BY <1>t DEF DriverTypeOK
    <2>4. DriverInv'
        BY <1>t DEF DriverInv
    <2>5. HealInv'
        BY DEF HealInv
    <2>6. MeasureInv'
        BY DEF MeasureInv
    <2>7. ProjectInv'
        BY DEF ProjectInv
    <2>8. PassInv'
        BY DEF PassInv
    <2>9. FoundInv'
        BY DEF FoundInv, MeasureInv, HealInv
    <2> QED BY <2>1, <2>2, <2>3, <2>4, <2>5, <2>6, <2>7, <2>8, <2>9
<1>4. CASE Drive
    <2>2. PhaseTypeOK'
        BY <1>4, <1>t, PhasesTyped DEF Drive, DRIVE, Phase, TEARDOWN, BOOT
    <2> USE <1>4 DEF Drive, AdvanceFails, Advance, Start, MayAdvance, Enters
    <2>1. DriverTypeOK'
        BY <1>t DEF DriverTypeOK
    <2>3. TypeOK'
        BY <2>1, <2>2 DEF TypeOK, Outcomes
    <2>4. DriverInv'
        BY <1>t DEF DriverInv
    <2>5. HealInv'
        BY DEF HealInv
    <2>6. MeasureInv'
        BY DEF MeasureInv
    <2>7. ProjectInv'
        BY DEF ProjectInv
    <2>8. PassInv'
        BY DEF PassInv
    <2>9. FoundInv'
        BY DEF FoundInv, MeasureInv, HealInv
    <2> QED BY <2>3, <2>4, <2>5, <2>6, <2>7, <2>8, <2>9
<1>5. CASE Compile
    <2>3. DriverTypeOK' /\ PhaseTypeOK' => TypeOK'
        BY <1>5 DEF Compile, TypeOK, Outcomes
    <2>2. PhaseTypeOK'
        BY <1>5, <1>t, PhasesTyped DEF Compile, PERTURB, Phase, TEARDOWN, BOOT
    <2> USE <1>5 DEF Compile, NestFails, Nest, MayNest, Enters
    <2>1. DriverTypeOK'
        BY <1>t DEF DriverTypeOK
    <2>4. DriverInv'
        BY <1>t DEF DriverInv, Signaled
    <2>5. HealInv'
        BY DEF HealInv
    <2>6. MeasureInv'
        BY DEF MeasureInv
    <2>7. ProjectInv'
        BY DEF ProjectInv
    <2>8. PassInv'
        BY DEF PassInv
    <2>9. FoundInv'
        BY DEF FoundInv, MeasureInv, HealInv
    <2> QED BY <2>1, <2>2, <2>3, <2>4, <2>5, <2>6, <2>7, <2>8, <2>9
<1>6. CASE PerturbEnds
    <2> USE <1>6 DEF PerturbEnds, Unnested
    <2>1. DriverTypeOK'
        BY <1>t DEF DriverTypeOK
    <2>2. PhaseTypeOK'
        BY <1>t DEF PhaseTypeOK
    <2>3. TypeOK'
        BY <2>1, <2>2 DEF TypeOK
    <2>4. DriverInv'
        BY <1>t DEF DriverInv, Signaled
    <2>5. HealInv'
        BY DEF HealInv
    <2>6. MeasureInv'
        BY DEF MeasureInv
    <2>7. ProjectInv'
        BY DEF ProjectInv
    <2>8. PassInv'
        BY DEF PassInv
    <2>9. FoundInv'
        BY DEF FoundInv
    <2> QED BY <2>3, <2>4, <2>5, <2>6, <2>7, <2>8, <2>9
<1>7. CASE PerturbFails
    <2> USE <1>7 DEF PerturbFails, Pert!Stop
    <2>1. DriverTypeOK'
        BY <1>t DEF DriverTypeOK
    <2>2. PhaseTypeOK'
        BY <1>t DEF PhaseTypeOK
    <2>3. TypeOK'
        BY <2>1, <2>2 DEF TypeOK, Outcomes
    <2>4. DriverInv'
        BY <1>t DEF DriverInv, Signaled
    <2>5. HealInv'
        BY DEF HealInv
    <2>6. MeasureInv'
        BY DEF MeasureInv
    <2>7. ProjectInv'
        BY DEF ProjectInv
    <2>8. PassInv'
        BY DEF PassInv
    <2>9. FoundInv'
        BY DEF FoundInv, MeasureInv, HealInv
    <2> QED BY <2>3, <2>4, <2>5, <2>6, <2>7, <2>8, <2>9
<1>8. CASE Heal
    <2>2. PhaseTypeOK'
        BY <1>8, <1>t, PhasesTyped DEF Heal, HEAL, Phase, TEARDOWN, BOOT
    <2> USE <1>8 DEF Heal, AdvanceFails, Advance, Pert!StartHeal, MayAdvance, Enters
    <2>1. DriverTypeOK'
        BY <1>t DEF DriverTypeOK
    <2>3. TypeOK'
        BY <2>1, <2>2 DEF TypeOK, Outcomes
    <2>4. DriverInv'
        BY <1>t DEF DriverInv, Signaled
    <2>5. HealInv'
        BY DEF HealInv
    <2>6. MeasureInv'
        BY DEF MeasureInv
    <2>7. ProjectInv'
        BY DEF ProjectInv
    <2>8. PassInv'
        BY DEF PassInv
    <2>9. FoundInv'
        BY DEF FoundInv, MeasureInv, HealInv
    <2> QED BY <2>3, <2>4, <2>5, <2>6, <2>7, <2>8, <2>9
<1>9. CASE Healed
    <2> USE <1>9 DEF Healed, Pert!Report, AfterHeal
    <2>1. DriverTypeOK'
        BY <1>t DEF DriverTypeOK
    <2>2. PhaseTypeOK'
        BY <1>t DEF PhaseTypeOK
    <2>3. TypeOK'
        BY <2>1, <2>2, <1>o, WorseIsWorst DEF TypeOK
    <2>4. DriverInv'
        BY <1>t DEF DriverInv, Signaled
    <2>5. HealInv'
        BY DEF HealInv
    <2>6. MeasureInv'
        BY DEF MeasureInv, Worse, Rank
    <2>7. ProjectInv'
        BY DEF ProjectInv
    <2>8. PassInv'
        BY DEF PassInv
    <2>9. FoundInv'
        BY DEF FoundInv
    <2> QED BY <2>3, <2>4, <2>5, <2>6, <2>7, <2>8, <2>9
<1>10. CASE Quiesce
    <2>2. PhaseTypeOK'
        BY <1>10, <1>t, PhasesTyped DEF Quiesce, QUIESCE, Phase, TEARDOWN, BOOT
    <2> USE <1>10 DEF Quiesce, AdvanceFails, Advance, BeginDrain, MayAdvance, Enters
    <2>1. DriverTypeOK'
        BY <1>t DEF DriverTypeOK, DrainOutcome
    <2>3. TypeOK'
        BY <2>1, <2>2 DEF TypeOK, Outcomes
    <2>4. DriverInv'
        BY <1>t DEF DriverInv, Signaled
    <2>5. HealInv'
        BY DEF HealInv
    <2>6. MeasureInv'
        BY DEF MeasureInv
    <2>7. ProjectInv'
        BY DEF ProjectInv
    <2>8. PassInv'
        BY DEF PassInv
    <2>9. FoundInv'
        BY DEF FoundInv, MeasureInv, Severe
    <2> QED BY <2>3, <2>4, <2>5, <2>6, <2>7, <2>8, <2>9
<1>11. CASE Drains
    <2> USE <1>11 DEF Drains, EndDrain, Stop, Kills
    <2>1. DriverTypeOK'
        BY <1>t DEF DriverTypeOK, DrainOutcome
    <2>2. PhaseTypeOK'
        BY <1>t DEF PhaseTypeOK
    <2>3. TypeOK'
        BY <2>1, <2>2 DEF TypeOK
    <2>4. DriverInv'
        BY <1>t DEF DriverInv, DriverTypeOK, Signaled
    <2>5. HealInv'
        BY DEF HealInv
    <2>6. MeasureInv'
        BY DEF MeasureInv
    <2>7. ProjectInv'
        BY DEF ProjectInv
    <2>8. PassInv'
        BY DEF PassInv
    <2>9. FoundInv'
        BY DEF FoundInv
    <2> QED BY <2>3, <2>4, <2>5, <2>6, <2>7, <2>8, <2>9
<1>12. CASE Stopped
    <2> USE <1>12 DEF Stopped, StopReturns, Refusal
    <2>1. DriverTypeOK'
        BY <1>t DEF DriverTypeOK
    <2>2. PhaseTypeOK'
        BY <1>t DEF PhaseTypeOK
    <2>3. TypeOK'
        BY <2>1, <2>2, <1>o, WorseIsWorst DEF TypeOK
    <2>4. DriverInv'
        BY <1>t DEF DriverInv, Signaled
    <2>5. HealInv'
        BY DEF HealInv
    <2>6. MeasureInv'
        BY DEF MeasureInv, Worse, Rank
    <2>7. ProjectInv'
        BY DEF ProjectInv
    <2>8. PassInv'
        BY DEF PassInv
    <2>9. FoundInv'
        BY DEF FoundInv
    <2> QED BY <2>3, <2>4, <2>5, <2>6, <2>7, <2>8, <2>9
<1>13. CASE Converge
    <2> USE <1>13 DEF Converge
    <2>1. DriverTypeOK'
        BY <1>t DEF DriverTypeOK
    <2>2. PhaseTypeOK'
        BY <1>t DEF PhaseTypeOK
    <2>3. TypeOK'
        BY <2>1, <2>2 DEF TypeOK, Outcomes
    <2>4. DriverInv'
        BY <1>t DEF DriverInv, Signaled
    <2>5. HealInv'
        BY DEF HealInv
    <2>6. MeasureInv'
        BY DEF MeasureInv, Refusal
    <2>7. ProjectInv'
        BY DEF ProjectInv
    <2>8. PassInv'
        BY DEF PassInv
    <2>9. FoundInv'
        BY DEF FoundInv, MeasureInv, Severe
    <2> QED BY <2>3, <2>4, <2>5, <2>6, <2>7, <2>8, <2>9
<1>14. CASE Assert
    <2>1. /\ pc' = "cleanup" /\ UNCHANGED imagesOK
          /\ outcome' \in WorldOutcomes /\ worldOutcome' \in Outcomes
          /\ written' \in BOOLEAN /\ judged' \subseteq {"pass", "inconclusive", "violation"}
          /\ "violation" \in judged' => outcome' = "violation"
          /\ worldOutcome = "harness_error" => outcome' \in Severe
          /\ outcome' = "pass" => worldOutcome = "pass" /\ written' /\ judged' = {"pass"} /\ ~canceled
        <3> DEFINE o  == IF written' THEN worldOutcome ELSE Worse(worldOutcome, "harness_error")
                   os == Judgement(judged')
        <3>1. CASE AdvanceFails(ASSERT) /\ Return("harness_error") /\ UNCHANGED measured
            BY <1>14, <3>1 DEF Assert, MeasureInv, TypeOK, Severe
        <3>2. CASE worldOutcome' = Fold(o, os) /\ Return(worldOutcome') /\ UNCHANGED imagesOK
                   /\ written' \in BOOLEAN
                   /\ judged' \in IF canceled THEN {{}} ELSE SUBSET {"pass", "inconclusive", "violation"}
            <4>1. /\ o \in WorldOutcomes
                  /\ o = "pass" => worldOutcome = "pass" /\ written'
                  /\ worldOutcome = "harness_error" => o = "harness_error"
                BY <1>14, <3>2 DEF Assert, MeasureInv, Worse, Rank
            <4>2. /\ judged' \subseteq {"pass", "inconclusive", "violation"}
                  /\ judged' # {} => ~canceled
                BY <3>2
            <4>4. os \in SUBSET WorldOutcomes /\ judged' \subseteq os /\ os # {}
                BY <4>2 DEF Judgement
            <4>5. /\ worldOutcome' \in os \cup {o}
                  /\ \A x \in os \cup {o} : Rank[x] <= Rank[worldOutcome']
                <5> HIDE DEF o, os
                <5> QED BY <3>2, <4>1, <4>4, FoldIsWorst
            <4>6. "violation" \in judged' => worldOutcome' = "violation"
                BY <4>1, <4>4, <4>5 DEF Rank
            <4>7. worldOutcome = "harness_error" => worldOutcome' \in Severe
                BY <4>1, <4>4, <4>5 DEF Rank, Severe
            <4>8. worldOutcome' = "pass" => o = "pass" /\ os = {"pass"}
                BY <4>1, <4>4, <4>5 DEF Rank
            <4>9. os = {"pass"} => judged' = {"pass"}
                BY <4>2 DEF Judgement
            <4>10. worldOutcome' \in WorldOutcomes
                BY <4>1, <4>4, <4>5
            <4> HIDE DEF o, os
            <4> QED BY <3>2, <4>1, <4>2, <4>6, <4>7, <4>8, <4>9, <4>10 DEF Outcomes
        <3> QED BY <1>14, <3>1, <3>2 DEF Assert
    <2>2. PhaseTypeOK'
        BY <1>14, <1>t, PhasesTyped DEF Assert, ASSERT, Phase, TEARDOWN, BOOT
    <2>3. /\ pc = "assert" /\ pc' = "cleanup"
          /\ UNCHANGED <<driver, canceled, ask, boot, perturb, healed, perturbation,
                         telemetry, imagesOK, returned, expired>>
        BY <1>14, <2>1 DEF Assert
    <2>4. TypeOK'
        BY <1>t, <2>1, <2>2, <2>3 DEF TypeOK, DriverTypeOK, Outcomes
    <2>5. DriverInv' /\ HealInv'
        BY <2>3 DEF DriverInv, HealInv, Signaled
    <2>6. MeasureInv'
        BY <2>1, <2>3 DEF MeasureInv
    <2>7. ProjectInv'
        BY <2>3 DEF ProjectInv
    <2>8. PassInv'
        <3> SUFFICES ASSUME outcome' = "pass"
                     PROVE  /\ imagesOK /\ written' /\ perturb /\ healed /\ report = "clean"
                            /\ ~Refusal /\ ~Signaled /\ judged' = {"pass"}
            BY <2>3 DEF PassInv, Refusal, Signaled
        <3>1. worldOutcome = "pass" /\ written' /\ judged' = {"pass"} /\ ~canceled
            BY <2>1
        <3>2. imagesOK /\ perturb /\ healed /\ ~Refusal /\ report # "dirty"
            BY <2>3, <3>1 DEF MeasureInv, HealInv
        <3>3. report = "clean"
            BY <3>2 DEF HealInv, TypeOK
        <3>4. ~Signaled
            BY <3>1, <3>2 DEF DriverInv, Refusal, Signaled
        <3> QED BY <3>1, <3>2, <3>3, <3>4
    <2>9. FoundInv'
        BY <2>1, <2>3 DEF FoundInv, MeasureInv
    <2> QED BY <2>4, <2>5, <2>6, <2>7, <2>8, <2>9
<1>15. CASE CleanupBegins
    <2> USE <1>15 DEF CleanupBegins, Unnested, MustHeal, Pert!StartHeal
    <2>1. DriverTypeOK'
        BY <1>t DEF DriverTypeOK
    <2>2. PhaseTypeOK'
        BY <1>t DEF PhaseTypeOK
    <2>3. TypeOK'
        BY <2>1, <2>2 DEF TypeOK
    <2>4. DriverInv'
        BY <1>t DEF DriverInv, Signaled
    <2>5. HealInv'
        BY DEF HealInv
    <2>6. MeasureInv'
        BY DEF MeasureInv
    <2>7. ProjectInv'
        BY DEF ProjectInv
    <2>8. PassInv'
        BY DEF PassInv, Refusal, Signaled
    <2>9. FoundInv'
        BY DEF FoundInv
    <2> QED BY <2>3, <2>4, <2>5, <2>6, <2>7, <2>8, <2>9
<1>16. CASE CleanupHealed
    <2> USE <1>16 DEF CleanupHealed, Pert!Report, AfterHeal
    <2>1. DriverTypeOK'
        BY <1>t DEF DriverTypeOK
    <2>2. PhaseTypeOK'
        BY <1>t DEF PhaseTypeOK
    <2>3. TypeOK'
        BY <2>1, <2>2, <1>o, WorseIsWorst DEF TypeOK
    <2>4. DriverInv'
        BY <1>t DEF DriverInv, Signaled
    <2>5. HealInv'
        BY DEF HealInv
    <2>6. MeasureInv'
        BY DEF MeasureInv, Worse
    <2>7. ProjectInv'
        BY DEF ProjectInv
    <2>8. PassInv'
        BY DEF PassInv, HealInv, Worse
    <2>9. FoundInv'
        BY DEF FoundInv, MeasureInv, Severe, Worse, Rank
    <2> QED BY <2>3, <2>4, <2>5, <2>6, <2>7, <2>8, <2>9
<1>17. CASE Teardown
    <2>2. PhaseTypeOK'
        BY <1>17, <1>t, PhasesTyped DEF Teardown, Phase, TEARDOWN, BOOT
    <2> USE <1>17 DEF Teardown, Advance, AdvanceFails, Stop, MayAdvance, Enters,
        Kills
    <2>1. DriverTypeOK'
        BY <1>t DEF DriverTypeOK
    <2>3. TypeOK'
        BY <2>1, <2>2 DEF TypeOK
    <2>4. DriverInv'
        BY <1>t DEF DriverInv, Signaled
    <2>5. HealInv'
        BY DEF HealInv
    <2>6. MeasureInv'
        BY DEF MeasureInv
    <2>7. ProjectInv'
        BY DEF ProjectInv
    <2>8. PassInv'
        BY DEF PassInv, DriverInv, Refusal, Signaled
    <2>9. FoundInv'
        BY DEF FoundInv
    <2> QED BY <2>3, <2>4, <2>5, <2>6, <2>7, <2>8, <2>9
<1>18. CASE CleanupStopped
    <2>3. DriverTypeOK' /\ PhaseTypeOK' => TypeOK'
        BY <1>18 DEF CleanupStopped, TypeOK
    <2> USE <1>18 DEF CleanupStopped, StopReturns
    <2>1. DriverTypeOK'
        BY <1>t DEF DriverTypeOK
    <2>2. PhaseTypeOK'
        BY <1>t DEF PhaseTypeOK
    <2>4. DriverInv'
        BY <1>t DEF DriverInv, Signaled
    <2>5. HealInv'
        BY DEF HealInv
    <2>6. MeasureInv'
        BY DEF MeasureInv
    <2>7. ProjectInv'
        BY DEF ProjectInv
    <2>8. PassInv'
        BY DEF PassInv, Refusal, Signaled
    <2>9. FoundInv'
        BY DEF FoundInv
    <2> QED BY <2>1, <2>2, <2>3, <2>4, <2>5, <2>6, <2>7, <2>8, <2>9
<1>19. CASE Cleaned
    <2>a. /\ teardownErr' \in BOOLEAN /\ keptUp' \in BOOLEAN /\ (keptUp' => topo)
          /\ project' \in {"absent", "foreign", "up", "partial"}
        <3> USE DEF TypeOK
        <3>1. CASE LeaveForeign
            BY <3>1 DEF LeaveForeign
        <3>2. CASE KeepUp
            BY <3>2 DEF KeepUp
        <3>3. CASE Down
            BY <3>3 DEF Down
        <3>4. CASE DownFails
            BY <3>4 DEF DownFails, DownError
        <3> QED BY <1>19, <3>1, <3>2, <3>3, <3>4 DEF Cleaned
    <2>b. outcome' \in {outcome, Worse(outcome, "harness_error")} /\ pc = "cDown"
        BY <1>19 DEF Cleaned, LeaveForeign, KeepUp, Down, DownFails, DownError,
            Failed
    <2>c. outcome' \in Outcomes
        BY <1>o, <2>b, WorseIsWorst
    <2>3. DriverTypeOK' /\ PhaseTypeOK' => TypeOK'
        BY <1>19, <2>a, <2>c DEF Cleaned, TypeOK
    <2> USE <1>19 DEF Cleaned, LeaveForeign, KeepUp, Down, DownFails, LeavesForeign,
        Failed, DownError
    <2>1. DriverTypeOK'
        BY <1>t DEF DriverTypeOK
    <2>2. PhaseTypeOK'
        BY <1>t DEF PhaseTypeOK
    <2>4. DriverInv'
        BY <1>t DEF DriverInv, Signaled
    <2>5. HealInv'
        BY DEF HealInv
    <2>6. MeasureInv'
        BY DEF MeasureInv, Worse
    <2>7. ProjectInv'
        BY DEF ProjectInv, MeasureInv, Severe, Worse, Rank
    <2>8. PassInv'
        BY DEF PassInv, ProjectInv, Refusal, Signaled, Worse, Rank
    <2>9. FoundInv'
        BY DEF FoundInv, Severe, Worse, Rank
    <2> QED BY <2>1, <2>2, <2>3, <2>4, <2>5, <2>6, <2>7, <2>8, <2>9
<1>20. CASE Perturbing
    <2> USE <1>20 DEF Perturbing, Pert!Apply, Pert!Lift
    <2>1. DriverTypeOK'
        BY <1>t DEF DriverTypeOK
    <2>2. PhaseTypeOK'
        BY <1>t DEF PhaseTypeOK
    <2>3. TypeOK'
        BY <2>1, <2>2 DEF TypeOK
    <2>4. DriverInv'
        BY <1>t DEF DriverInv, Signaled
    <2>5. HealInv'
        BY DEF HealInv
    <2>6. MeasureInv'
        BY DEF MeasureInv
    <2>7. ProjectInv'
        BY DEF ProjectInv
    <2>8. PassInv'
        BY DEF PassInv
    <2>9. FoundInv'
        BY DEF FoundInv
    <2> QED BY <2>3, <2>4, <2>5, <2>6, <2>7, <2>8, <2>9
<1>21. CASE Healing
    <2> USE <1>21 DEF Healing, Pert!Lift
    <2>1. DriverTypeOK'
        BY <1>t DEF DriverTypeOK
    <2>2. PhaseTypeOK'
        BY <1>t DEF PhaseTypeOK
    <2>3. TypeOK'
        BY <2>1, <2>2 DEF TypeOK
    <2>4. DriverInv'
        BY <1>t DEF DriverInv, Signaled
    <2>5. HealInv'
        BY DEF HealInv
    <2>6. MeasureInv'
        BY DEF MeasureInv
    <2>7. ProjectInv'
        BY DEF ProjectInv
    <2>8. PassInv'
        BY DEF PassInv, HealInv
    <2>9. FoundInv'
        BY DEF FoundInv
    <2> QED BY <2>3, <2>4, <2>5, <2>6, <2>7, <2>8, <2>9
<1>22. CASE Cancel
    <2> USE <1>22 DEF Cancel
    <2>1. DriverTypeOK'
        BY <1>t DEF DriverTypeOK
    <2>2. PhaseTypeOK'
        BY <1>t DEF PhaseTypeOK
    <2>3. TypeOK'
        BY <2>1, <2>2 DEF TypeOK
    <2>4. DriverInv'
        BY <1>t DEF DriverInv, Signaled
    <2>5. HealInv'
        BY DEF HealInv
    <2>6. MeasureInv'
        BY DEF MeasureInv, Refusal
    <2>7. ProjectInv'
        BY DEF ProjectInv
    <2>8. PassInv'
        BY DEF PassInv, Refusal, Signaled
    <2>9. FoundInv'
        BY DEF FoundInv
    <2> QED BY <2>3, <2>4, <2>5, <2>6, <2>7, <2>8, <2>9
<1>23. CASE DriverRuns
    <2> USE <1>23 DEF DriverRuns, Supervise, Elsewhere, StartError, Spawn, Register,
        Watchdog, Reap, NoResult, Signaled
    <2>1. DriverTypeOK'
        <3>1. res' \in {res, [started |-> FALSE, stopped |-> FALSE, failed |-> TRUE],
                        [started |-> TRUE, stopped |-> killRequested \/ watched, failed |-> ~clean]}
            OBVIOUS
        <3>2. /\ [started |-> FALSE, stopped |-> FALSE, failed |-> TRUE] \in Result
              /\ [started |-> TRUE, stopped |-> killRequested \/ watched, failed |-> ~clean] \in Result
            BY DEF Result
        <3>3. res' \in Result
            BY <1>t, <3>1, <3>2 DEF DriverTypeOK
        <3> QED BY <1>t, <3>3 DEF DriverTypeOK
    <2>2. PhaseTypeOK'
        BY <1>t DEF PhaseTypeOK
    <2>3. TypeOK'
        BY <2>1, <2>2 DEF TypeOK
    <2>4. DriverInv'
        BY <1>t DEF DriverInv
    <2>5. HealInv'
        BY DEF HealInv
    <2>6. MeasureInv'
        BY DEF MeasureInv, DriverInv, Refusal
    <2>7. ProjectInv'
        BY DEF ProjectInv
    <2>8. PassInv'
        BY DEF PassInv, DriverInv, Refusal
    <2>9. FoundInv'
        BY DEF FoundInv
    <2> QED BY <2>3, <2>4, <2>5, <2>6, <2>7, <2>8, <2>9
<1>24. CASE DriverExits
    <2> USE <1>24 DEF DriverExits, Exit, Elsewhere
    <2>1. DriverTypeOK'
        BY <1>t DEF DriverTypeOK
    <2>2. PhaseTypeOK'
        BY <1>t DEF PhaseTypeOK
    <2>3. TypeOK'
        BY <2>1, <2>2 DEF TypeOK
    <2>4. DriverInv'
        BY <1>t DEF DriverInv
    <2>5. HealInv'
        BY DEF HealInv
    <2>6. MeasureInv'
        BY DEF MeasureInv, Refusal
    <2>7. ProjectInv'
        BY DEF ProjectInv
    <2>8. PassInv'
        BY DEF PassInv, DriverInv, Refusal
    <2>9. FoundInv'
        BY DEF FoundInv
    <2> QED BY <2>3, <2>4, <2>5, <2>6, <2>7, <2>8, <2>9
<1>25. CASE Expire
    <2> USE <1>25 DEF Expire, InCleanup
    <2>1. DriverTypeOK'
        BY <1>t DEF DriverTypeOK
    <2>2. PhaseTypeOK'
        BY <1>t DEF PhaseTypeOK
    <2>3. TypeOK'
        BY <2>1, <2>2 DEF TypeOK
    <2>4. DriverInv'
        BY <1>t DEF DriverInv, Signaled
    <2>5. HealInv'
        BY DEF HealInv
    <2>6. MeasureInv'
        BY DEF MeasureInv
    <2>7. ProjectInv'
        BY DEF ProjectInv
    <2>8. PassInv'
        BY DEF PassInv, Refusal, Signaled
    <2>9. FoundInv'
        BY DEF FoundInv
    <2> QED BY <2>3, <2>4, <2>5, <2>6, <2>7, <2>8, <2>9
<1>26. CASE UNCHANGED vars
    <2> USE <1>26 DEF vars
    <2>1. DriverTypeOK'
        BY <1>t DEF DriverTypeOK
    <2>2. PhaseTypeOK'
        BY <1>t DEF PhaseTypeOK
    <2>3. TypeOK'
        BY <2>1, <2>2 DEF TypeOK
    <2>4. DriverInv'
        BY <1>t DEF DriverInv, Signaled
    <2>5. HealInv'
        BY DEF HealInv
    <2>6. MeasureInv'
        BY DEF MeasureInv, Refusal
    <2>7. ProjectInv'
        BY DEF ProjectInv
    <2>8. PassInv'
        BY DEF PassInv, Refusal, Signaled
    <2>9. FoundInv'
        BY DEF FoundInv
    <2> QED BY <2>3, <2>4, <2>5, <2>6, <2>7, <2>8, <2>9
<1> QED
    BY <1>1, <1>2, <1>3, <1>4, <1>5, <1>6, <1>7, <1>8, <1>9, <1>10, <1>11, <1>12,
        <1>13, <1>14, <1>15, <1>16, <1>17, <1>18, <1>19, <1>20, <1>21, <1>22, <1>23,
        <1>24, <1>25, <1>26 DEF Next, Lifecycle

\* The invariant holds before BOOT.
LEMMA InitIInv == Init => IInv
<1> SUFFICES ASSUME Init PROVE IInv
    OBVIOUS
<1> USE DEF Init, DriverInit, PhaseInit, Pert!Init, Early, Driving, Late, Main, AfterHEAL
<1>1. DriverTypeOK /\ PhaseTypeOK
    BY DEF DriverTypeOK, PhaseTypeOK, Result, NoResult
<1>2. effects \subseteq ask.planned
    OBVIOUS
<1>3. TypeOK
    BY <1>1, <1>2 DEF TypeOK, Outcomes
<1>4. DriverInv /\ HealInv /\ MeasureInv
    BY DEF DriverInv, HealInv, MeasureInv, NoResult
<1>5. ProjectInv /\ PassInv /\ FoundInv
    BY DEF ProjectInv, PassInv, FoundInv
<1> QED BY <1>3, <1>4, <1>5 DEF IInv

\* The invariant holds in every world.
LEMMA Invariance == Spec => []IInv
<1> QED BY InitIInv, NextIInv, PTL DEF Spec

-----------------------------------------------------------------------------
\* Type correctness of a world, its driver and its phases (runWorld,
\* internal/control/runner.go).
THEOREM WorldTypeOK == Spec => []TypeOK
<1>1. IInv => TypeOK
    BY DEF IInv
<1> QED BY <1>1, Invariance, PTL

\* A world returns "pass" only if everything was conducted, a violation
\* whenever an oracle found one, and owns up to a fault it left in force
\* (runWorld and its deferred function, internal/control/runner.go).
THEOREM WorldTellsTheTruth == Spec => []OutcomeIsTruthful
<1>1. IInv => OutcomeIsTruthful
    <2> SUFFICES ASSUME IInv PROVE OutcomeIsTruthful
        OBVIOUS
    <2> USE DEF IInv, Main, Early, Driving, Late, Done
    <2>1. PassIsEarned
        <3> SUFFICES ASSUME Done, outcome = "pass"
                     PROVE  /\ imagesOK /\ written
                            /\ perturb /\ report = "clean" /\ effects = {}
                            /\ drain = "completed" /\ proc = "exited" /\ clean /\ ~Signaled
                            /\ judged = {"pass"}
                            /\ ~teardownErr
                            /\ IF keptUp THEN project = "up" ELSE project = "absent"
            BY DEF PassIsEarned
        <3>1. /\ imagesOK /\ written /\ perturb /\ report = "clean" /\ judged = {"pass"}
              /\ ~teardownErr
              /\ (IF keptUp THEN project = "up" ELSE project = "absent") /\ ~Refusal /\ ~Signaled
            BY DEF PassInv
        <3>2. effects = {}
            BY <3>1 DEF HealInv
        <3>3. drain = "completed" /\ sup = "done" /\ res.started /\ (res.failed => res.stopped)
            BY <3>1 DEF Refusal, DriverInv
        <3>4. proc = "exited" /\ res.stopped = Signaled /\ res.failed = ~clean
            BY <3>3 DEF DriverInv
        <3>5. clean
            BY <3>1, <3>3, <3>4
        <3> QED BY <3>1, <3>2, <3>3, <3>4, <3>5
    <2>2. ViolationSticks
        BY DEF ViolationSticks, FoundInv
    <2>3. ResidueIsReported
        <3> SUFFICES ASSUME Done, effects # {} PROVE outcome \in Severe
            BY DEF ResidueIsReported
        <3>1. perturb /\ stage = "reported" /\ report = "dirty"
            BY DEF HealInv, TypeOK
        <3> QED BY <3>1 DEF FoundInv
    <2> QED BY <2>1, <2>2, <2>3 DEF OutcomeIsTruthful
<1> QED BY <1>1, Invariance, PTL

\* What a world leaves standing is kept up on purpose, or is in the error and
\* the outcome it returns (the teardown of runWorld's deferred function).
THEOREM NothingIsLeftStanding == Spec => []LeftoversAreReported
<1>1. IInv => LeftoversAreReported
    BY DEF IInv, ProjectInv, LeftoversAreReported, Done
<1> QED BY <1>1, Invariance, PTL

\* A world uses the perturber as its contract allows: what it does to the
\* faults, to HEAL and to its report are steps of Perturbation, which Executor
\* is shown to implement (runWorld with perturb.go).
THEOREM WorldKeepsTheContract == Spec => Pert!Spec
<1>1. Init => Pert!Init
    BY DEF Init
<1>2. IInv /\ [Next]_vars => [Pert!Next]_(Pert!vars)
    <2> SUFFICES ASSUME IInv, [Next]_vars PROVE [Pert!Next]_(Pert!vars)
        OBVIOUS
    <2>1. ask.planned \subseteq Effect
        BY DEF IInv, TypeOK, Ask
    <2>2. CASE Perturbing \/ Healing \/ PerturbFails
        BY <2>1, <2>2 DEF Perturbing, Healing, PerturbFails, Pert!Next, Pert!vars,
            perturbation
    <2>3. CASE Heal \/ Healed \/ CleanupBegins \/ CleanupHealed
        BY <2>3 DEF Heal, Healed, CleanupBegins, CleanupHealed, Pert!Next,
            Pert!vars, perturbation
    <2>4. CASE Boot \/ Booted \/ Seed \/ Drive \/ Compile \/ PerturbEnds \/ Quiesce \/ Drains
        BY <2>4 DEF Boot, Booted, Seed, Drive, Compile, PerturbEnds, Quiesce,
            Drains, perturbation, Pert!vars
    <2>5. CASE Stopped \/ Converge \/ Assert \/ Teardown \/ CleanupStopped \/ Cleaned
        BY <2>5 DEF Stopped, Converge, Assert, Teardown, CleanupStopped, Cleaned,
            perturbation, Pert!vars
    <2>6. CASE Cancel \/ DriverRuns \/ DriverExits \/ Expire \/ UNCHANGED vars
        BY <2>6 DEF Cancel, DriverRuns, DriverExits, Expire, Elsewhere, vars,
            perturbation, Pert!vars
    <2> QED BY <2>2, <2>3, <2>4, <2>5, <2>6 DEF Next, Lifecycle
<1> QED BY <1>1, <1>2, Invariance, PTL DEF Spec, Pert!Spec
===============================================================================
