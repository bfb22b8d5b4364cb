------------------------------- MODULE World -------------------------------
(***************************************************************************)
(* One world through its eight phases: Runner.runWorld and its deferred    *)
(* cleanup, internal/control/runner.go, composed with the driver it starts *)
(* (DriverHandle), the record of its phases (PhaseLog) and the perturber's *)
(* contract (Perturbation, which Executor is shown to implement).          *)
(*                                                                         *)
(* The compose backend is modelled by what Up and Down do to the project   *)
(* (internal/harness/compose.go).  The world's context may end at any      *)
(* moment, the cleanup's own 30 s context at any moment of the cleanup.    *)
(***************************************************************************)
EXTENDS DriverHandle, PhaseLog, Outcome

CONSTANT Effect      \* the faults a world may plan

VARIABLES
    pc,              \* the lifecycle's place in runWorld
    ask,             \* what the world was asked for: planned, keepUp, images
    project,         \* the compose project on the host
    topo,            \* topology # nil
    bootInUse,       \* Up refused the project with ErrProjectInUse
    perturb,         \* perturb # nil
    healed,          \* the HEAL step was made
    stage, effects, report,   \* Perturbation
    telemetry,       \* is the sampler running?
    worldOutcome,    \* the outcome gathered so far
    imagesOK,        \* the images are the ones asked for
    written,         \* world.thesis is on disk
    judged,          \* the outcomes of the oracles' findings
    outcome,         \* the outcome runWorld returns, "none" before it does
    teardownErr, keptUp,      \* the rest of what it returns
    expired          \* the cleanup's context has ended

perturbation == <<stage, effects, report>>
measured     == <<worldOutcome, imagesOK, written, judged>>
boot         == <<project, topo, bootInUse>>
returned     == <<teardownErr, keptUp>>

vars == <<driver, canceled, phases, pc, ask, boot, perturb, healed,
          perturbation, telemetry, measured, outcome, returned, expired>>

Pert == INSTANCE Perturbation

Ask == [planned : SUBSET Effect, keepUp : BOOLEAN, images : BOOLEAN]

Init ==
    /\ DriverInit
    /\ PhaseInit
    /\ Pert!Init
    /\ pc = "boot"
    /\ ask \in Ask
    /\ project \in {"absent", "foreign"}
    /\ topo = FALSE /\ bootInUse = FALSE
    /\ perturb = FALSE /\ healed = FALSE
    /\ telemetry = FALSE
    /\ worldOutcome = "pass"
    /\ imagesOK = FALSE /\ written = FALSE /\ judged = {}
    /\ outcome = "none"
    /\ teardownErr = FALSE /\ keptUp = FALSE
    /\ expired = FALSE

Return(o) == outcome' = o /\ pc' = "cleanup"

Go(next) == pc' = next /\ UNCHANGED outcome

-----------------------------------------------------------------------------
(* The environment of the world's goroutine.                               *)

Cancel ==
    /\ ~canceled /\ pc # "returned"
    /\ canceled' = TRUE
    /\ UNCHANGED <<driver, phases, pc, ask, boot, perturb, healed,
                   perturbation, telemetry, measured, outcome, returned, expired>>

Elsewhere ==
    UNCHANGED <<phases, pc, ask, boot, perturb, healed, perturbation, telemetry,
                measured, outcome, returned, expired>>

DriverRuns == Supervise /\ Elsewhere

DriverExits == Exit /\ Elsewhere

-----------------------------------------------------------------------------
(* BOOT: Compose.Up, then the checks on what it booted.                    *)

UpOK ==
    /\ project = "absent" /\ ~canceled
    /\ project' = "up" /\ topo' = TRUE
    /\ UNCHANGED bootInUse
    /\ Go("booted")

\* ensureFreshStorage finds containers in the project.
UpRefused ==
    /\ project = "foreign" /\ ~canceled
    /\ bootInUse' = TRUE
    /\ UNCHANGED <<project, topo>>
    /\ Return("harness_error")

\* Any other error.  A failed `compose up` is rolled back by a Down whose own
\* error is discarded, so it may leave a part of the project behind.
UpFails ==
    /\ project' \in {project} \cup (IF project = "absent" THEN {"partial"} ELSE {})
    /\ UNCHANGED <<topo, bootInUse>>
    /\ Return("harness_error")

Boot ==
    /\ pc = "boot"
    /\ \/ AdvanceFails(BOOT) /\ Return("harness_error") /\ UNCHANGED boot
       \/ Advance(BOOT) /\ (UpOK \/ UpRefused \/ UpFails)
    /\ UNCHANGED <<driver, canceled, ask, perturb, healed, perturbation,
                   telemetry, measured, returned, expired>>

\* Images other than the recorded world's, or unresolved ones.
ImagesJudged ==
    /\ imagesOK' \in IF ask.images THEN BOOLEAN ELSE {TRUE}
    /\ worldOutcome' = IF imagesOK' THEN worldOutcome
                       ELSE Worse(worldOutcome, "inconclusive")

\* The images, the published ports, the injectors and their baselines.
Booted ==
    /\ pc = "booted"
    /\ ImagesJudged
    /\ Go("seed") \/ Return("harness_error")
    /\ UNCHANGED <<driver, canceled, phases, ask, boot, perturb, healed,
                   perturbation, telemetry, written, judged, returned, expired>>

-----------------------------------------------------------------------------
(* SEED and DRIVE.                                                         *)

\* Telemetry starts, then the steady-state probe.
Seed ==
    /\ pc = "seed"
    /\ \/ AdvanceFails(SEED) /\ Return("harness_error") /\ UNCHANGED telemetry
       \/ Advance(SEED) /\ Return("harness_error") /\ telemetry' \in BOOLEAN
       \/ Advance(SEED) /\ Go("drive") /\ telemetry' = TRUE
    /\ UNCHANGED <<driver, canceled, ask, boot, perturb, healed, perturbation,
                   measured, returned, expired>>

\* The plan is written and the driver started.
Drive ==
    /\ pc = "drive"
    /\ \/ AdvanceFails(DRIVE) /\ Return("harness_error") /\ UNCHANGED <<driver, canceled>>
       \/ Advance(DRIVE) /\ Return("harness_error") /\ UNCHANGED <<driver, canceled>>
       \/ Advance(DRIVE) /\ Go("perturb") /\ Start
    /\ UNCHANGED <<ask, boot, perturb, healed, perturbation, telemetry,
                   measured, returned, expired>>

-----------------------------------------------------------------------------
(* PERTURB, nested in DRIVE.                                               *)

\* newPerturbation compiles the schedule, or refuses it.
Compile ==
    /\ pc = "perturb"
    /\ \/ NestFails(PERTURB) /\ Return("harness_error") /\ UNCHANGED perturb
       \/ Nest(PERTURB) /\ Return("harness_error") /\ UNCHANGED perturb
       \/ Nest(PERTURB) /\ Go("run") /\ perturb' = TRUE
    /\ UNCHANGED <<driver, canceled, ask, boot, healed, perturbation, telemetry,
                   measured, returned, expired>>

\* Executor.Run, or the drive window of a world with no faults.
Perturbing ==
    /\ pc = "run"
    /\ \E f \in ask.planned : Pert!Apply(f) \/ Pert!Lift(f)
    /\ UNCHANGED <<driver, canceled, phases, pc, ask, boot, perturb, healed,
                   telemetry, measured, outcome, returned, expired>>

PerturbEnds ==
    /\ pc = "run"
    /\ nested' = Unnested
    /\ Go("heal")
    /\ UNCHANGED <<driver, canceled, maxOrd, reached, ask, boot, perturb, healed,
                   perturbation, telemetry, measured, returned, expired>>

\* Run's error, which may be the context's; or the wait's, which must be.
PerturbFails ==
    /\ pc = "run"
    /\ IF ask.planned = {} THEN UNCHANGED perturbation
       ELSE Pert!Stop /\ effects' \subseteq ask.planned
    /\ \/ ask.planned # {} /\ Return("harness_error")
       \/ canceled /\ Return("canceled")
    /\ UNCHANGED <<driver, canceled, phases, ask, boot, perturb, healed,
                   telemetry, measured, returned, expired>>

-----------------------------------------------------------------------------
(* HEAL: withdraw what is still active, then verify that nothing is left.  *)

Heal ==
    /\ pc = "heal"
    /\ \/ AdvanceFails(HEAL) /\ Return("harness_error") /\ UNCHANGED perturbation
       \/ Advance(HEAL) /\ Go("healing") /\ Pert!StartHeal
    /\ UNCHANGED <<driver, canceled, ask, boot, perturb, healed, telemetry,
                   measured, returned, expired>>

Healing ==
    /\ pc \in {"healing", "cHealing"}
    /\ \E f \in ask.planned : Pert!Lift(f)
    /\ UNCHANGED <<driver, canceled, phases, pc, ask, boot, perturb, healed,
                   telemetry, measured, outcome, returned, expired>>

\* A residue, or a check that could not be made, is a harness error.
AfterHeal(o) == IF report' = "dirty" THEN Worse(o, "harness_error") ELSE o

Healed ==
    /\ pc = "healing"
    /\ Pert!Report
    /\ healed' = TRUE
    /\ worldOutcome' = AfterHeal(worldOutcome)
    /\ Go("quiesce")
    /\ UNCHANGED <<driver, canceled, phases, ask, boot, perturb, telemetry,
                   imagesOK, written, judged, returned, expired>>

-----------------------------------------------------------------------------
(* QUIESCE: drain, stop, and two rounds of convergence probes.             *)

Quiesce ==
    /\ pc = "quiesce"
    /\ \/ AdvanceFails(QUIESCE) /\ Return("harness_error") /\ UNCHANGED <<driver, canceled>>
       \/ Advance(QUIESCE) /\ Go("draining") /\ BeginDrain
    /\ UNCHANGED <<ask, boot, perturb, healed, perturbation, telemetry,
                   measured, returned, expired>>

Drains ==
    /\ pc = "draining"
    /\ \/ EndDrain /\ Go("draining")
       \/ drain # "waiting" /\ Stop /\ Go("stopping")
    /\ UNCHANGED <<phases, ask, boot, perturb, healed, perturbation, telemetry,
                   measured, returned, expired>>

\* OQ-077: a driver that cannot vouch for its history keeps the world from
\* passing.
Stopped ==
    /\ pc = "stopping"
    /\ StopReturns(canceled)
    /\ worldOutcome' = IF Refusal THEN Worse(worldOutcome, "inconclusive")
                       ELSE worldOutcome
    /\ Go("converge")
    /\ UNCHANGED <<phases, ask, boot, perturb, healed, perturbation, telemetry,
                   imagesOK, written, judged, returned, expired>>

Converge ==
    /\ pc = "converge"
    /\ Go("assert") \/ Return("harness_error")
    /\ UNCHANGED <<driver, canceled, phases, ask, boot, perturb, healed,
                   perturbation, telemetry, measured, returned, expired>>

-----------------------------------------------------------------------------
(* ASSERT: the record of the world, then the oracles.                      *)

Judgement(findings) == IF findings = {} THEN {"inconclusive"} ELSE findings

Fold(o, os) == CHOOSE w \in os \cup {o} : \A x \in os \cup {o} : Rank[x] <= Rank[w]

\* EvaluateEvery gives up on a context that has ended; the findings it had are
\* then dropped.
Assert ==
    /\ pc = "assert"
    /\ \/ AdvanceFails(ASSERT) /\ Return("harness_error") /\ UNCHANGED measured
       \/ /\ Advance(ASSERT)
          /\ written' \in BOOLEAN
          /\ judged' \in IF canceled THEN {{}}
                         ELSE SUBSET {"pass", "inconclusive", "violation"}
          /\ worldOutcome' =
                Fold(IF written' THEN worldOutcome
                     ELSE Worse(worldOutcome, "harness_error"), Judgement(judged'))
          /\ UNCHANGED imagesOK
          /\ Return(worldOutcome')
    /\ UNCHANGED <<driver, canceled, ask, boot, perturb, healed, perturbation,
                   telemetry, returned, expired>>

-----------------------------------------------------------------------------
(* The deferred cleanup: on every return, on a context of its own.         *)

InCleanup == pc \in {"cleanup", "cHealing", "cTeardown", "cStopping", "cDown"}

Expire ==
    /\ InCleanup /\ ~expired
    /\ expired' = TRUE
    /\ UNCHANGED <<driver, canceled, phases, pc, ask, boot, perturb, healed,
                   perturbation, telemetry, measured, outcome, returned>>

MustHeal == perturb /\ ~healed

CleanupBegins ==
    /\ pc = "cleanup"
    /\ nested' = Unnested
    /\ IF MustHeal THEN Pert!StartHeal /\ Go("cHealing")
       ELSE Go("cTeardown") /\ UNCHANGED perturbation
    /\ UNCHANGED <<driver, canceled, maxOrd, reached, ask, boot, perturb, healed,
                   telemetry, measured, returned, expired>>

CleanupHealed ==
    /\ pc = "cHealing"
    /\ Pert!Report
    /\ outcome' = AfterHeal(outcome)
    /\ pc' = "cTeardown"
    /\ UNCHANGED <<driver, canceled, phases, ask, boot, perturb, healed,
                   telemetry, measured, returned, expired>>

\* TEARDOWN is entered (its error is ignored) and the driver stopped.
Teardown ==
    /\ pc = "cTeardown"
    /\ Advance(TEARDOWN) \/ AdvanceFails(TEARDOWN)
    /\ IF handle = "held" THEN Stop ELSE UNCHANGED <<driver, canceled>>
    /\ Go("cStopping")
    /\ UNCHANGED <<ask, boot, perturb, healed, perturbation, telemetry,
                   measured, returned, expired>>

\* Stop has returned; telemetry is stopped and the logs are collected.
CleanupStopped ==
    /\ pc = "cStopping"
    /\ IF handle = "stopping" THEN StopReturns(expired)
       ELSE UNCHANGED <<driver, canceled>>
    /\ telemetry' = FALSE
    /\ Go("cDown")
    /\ UNCHANGED <<phases, ask, boot, perturb, healed, perturbation, measured,
                   returned, expired>>

\* Mutant of Failed: an assignment instead of a fold.
FailedOutright == outcome' = "harness_error"

Failed == outcome' = Worse(outcome, "harness_error")

\* A project Up refused to adopt is left as found, and that is recorded.
LeavesForeign == ~topo /\ bootInUse

LeaveForeign ==
    /\ LeavesForeign
    /\ teardownErr' = TRUE /\ Failed
    /\ UNCHANGED <<keptUp, project>>

\* --keep-up, once the handoff to `thesis down` is on disk.
KeepUp ==
    /\ ~LeavesForeign /\ ask.keepUp /\ topo
    /\ keptUp' = TRUE
    /\ UNCHANGED <<outcome, teardownErr, project>>

\* The topology, or by name the stand-in for one that was never returned.  Down
\* returns nil only when a listing by label shows nothing left.
Down ==
    /\ ~LeavesForeign
    /\ project' = "absent" /\ ~expired
    /\ IF ask.keepUp /\ topo THEN Failed ELSE UNCHANGED outcome
    /\ UNCHANGED <<keptUp, teardownErr>>

\* Mutant of DownError: the error is discarded.
DownErrorDiscarded == UNCHANGED <<teardownErr, outcome>>

DownError == teardownErr' = TRUE /\ Failed

\* Down removed what it could, or it could not be verified.
DownFails ==
    /\ ~LeavesForeign
    /\ project' \in {project} \cup
                    (IF expired THEN {} ELSE IF project = "absent" THEN {"absent"}
                     ELSE {"partial", "absent"})
    /\ DownError
    /\ UNCHANGED keptUp

Cleaned ==
    /\ pc = "cDown"
    /\ LeaveForeign \/ KeepUp \/ Down \/ DownFails
    /\ pc' = "returned"
    /\ UNCHANGED <<driver, canceled, phases, ask, topo, bootInUse, perturb,
                   healed, perturbation, telemetry, measured, expired>>

-----------------------------------------------------------------------------
Lifecycle ==
    \/ Boot \/ Booted \/ Seed \/ Drive \/ Compile \/ PerturbEnds \/ PerturbFails
    \/ Heal \/ Healed \/ Quiesce \/ Drains \/ Stopped \/ Converge \/ Assert
    \/ CleanupBegins \/ CleanupHealed \/ Teardown \/ CleanupStopped \/ Cleaned

Next ==
    \/ Lifecycle \/ Perturbing \/ Healing
    \/ Cancel \/ DriverRuns \/ DriverExits \/ Expire

Spec == Init /\ [][Next]_vars

\* What the design leans on: calls of the backend, probes and oracles return;
\* the process starts, and dies once signaled; a cleanup that waits times out.
\* Nothing says that a driver ends by itself.
LiveSpec ==
    /\ Spec
    /\ WF_vars(Lifecycle)
    /\ WF_vars(DriverRuns)
    /\ WF_vars(DriverExits /\ Signaled)
    /\ WF_vars(Expire)

-----------------------------------------------------------------------------
(* Properties.                                                             *)

TypeOK ==
    /\ DriverTypeOK
    /\ PhaseTypeOK
    /\ pc \in {"boot", "booted", "seed", "drive", "perturb", "run", "heal",
               "healing", "quiesce", "draining", "stopping", "converge",
               "assert", "cleanup", "cHealing", "cTeardown", "cStopping",
               "cDown", "returned"}
    /\ ask \in Ask
    /\ project \in {"absent", "foreign", "up", "partial"}
    /\ topo \in BOOLEAN /\ bootInUse \in BOOLEAN
    /\ perturb \in BOOLEAN /\ healed \in BOOLEAN
    /\ stage \in {"perturb", "stopped", "heal", "reported"}
    /\ effects \subseteq ask.planned
    /\ report \in {"none", "clean", "dirty"}
    /\ telemetry \in BOOLEAN
    /\ worldOutcome \in Outcomes
    /\ imagesOK \in BOOLEAN /\ written \in BOOLEAN
    /\ judged \subseteq {"pass", "inconclusive", "violation"}
    /\ outcome \in Outcomes \cup {"none"}
    /\ teardownErr \in BOOLEAN /\ keptUp \in BOOLEAN
    /\ keptUp => topo
    /\ expired \in BOOLEAN

Done == pc = "returned"

\* A world passes only if it was conducted: booted on the images asked for,
\* healed with nothing left in force, its driver finished with status 0 without
\* being killed, recorded on disk, judged by an oracle, and its project removed
\* and verified or kept up on purpose.
PassIsEarned ==
    Done /\ outcome = "pass" =>
        /\ imagesOK /\ written
        /\ perturb /\ report = "clean" /\ effects = {}
        /\ drain = "completed" /\ proc = "exited" /\ clean /\ ~Signaled
        /\ judged = {"pass"}
        /\ ~teardownErr
        /\ IF keptUp THEN project = "up" ELSE project = "absent"

\* A violation an oracle proved is what the world returns, whatever failed
\* before or after it.
ViolationSticks ==
    Done /\ "violation" \in judged => outcome = "violation"

\* A world that leaves a fault in force owns up to it, whichever of HEAL and the
\* cleanup came to withdraw it, and whatever the oracles said.
Severe == {"harness_error", "violation"}
ResidueIsReported == Done /\ effects # {} => outcome \in Severe

\* What a world returns is true to what happened in it.
OutcomeIsTruthful == PassIsEarned /\ ViolationSticks /\ ResidueIsReported

\* "A compose project nobody knows survived": whatever a world leaves standing
\* is kept up on purpose, or is in the error it returns and in its outcome.
LeftoversAreReported ==
    Done /\ project \in {"up", "partial"} /\ ~keptUp =>
        teardownErr /\ outcome \in Severe

\* Every world returns, whatever fails and whenever it is cancelled.  The drive
\* window (three seconds, or the length of the schedule) is taken to be longer
\* than the registration of a process that was started.
WorldReturns ==
    [](pc = "heal" => sup \notin {"starting", "spawned"}) => <>Done

-----------------------------------------------------------------------------
(* What comments of the code say of the lifecycle, and TLC refutes when a   *)
(* configuration lists them; the README tells how.                         *)

\* "The driver is stopped BEFORE the topology goes away, on every path."
DriverIsStopped == Done => proc # "up"

\* "Containers already in the project are refused, never removed."
ForeignIsLeftAlone == [][project = "foreign" => project' = "foreign"]_vars
=============================================================================
