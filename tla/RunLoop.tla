------------------------------ MODULE RunLoop ------------------------------
(***************************************************************************)
(* A run: Runner.Run in internal/control/runner.go, its budget             *)
(* (budget.go) and its verdict (verdict.go, pkg/schema/calibration.go).    *)
(*                                                                         *)
(* Worlds run one after another; each ends in an outcome World shows a     *)
(* world can return.  The wall clock advances and the run is cancelled at  *)
(* any moment.                                                             *)
(***************************************************************************)
EXTENDS Outcome, Integers, Sequences

CONSTANTS
    Profiles,      \* [worlds, wall, min]: the budgets valid profiles ask for
    CLI,           \* [worlds, wall]: --worlds and --budget, 0 when not given
    MaxWorlds,     \* bound: worlds an open-ended run is followed for
    MaxClock       \* bound: ticks of the wall clock

ASSUME RunAssumption ==
    /\ Profiles \subseteq [worlds : Int, wall : Nat \ {0}, min : Nat]
    /\ \A p \in Profiles : p.worlds >= -1 /\ p.worlds # 0
    /\ CLI \subseteq [worlds : Nat, wall : Nat]
    /\ MaxWorlds \in Nat /\ MaxClock \in Nat

VARIABLES
    profile,     \* the profile's own budget
    budget,      \* the budget enforced
    expected,    \* the calibration pole, "none" outside a calibration
    lock,        \* OracleLock.Status
    clock,       \* the wall clock
    canceled,    \* ctx.Err() # nil
    pc,          \* loop, world, fold, done
    worlds,      \* the outcomes of the worlds that finished, in order
    started,     \* worlds started
    runOutcome,  \* the fold
    verdict,     \* the verdict written
    exit         \* the exit code

vars == <<profile, budget, expected, lock, clock, canceled, pc, worlds,
          started, runOutcome, verdict, exit>>

WorldOutcome == {"pass", "canceled", "inconclusive", "harness_error", "violation"}

\* Does argv ask for less?  A profile's -1 is no limit.
Less(cli, own) == cli > 0 /\ (own < 0 \/ cli < own)

\* Mutant of Narrows: --worlds on an open-ended profile goes unrecorded.
NarrowsFinite(p, c) == Less(c.wall, p.wall) \/ (p.worlds > 0 /\ Less(c.worlds, p.worlds))

Narrows(p, c) == Less(c.wall, p.wall) \/ Less(c.worlds, p.worlds)

\* ApplyCLIOverrides: argv may only narrow, and that is recorded.
Enforced(p, c) ==
    [worlds   |-> IF Less(c.worlds, p.worlds) THEN c.worlds ELSE p.worlds,
     wall     |-> IF Less(c.wall, p.wall) THEN c.wall ELSE p.wall,
     min      |-> p.min,
     narrowed |-> Narrows(p, c)]

OpenEnded(b) == b.worlds <= 0

Init ==
    /\ profile \in Profiles
    /\ \E c \in CLI : budget = Enforced(profile, c)
    /\ expected \in {"none", "PASS", "FAIL"}
    /\ lock \in {"ok", "absent"}
    /\ clock = 0
    /\ canceled = FALSE
    /\ pc = "loop"
    /\ worlds = <<>>
    /\ started = 0
    /\ runOutcome = "pass"
    /\ verdict = "none" /\ exit = "none"

Tick ==
    /\ clock < MaxClock /\ pc # "done"
    /\ clock' = clock + 1
    /\ UNCHANGED <<profile, budget, expected, lock, canceled, pc, worlds,
                   started, runOutcome, verdict, exit>>

Cancel ==
    /\ ~canceled /\ pc # "done"
    /\ canceled' = TRUE
    /\ UNCHANGED <<profile, budget, expected, lock, clock, pc, worlds, started,
                   runOutcome, verdict, exit>>

WallExpired == clock >= budget.wall

WorldsExhausted == ~OpenEnded(budget) /\ started >= budget.worlds

MayStartWorld == ~WorldsExhausted /\ ~WallExpired

StartWorld ==
    /\ pc = "loop" /\ MayStartWorld /\ ~canceled
    /\ OpenEnded(budget) => started < MaxWorlds
    /\ started' = started + 1
    /\ pc' = "world"
    /\ UNCHANGED <<profile, budget, expected, lock, clock, canceled, worlds,
                   runOutcome, verdict, exit>>

\* Mutant of Continues: the loop goes on whatever the world found.
ContinuesAlways(o) == TRUE

\* A violation ends the run: work from the minimal reproduction.
Continues(o) == o # "violation"

FinishWorld(o) ==
    /\ pc = "world"
    /\ o = "canceled" => canceled
    /\ worlds' = Append(worlds, o)
    /\ runOutcome' = Worse(runOutcome, o)
    /\ pc' = IF Continues(o) THEN "loop" ELSE "fold"
    /\ UNCHANGED <<profile, budget, expected, lock, clock, canceled, started,
                   verdict, exit>>

BudgetStops ==
    /\ pc = "loop" /\ ~MayStartWorld
    /\ pc' = "fold"
    /\ UNCHANGED <<profile, budget, expected, lock, clock, canceled, worlds,
                   started, runOutcome, verdict, exit>>

CancelStops ==
    /\ pc = "loop" /\ MayStartWorld /\ canceled
    /\ runOutcome' = "canceled"
    /\ pc' = "fold"
    /\ UNCHANGED <<profile, budget, expected, lock, clock, canceled, worlds,
                   started, verdict, exit>>

Required == IF OpenEnded(budget) THEN IF budget.min < 1 THEN 1 ELSE budget.min
            ELSE budget.worlds

ExpiryOutcome == IF Len(worlds) >= Required THEN "pass" ELSE "budget_exhausted"

Folded == IF runOutcome = "pass" /\ WallExpired THEN ExpiryOutcome ELSE runOutcome

\* A narrowed run may not pass.
Downgraded(o) == IF budget.narrowed /\ o = "pass" THEN "inconclusive" ELSE o

Result(o) == IF o = "pass" THEN "PASS"
             ELSE IF o = "violation" THEN "FAIL"
             ELSE IF o = "budget_exhausted" THEN "BUDGET_EXHAUSTED"
             ELSE "INCONCLUSIVE"

Code(v) == IF v = "PASS" THEN "pass"
           ELSE IF v = "FAIL" THEN "fail"
           ELSE IF v = "BUDGET_EXHAUSTED" THEN "budget_exhausted"
           ELSE "inconclusive"

Decided == {"PASS", "FAIL"}

\* Mutant of Calibrated: an undecided run exits as if nothing was expected.
CalibratedByName(v) == {IF v = "FAIL" THEN "fail" ELSE "pass"}

\* The calibrated exit code: did the gate answer as its pole requires?  An
\* oracle named as the target may not be the one that fired.
Calibrated(v) == IF v \notin Decided THEN {Code(v)}
                 ELSE IF v # expected THEN {"fail"}
                 ELSE IF v = "PASS" THEN {"pass"}
                 ELSE {"pass", "fail"}

\* The verdict is built and written; a write that fails is exit 2.
Fold ==
    /\ pc = "fold"
    /\ runOutcome' = Folded
    /\ verdict' = Result(Downgraded(Folded))
    /\ lock' = IF budget.narrowed /\ lock = "ok" THEN "bypassed" ELSE lock
    /\ exit' \in {"inconclusive"} \cup
                 IF expected = "none" THEN {Code(verdict')} ELSE Calibrated(verdict')
    /\ pc' = "done"
    /\ UNCHANGED <<profile, budget, expected, clock, canceled, worlds, started>>

Next ==
    \/ Tick \/ Cancel \/ StartWorld \/ BudgetStops \/ CancelStops \/ Fold
    \/ \E o \in WorldOutcome : FinishWorld(o)

Spec == Init /\ [][Next]_vars

-----------------------------------------------------------------------------
(* Properties.                                                             *)

TypeOK ==
    /\ profile \in Profiles
    /\ budget \in [worlds : Int, wall : Nat \ {0}, min : Nat, narrowed : BOOLEAN]
    /\ expected \in {"none", "PASS", "FAIL"}
    /\ lock \in {"ok", "absent", "bypassed"}
    /\ clock \in Nat
    /\ canceled \in BOOLEAN
    /\ pc \in {"loop", "world", "fold", "done"}
    /\ worlds \in Seq(WorldOutcome)
    /\ started = Len(worlds) + (IF pc = "world" THEN 1 ELSE 0)
    /\ ~OpenEnded(budget) => started <= budget.worlds
    /\ runOutcome \in Outcomes
    /\ verdict \in {"none", "PASS", "FAIL", "INCONCLUSIVE", "BUDGET_EXHAUSTED"}
    /\ exit \in {"none", "pass", "fail", "inconclusive", "budget_exhausted"}

Ran(o) == \E i \in DOMAIN worlds : worlds[i] = o

\* PASS is "all oracles satisfied across all worlds", and the worlds are those
\* the profile asks for, whatever the command line cut.
PassMeansGatePerformed ==
    verdict = "PASS" =>
        /\ \A i \in DOMAIN worlds : worlds[i] = "pass"
        /\ IF OpenEnded(profile)
           THEN Len(worlds) >= 1 /\ Len(worlds) >= profile.min /\ clock >= profile.wall
           ELSE Len(worlds) = profile.worlds

\* The verdict is FAIL exactly when some world violated an oracle: no later
\* world, expiry, cancellation or narrowing hides it.
FailIffViolation == pc = "done" => (verdict = "FAIL" <=> Ran("violation"))

\* Exit 0 is a PASS that was wanted, or a FAIL a calibration arm expected; a run
\* that decided nothing never exits 0 or 1.
ExitIsTruthful ==
    /\ exit = "pass" => \/ verdict = "PASS" /\ expected # "FAIL"
                        \/ verdict = "FAIL" /\ expected = "FAIL"
    /\ exit = "fail" => verdict \in {"PASS", "FAIL"}

\* The verdict and the exit code of a run say what its worlds found: PASS is the
\* whole gate, FAIL a violation that nothing hid, and the exit code follows.
RunIsTruthful == PassMeansGatePerformed /\ FailIffViolation /\ ExitIsTruthful

\* A run whose gate the command line moved never claims the lock covered it.
NarrowedIsNotLocked ==
    pc = "done" /\ (budget.worlds # profile.worlds \/ budget.wall # profile.wall)
        => lock # "ok" /\ verdict # "PASS"

-----------------------------------------------------------------------------
(* What a comment of the code says of the fold, and TLC refutes when a       *)
(* configuration lists it; the README tells how.                           *)

\* "A run folds its worlds by repeated application" of Worse.
RunIsWorstWorld ==
    pc = "done" => \A i \in DOMAIN worlds : Rank[runOutcome] >= Rank[worlds[i]]
=============================================================================
