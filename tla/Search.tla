------------------------------- MODULE Search -------------------------------
(***************************************************************************)
(* The adversarial search: internal/search/engine/engine.go, with the      *)
(* Saboteur that proposes its worlds and the parallel runner               *)
(* (internal/control/parallel.go) that executes them.                      *)
(*                                                                         *)
(* One goroutine proposes a batch of worlds, waits for all of them and     *)
(* hands their outcomes to the strategy in the order they were proposed;   *)
(* the worlds of a batch run at once and end in any order.  A world that   *)
(* leaves its project behind takes its lane with it, a batch may be        *)
(* refused before any of its worlds starts, and the run is cancelled or    *)
(* its time used up at any moment.                                         *)
(***************************************************************************)
EXTENDS Saboteur, Outcome

CONSTANTS
    Workers,       \* lanes, and worlds asked for at a time
    Worlds,        \* the budget's worlds
    Results        \* [is, novel]: how a world may end, and was its coverage new

\* What the oracles of a world established.  A violation glimpsed in DRIVE by an
\* oracle whose class is not prefix-closed does not end the search.
Ends == {"clean", "unknown", "failed", "violated", "glimpsed"}

ASSUME SearchAssumption ==
    /\ Workers \in 1..Worlds /\ Worlds \in Nat
    /\ Results \subseteq [is : Ends, novel : BOOLEAN]

VARIABLES
    narrowed,      \* the budget was narrowed, or a world left the locked workload
    canceled,      \* ctx.Err() # nil
    expired,       \* BudgetTracker.WallExpired
    pc,            \* loop, propose, run, absorb, decide, done
    ordinal,       \* worlds proposed so far
    started,       \* worlds the budget has counted, started and finished alike
    batch,         \* the worlds of the batch: what each is for, and how it ended
    at,            \* the world of the batch absorb is at
    retired,       \* lanes whose project may still be there
    runErr,        \* what ParallelRunner.Run returned with the outcomes
    worst,         \* the worst outcome of a world, "none" before the first
    violation,     \* the batch holds a violation that ends a search
    verdict,
    told,          \* history: what the strategy was told of each node's rollout
    hit,           \* history: some world violated an oracle
    unrun          \* history: some world counted by the budget never ran

engine == <<narrowed, canceled, expired, pc, ordinal, started, batch, at, retired,
            runErr, worst, violation, verdict>>
history == <<told, hit, unrun>>
vars == <<engine, saboteur, history>>

Init ==
    /\ SaboteurInit
    /\ narrowed \in BOOLEAN
    /\ canceled = FALSE /\ expired = FALSE
    /\ pc = "loop"
    /\ ordinal = 0 /\ started = 0
    /\ batch = <<>> /\ at = 1
    /\ retired = 0
    /\ runErr = "none"
    /\ worst = "none"
    /\ violation = FALSE
    /\ verdict = "none"
    /\ told = [p \in Probe |-> [n \in Node |-> {}]]
    /\ hit = FALSE /\ unrun = FALSE

Cancel ==
    /\ ~canceled /\ pc # "done"
    /\ canceled' = TRUE
    /\ UNCHANGED <<narrowed, expired, pc, ordinal, started, batch, at, retired,
                   runErr, worst, violation, verdict, saboteur, history>>

Expire ==
    /\ ~expired /\ pc # "done"
    /\ expired' = TRUE
    /\ UNCHANGED <<narrowed, canceled, pc, ordinal, started, batch, at, retired,
                   runErr, worst, violation, verdict, saboteur, history>>

-----------------------------------------------------------------------------
(* The verdict.                                                            *)

\* How control reports the end of a world.
OutcomeOf(is) ==
    IF is = "clean" THEN "pass"
    ELSE IF is = "unknown" THEN "inconclusive"
    ELSE IF is \in {"failed", "refused"} THEN "harness_error"
    ELSE IF is = "canceled" THEN "canceled"
    ELSE "violation"

\* Mutant of Canceled: a cancelled search reports nothing but that.
CanceledAlways(o) == IF canceled THEN "canceled" ELSE o

\* Cancellation does not hide a violation.
Canceled(o) == IF canceled /\ worst # "violation" THEN Worse(o, "canceled") ELSE o

\* finish: the fold, and what a failed proposal, cancellation, the end of the
\* time and a narrowed budget make of it.
Finish(fatal) ==
    LET ran == IF worst = "none" THEN "inconclusive" ELSE worst
        o == Canceled(IF fatal THEN Worse(ran, "harness_error") ELSE ran)
        e == IF o = "pass" /\ expired /\ started < Worlds THEN "budget_exhausted" ELSE o
    IN  /\ pc' = "done"
        /\ verdict' = IF e = "pass" THEN IF narrowed THEN "INCONCLUSIVE" ELSE "PASS"
                      ELSE IF e = "violation" THEN "FAIL"
                      ELSE IF e = "budget_exhausted" THEN "BUDGET_EXHAUSTED"
                      ELSE "INCONCLUSIVE"
        /\ UNCHANGED <<narrowed, canceled, expired, ordinal, started, batch, at,
                       retired, runErr, worst, violation>>

-----------------------------------------------------------------------------
(* Proposing a batch.                                                      *)

MayStartWorld == started < Worlds /\ ~expired

Stop ==
    /\ pc = "loop" /\ (~MayStartWorld \/ canceled)
    /\ Finish(FALSE)
    /\ UNCHANGED <<saboteur, history>>

\* The probe stage may have used up its share of the budget.
Begin ==
    /\ pc = "loop" /\ MayStartWorld /\ ~canceled
    /\ pc' = "propose"
    /\ EndProbeStage \/ UNCHANGED saboteur
    /\ batch' = <<>>
    /\ UNCHANGED <<narrowed, canceled, expired, ordinal, started, at, retired,
                   runErr, worst, violation, verdict, history>>

\* Mutant of Fits: the worlds of this batch are not counted.
FitsLate == MayStartWorld

\* One more world fits the budget.  The worlds of the batch are in ordinal already
\* and are added once more.
Fits == (batch # <<>> => MayStartWorld) /\ ordinal + Len(batch) < Worlds

Proposing == pc = "propose" /\ Len(batch) < Workers /\ Fits

Take(what) ==
    /\ Proposing /\ ~canceled
    /\ batch' = Append(batch, [for |-> what, is |-> "proposed", novel |-> FALSE])
    /\ ordinal' = ordinal + 1
    /\ UNCHANGED <<canceled, expired, pc, started, at, retired, runErr, worst,
                   violation, verdict, history>>

TakeProbe == Take(ForProbe(probeNext)) /\ ProposeProbe /\ UNCHANGED narrowed

TakeRollout(n) ==
    /\ rotation # <<>>
    /\ Take(ForNode(Current, n)) /\ ProposeRollout(n)
    /\ UNCHANGED narrowed

\* A mutation may swap the driver's profile for one that no run profile names.
TakeMutation ==
    /\ Take(Mutation) /\ ProposeMutation
    /\ narrowed' \in {narrowed, TRUE}

\* The strategy turns to its trees, or away from them.
Turn ==
    /\ Proposing
    /\ BuildEscalation \/ RetireTree
    /\ UNCHANGED <<engine, history>>

\* A failed proposal ends the batch, and the search if the batch is empty.
ProposalFails ==
    /\ Proposing
    /\ \/ canceled /\ UNCHANGED saboteur
       \/ \E n \in Node : RolloutRefused(n)
       \/ ProposeMutation
    /\ IF batch = <<>>
       THEN Finish(TRUE)
       ELSE /\ pc' = "run"
            /\ started' = started + Len(batch)
            /\ UNCHANGED <<narrowed, canceled, expired, ordinal, batch, at, retired,
                           runErr, worst, violation, verdict>>
    /\ UNCHANGED history

Submit ==
    /\ pc = "propose" /\ (Len(batch) = Workers \/ ~Fits)
    /\ IF batch = <<>>
       THEN Finish(FALSE)
       ELSE /\ pc' = "run"
            /\ started' = started + Len(batch)
            /\ UNCHANGED <<narrowed, canceled, expired, ordinal, batch, at, retired,
                           runErr, worst, violation, verdict>>
    /\ UNCHANGED <<saboteur, history>>

-----------------------------------------------------------------------------
(* ParallelRunner.Run.                                                     *)

Is(i, is) == batch[i].is = is
InFlight == Cardinality({i \in DOMAIN batch : Is(i, "running")})

\* The requests are submitted in order.
NextRequest(i) ==
    pc = "run" /\ Is(i, "proposed") /\ \A j \in 1..(i - 1) : ~Is(j, "proposed")

\* Too few bridge networks, or a port that is taken: no world of the batch runs.
RefuseBatch ==
    /\ NextRequest(1)
    /\ runErr' = "preflight"
    /\ batch' = <<>>
    /\ pc' = "decide"
    /\ unrun' = TRUE
    /\ UNCHANGED <<narrowed, canceled, expired, ordinal, started, at, retired, worst,
                   violation, verdict, saboteur, told, hit>>

StartWorld(i) ==
    /\ NextRequest(i) /\ InFlight + retired < Workers
    /\ batch' = [batch EXCEPT ![i].is = "running"]
    /\ UNCHANGED <<narrowed, canceled, expired, pc, ordinal, started, at, retired,
                   runErr, worst, violation, verdict, saboteur, history>>

\* Mutant of Exhausted: a lane may always come back.
ExhaustedNever == FALSE

\* exhaustedLocked: every lane is retired, and nothing runs that could free one.
Exhausted == retired = Workers

\* A world that gets no lane: the context is over, or every lane is retired.
NoLane(i) ==
    /\ NextRequest(i)
    /\ \/ /\ canceled
          /\ batch' = [batch EXCEPT ![i].is = "canceled"]
          /\ UNCHANGED runErr
       \/ /\ canceled /\ InFlight + retired = Workers
          /\ batch' = [batch EXCEPT ![i].is = "refused"]
          /\ runErr' = IF runErr = "none" THEN "canceled" ELSE runErr
       \/ /\ Exhausted
          /\ batch' = [batch EXCEPT ![i].is = "refused"]
          /\ runErr' = IF runErr = "none" THEN "exhausted" ELSE runErr
    /\ unrun' = TRUE
    /\ UNCHANGED <<narrowed, canceled, expired, pc, ordinal, started, at, retired,
                   worst, violation, verdict, saboteur, told, hit>>

\* A world returns; one whose teardown was not verified retires its lane.
WorldReturns(i) ==
    /\ pc = "run" /\ Is(i, "running")
    /\ \/ \E r \in Results :
             /\ batch' = [batch EXCEPT ![i].is = r.is, ![i].novel = r.novel]
             /\ retired' \in {retired} \cup
                   IF r.is \in {"failed", "violated"} THEN {retired + 1} ELSE {}
             /\ hit' = (hit \/ OutcomeOf(r.is) = "violation")
       \/ /\ canceled
          /\ batch' = [batch EXCEPT ![i].is = "canceled"]
          /\ UNCHANGED <<retired, hit>>
    /\ UNCHANGED <<narrowed, canceled, expired, pc, ordinal, started, at, runErr,
                   worst, violation, verdict, saboteur, told, unrun>>

\* Every world has its outcome, in the order of the requests.
RunReturns ==
    /\ pc = "run" /\ \A i \in DOMAIN batch : ~Is(i, "proposed") /\ ~Is(i, "running")
    /\ pc' = "absorb"
    /\ at' = 1
    /\ violation' = FALSE
    /\ UNCHANGED <<narrowed, canceled, expired, ordinal, started, batch, retired,
                   runErr, worst, verdict, saboteur, history>>

-----------------------------------------------------------------------------
(* Absorbing it.                                                           *)

\* Mutant of Absorbed: the outcomes are paired from the end of the batch.
AbsorbedBackwards == batch[Len(batch) + 1 - at].for

\* The proposal an outcome is matched with, by its ordinal.
Absorbed == batch[at].for

\* rolloutResult: what search.Outcome makes of a world.
Evidence(w) ==
    [novel      |-> w.novel,
     violations |-> IF OutcomeOf(w.is) = "violation" THEN 1 ELSE 0,
     evaluable  |-> w.is \in {"clean", "violated", "glimpsed"}]

Absorb ==
    /\ pc = "absorb" /\ at <= Len(batch)
    /\ LET w == batch[at]
           o == OutcomeOf(w.is)
       IN  /\ worst' = IF worst = "none" THEN o ELSE Worse(worst, o)
           /\ violation' = (violation \/ w.is = "violated")
           /\ IF canceled THEN UNCHANGED <<saboteur, told>>
              ELSE /\ Observe(Absorbed, Evidence(w))
                   /\ told' = IF w.for.by = "tree"
                              THEN [told EXCEPT ![w.for.probe][w.for.node] = @ \cup {Evidence(w)}]
                              ELSE told
    /\ at' = at + 1
    /\ UNCHANGED <<narrowed, canceled, expired, pc, ordinal, started, batch, retired,
                   runErr, verdict, hit, unrun>>

Absorbs ==
    /\ pc = "absorb" /\ at > Len(batch)
    /\ pc' = "decide"
    /\ batch' = <<>> /\ at' = 1
    /\ UNCHANGED <<narrowed, canceled, expired, ordinal, started, retired, runErr,
                   worst, violation, verdict, saboteur, history>>

\* A violation ends the search, unless it was found while probing; so does a pool
\* with no lane left.  Any other error of the batch is only logged.
Over == runErr = "exhausted" \/ canceled \/ (violation /\ stage # "probe")

Decide ==
    /\ pc = "decide"
    /\ IF Over
       THEN Finish(FALSE)
       ELSE /\ pc' = "loop"
            /\ runErr' = "none" /\ violation' = FALSE
            /\ UNCHANGED <<narrowed, canceled, expired, ordinal, started, batch, at,
                           retired, worst, verdict>>
    /\ UNCHANGED <<saboteur, history>>

-----------------------------------------------------------------------------
Engine ==
    \/ Stop \/ Begin \/ TakeProbe \/ TakeMutation \/ Turn \/ ProposalFails \/ Submit
    \/ \E n \in Node : TakeRollout(n)
    \/ RefuseBatch \/ RunReturns \/ Absorb \/ Absorbs \/ Decide
    \/ \E i \in DOMAIN batch : StartWorld(i) \/ NoLane(i)

Next ==
    \/ Cancel \/ Expire
    \/ Engine
    \/ \E i \in 1..Workers : i \in DOMAIN batch /\ WorldReturns(i)

\* Every world returns (World!WorldReturns), and the engine's goroutine runs.
Fairness ==
    /\ WF_vars(Engine)
    /\ \A i \in 1..Workers : WF_vars(i \in DOMAIN batch /\ WorldReturns(i))

Spec == Init /\ [][Next]_vars /\ Fairness

-----------------------------------------------------------------------------
(* Properties.                                                             *)

TypeOK ==
    /\ probeNext \in 0..(Probes + 1) /\ probeDone \in BOOLEAN
    /\ reinforcing \subseteq Probe
    /\ stage \in {"probe", "escalate", "mutate"} /\ escBuilt \in BOOLEAN
    /\ rotation \in Seq(Probe) /\ turn \in Nat /\ tried \in 0..MaxTrees
    /\ \A p \in Probe : /\ tree[p].expanded \cup tree[p].pending \cup tree[p].pruned \subseteq Node
                        /\ tree[p].visits \in [Node -> Nat]
    /\ {narrowed, canceled, expired, violation, hit, unrun} \subseteq BOOLEAN
    /\ pc \in {"loop", "propose", "run", "absorb", "decide", "done"}
    /\ ordinal \in 0..Worlds /\ at \in 1..(Workers + 1) /\ retired \in 0..Workers
    /\ Len(batch) <= Workers
    /\ runErr \in {"none", "preflight", "canceled", "exhausted"}
    /\ worst \in Outcomes \cup {"none"}
    /\ verdict \in {"none", "PASS", "FAIL", "INCONCLUSIVE", "BUDGET_EXHAUSTED"}

\* The search never counts more worlds than its budget, and it passes only when it
\* has counted them all.
BudgetIsMet == started <= Worlds /\ (verdict = "PASS" => started = Worlds)

\* The verdict is FAIL exactly when some world violated an oracle, whenever the
\* search was cancelled, ran out of time, of lanes or of proposals.
FailIffViolation == pc = "done" => (verdict = "FAIL" <=> hit)

\* The verdict is what the worlds that ran make it.
VerdictIsTruthful == BudgetIsMet /\ FailIffViolation

Told(p, n) == UNION {told[p][m] : m \in Subtree(n)}

\* What a node of a tree adds up to is what the worlds proposed from its subtree
\* established, each counted once, though batches run them side by side.
EvidenceIsOwn ==
    \A p \in Probe, n \in Node :
        LET T == {m \in Subtree(n) : told[p][m] # {}}
        IN  /\ tree[p].visits[n] = Cardinality(T)
            /\ tree[p].novel[n] = (\E e \in Told(p, n) : e.novel)
            /\ tree[p].violations[n] =
                   Cardinality({m \in T : \E e \in told[p][m] : e.violations = 1})

\* No schedule of a tree is executed twice, in one batch or in two.
NoRolloutTwice ==
    \A i \in DOMAIN batch : batch[i].for.by = "tree" /\ pc \in {"propose", "run"} =>
        /\ told[batch[i].for.probe][batch[i].for.node] = {}
        /\ \A j \in DOMAIN batch : batch[j].for = batch[i].for => j = i

\* The lanes that work on one tree side by side count each world once and run each
\* schedule once.
TreesAreAccountedFor == EvidenceIsOwn /\ NoRolloutTwice

\* The search returns, whatever its worlds do.
SearchReturns == <>(pc = "done")

-----------------------------------------------------------------------------
(* What comments of the code say, and TLC refutes when a configuration     *)
(* lists them; the README tells how.                                       *)

\* "A finite profile is a PASS only if every planned world finished."
PassMeansEveryWorldRan == verdict = "PASS" => ~unrun

\* "A tree that reports itself exhausted is retired rather than retried; when every
\* tree is exhausted it returns ErrExhaustedTree": the trees that are then dropped
\* have nothing left to execute.
DroppedTreesAreExhausted ==
    [][rotation # <<>> /\ rotation' = <<>> /\ ~unrun =>
           \A i \in DOMAIN rotation : Unexecuted(tree[rotation[i]]) = {}]_vars
=============================================================================
