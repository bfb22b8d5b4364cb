------------------------------- MODULE Shrink -------------------------------
(***************************************************************************)
(* `thesis shrink`: shrink.Run of internal/shrink/pipeline.go with its     *)
(* stages (stages.go, ddmin.go, narrow.go, confirm.go), and the commit of  *)
(* the confirmed world to the corpus (cmd/thesis/shrink.go,                *)
(* internal/corpus/corpus.go).                                             *)
(*                                                                         *)
(* A fault is its position in the schedule, and keeps its window; an       *)
(* operation is its position in the trace.                                 *)
(***************************************************************************)
EXTENDS Prober, Functions

CONSTANTS
    Windows,          \* of the faults, in order: <<start, end>>
    OpCount,          \* operations of the trace
    Granularity,      \* Policy.NarrowGranularityMS
    NarrowMaxProbes

ASSUME ShrinkAssumption ==
    /\ Windows \in Seq(Nat \X Nat) /\ \A i \in DOMAIN Windows : Windows[i][1] <= Windows[i][2]
    /\ OpCount \in Nat \ {0} /\ Granularity \in Nat \ {0} /\ NarrowMaxProbes \in Nat \ {0}

VARIABLES
    stage,        \* baseline, probe, faults, ops,
                  \* narrow, gate, confirm, commit, plan, done, killed
    faults,       \* fault |-> window, of the faults that survive
    ops,          \* the operations kept: Every for the whole workload (nil)
    gran, half,   \* of ddmin: its granularity, and what it tests next
    window,       \* of the narrowing: fault, side, lo, hi, probes
    stop,         \* Result.Stop
    trials,       \* Confirmation.Trials
    reproduced,   \* and Confirmation.Reproduced
    entry,        \* what the corpus holds under the world's name: world, plan
    exitCode,
    grounds,      \* history: how often the surviving candidate was seen to fail
    since         \* history: the level at which ddmin over the faults began

pipeline == <<stage, faults, ops, gran, half, window, stop, trials, reproduced>>
corpus == <<entry, exitCode>>
history == <<grounds, since>>
shrinkVars == <<prober, pipeline, corpus, history>>

Every == {0}
AllOps == 1..OpCount
Whole == [faults |-> Windows, ops |-> Every]
Current == [faults |-> faults, ops |-> ops]

Nowhere == [fault |-> 0, side |-> "end", lo |-> 0, hi |-> 0, probes |-> 0]

ShrinkInit ==
    /\ ProberInit
    /\ stage = IF opt.baseline THEN "baseline" ELSE "faults"
    /\ faults = Windows /\ ops = Every
    /\ gran = 2 /\ half = (IF Len(Windows) >= 2 THEN "parts" ELSE IF Len(Windows) = 1 THEN "empty" ELSE "over")
    /\ window = Nowhere
    /\ stop = Complete /\ trials = 0 /\ reproduced = 0
    /\ entry = opt.found /\ exitCode = -1
    /\ grounds = [of |-> Whole, shown |-> NoEvidence] /\ since = level

-----------------------------------------------------------------------------
(* ddmin.go, over the positions of a list.                                 *)

\* partition: contiguous and near-equal.
Parts(c, n) ==
    [p \in 1..n |-> {e \in c : LET r == Cardinality({x \in c : x <= e})
                               IN  ((p - 1) * Cardinality(c)) \div n < r
                                   /\ r <= (p * Cardinality(c)) \div n}]

Complements(c, n) == [p \in 1..n |-> c \ Parts(c, n)[p]]

\* The subsets ddmin offers next.
Subsets(c) ==
    CASE half = "parts" -> Parts(c, gran)
      [] half = "complements" -> Complements(c, gran)
      [] half = "empty" -> <<{}>>

\* Mutant of Finest: it stops a doubling early.
FinestTooEarly(c) == 2 * gran >= Cardinality(c)

\* Every single element has been tried: nothing further can come out.
Finest(c) == gran >= Cardinality(c)

\* The loop top: granularity n over what is left.
Loop(c, n) ==
    /\ gran' = Min({n, Cardinality(c)})
    /\ half' = IF Cardinality(c) >= 2 THEN "parts" ELSE IF Cardinality(c) = 1 THEN "empty" ELSE "over"

\* What an answer does to ddmin over c; the subset accepted is `kept`.
Reduce(c, kept) ==
    IF answer.index > 0
      THEN IF half = "empty" THEN gran' = gran /\ half' = "over"
           ELSE Loop(kept, IF half = "parts" THEN 2 ELSE Max({2, gran - 1}))
    ELSE IF half = "parts" /\ gran > 2 THEN half' = "complements" /\ gran' = gran
    ELSE IF half = "empty" \/ Finest(c) THEN half' = "over" /\ gran' = gran
    ELSE Loop(c, 2 * gran)

-----------------------------------------------------------------------------
(* narrow.go, one fault after the other: its end in, then its start out.   *)

Length(w) == w[2] - w[1]

More(n) == n.hi - n.lo > Granularity /\ n.probes < NarrowMaxProbes

\* The next fault whose window is worth it.
FaultFrom(fs, i) ==
    LET long == {j \in DOMAIN fs : j >= i /\ Length(fs[j]) > Granularity}
    IN  IF long = {} THEN Nowhere
        ELSE [Nowhere EXCEPT !.fault = Min(long), !.lo = fs[Min(long)][1], !.hi = fs[Min(long)][2]]

\* The probe after n, given the windows reached.
Onward(n, fs) ==
    LET out == [n EXCEPT !.side = "start", !.lo = fs[n.fault][1], !.hi = fs[n.fault][2], !.probes = 0]
    IN  IF More(n) THEN n
        ELSE IF n.side = "end" /\ More(out) THEN out
        ELSE FaultFrom(fs, n.fault + 1)

Middle(n) ==
    IF n.side = "end" THEN n.lo + (n.hi - n.lo) \div 2 ELSE n.lo + (n.hi - n.lo + 1) \div 2

\* The window probed.
Narrowed(n) ==
    IF n.side = "end" THEN <<faults[n.fault][1], Middle(n)>> ELSE <<Middle(n), faults[n.fault][2]>>

\* Mutant of Bisected: a probe that fails moves the good side too.
BisectedWrong(n, ok) ==
    LET m == [n EXCEPT !.probes = @ + 1]
    IN  IF n.side = "end" THEN [m EXCEPT !.hi = Middle(n)] ELSE [m EXCEPT !.lo = Middle(n)]

\* The interval after a probe.
Bisected(n, ok) ==
    LET m == [n EXCEPT !.probes = @ + 1]
    IN  IF n.side = "end"
          THEN IF ok THEN [m EXCEPT !.hi = Middle(n)] ELSE [m EXCEPT !.lo = Middle(n) + 1]
          ELSE IF ok THEN [m EXCEPT !.lo = Middle(n)] ELSE [m EXCEPT !.hi = Middle(n) - 1]

\* The window the fault has then: what is known to reproduce on either side.
Reached(n) ==
    IF n.side = "end" THEN <<faults[n.fault][1], n.hi>> ELSE <<n.lo, faults[n.fault][2]>>

-----------------------------------------------------------------------------
(* The stages.                                                             *)

Candidates ==
    CASE stage = "baseline" -> <<Whole>>
      [] stage = "faults" ->
           [p \in DOMAIN Subsets(DOMAIN faults) |->
               [faults |-> Restrict(faults, Subsets(DOMAIN faults)[p]), ops |-> ops]]
      [] stage = "ops" -> [p \in DOMAIN Subsets(ops) |-> [faults |-> faults, ops |-> Subsets(ops)[p]]]
      [] stage = "narrow" ->
           <<[faults |-> [faults EXCEPT ![window.fault] = Narrowed(window)], ops |-> ops]>>

\* Another question to ask; ddmin looks at the context at the top of its loop.
AnotherQuestion ==
    \/ stage = "baseline"
    \/ stage \in {"faults", "ops"} /\ half # "over" /\ ~(half = "parts" /\ interrupted)
    \/ stage = "narrow"

Judge == (cpc # "idle" \/ AnotherQuestion) /\ Probing(Candidates, Whole) /\ UNCHANGED <<pipeline, corpus, history>>

AnswerIs(s) == Taken /\ stage = s /\ UNCHANGED <<opt, ledger, identity, cache, pending, tallies, got, granted, reason, wholeDrifted>>

\* What the executions of the candidate now adopted have shown.
Ground(c) == grounds' = [of |-> c, shown |-> shown[answer.index]]

\* The stages stop here; what was reached goes to the gate.
StopWith(s) == stop' = s /\ stage' = "gate"

\* Mutant of Passed: k itself need not be reached.
PassedWhenShort == trials > 0 /\ reproduced = trials

Passed == trials >= ConfirmK /\ reproduced = trials

\* shrinkExitCode.
Exits(s) ==
    exitCode' = CASE s \in {"wall", "worlds"} -> 3
              [] s = "unjudgeable" -> 2
              [] OTHER -> IF s = "not_reproduced" \/ ~Passed THEN 1 ELSE 0

\* runBaseline.  An unreduced world that drifts has lowered the level within its
\* own call, so what it says after that needs no second look.
BaselineAnswered ==
    /\ AnswerIs("baseline")
    /\ LET s == IF answer.stop # Complete THEN answer.stop
                ELSE IF answer.signal = "unknown" THEN "unjudgeable"
                ELSE IF answer.signal = "rejected" THEN "not_reproduced"
                ELSE Complete
       IN  /\ stop' = s
           /\ IF s # Complete THEN stage' = "done" /\ Exits(s)
              ELSE stage' = (IF opt.typed = "default" THEN "probe" ELSE "faults") /\ UNCHANGED exitCode
    /\ grounds' = IF answer.index = 1 THEN [of |-> Whole, shown |-> shown[1]] ELSE grounds
    /\ since' = level
    /\ UNCHANGED <<faults, ops, gran, half, window, trials, reproduced, entry>>

\* Stage 0's own experiment: the unreduced world once more, whatever the memo
\* says.  If it could not be made, the level stands.
ProbeTheKey ==
    /\ stage = "probe" /\ stage' = "faults"
    /\ \E x \in Single :
          /\ Charge(x)
          /\ wholeDrifted' = (wholeDrifted \/ Drifts(x.seen, "key"))
          /\ IF x.stop = Complete /\ Drifts(x.seen, level)
               THEN Relax(<<>>)
               ELSE /\ drifts' = drifts \cup Noted(x.seen, Whole, Whole)
                    /\ UNCHANGED <<level, calibrated, cache>>
    /\ since' = level'
    /\ UNCHANGED <<opt, interrupted, expired, reserve, mayCalibrate, reprobes, call, faults, ops, gran,
                   half, window, stop, trials, reproduced, corpus, grounds>>

\* shrinkFaults: ddmin takes the answer.
FaultsAnswered ==
    LET c == DOMAIN faults
        kept == IF answer.index > 0 THEN Subsets(c)[answer.index] ELSE c
    IN  /\ AnswerIs("faults")
        /\ faults' = Restrict(faults, kept)
        /\ IF answer.index > 0 THEN Ground([Current EXCEPT !.faults = Restrict(faults, kept)])
           ELSE UNCHANGED grounds
        /\ IF answer.stop # Complete THEN StopWith(answer.stop) /\ UNCHANGED <<gran, half>>
           ELSE Reduce(c, kept) /\ UNCHANGED <<stage, stop>>
        /\ UNCHANGED <<ops, window, trials, reproduced, corpus, since>>

\* shrinkOps, the same over the operations.
OpsAnswered ==
    LET kept == IF answer.index > 0 THEN Subsets(ops)[answer.index] ELSE ops
    IN  /\ AnswerIs("ops")
        /\ ops' = kept
        /\ IF answer.index > 0 THEN Ground([Current EXCEPT !.ops = kept]) ELSE UNCHANGED grounds
        /\ IF answer.stop # Complete THEN StopWith(answer.stop) /\ UNCHANGED <<gran, half>>
           ELSE Reduce(ops, kept) /\ UNCHANGED <<stage, stop>>
        /\ UNCHANGED <<faults, window, trials, reproduced, corpus, since>>

\* narrowOne: the probe's answer moves one side of the interval.
NarrowAnswered ==
    LET ok == answer.index > 0
        m == Bisected(window, ok)
        reached == [faults EXCEPT ![window.fault] = Reached(m)]
    IN  /\ AnswerIs("narrow")
        /\ IF answer.stop # Complete
             THEN StopWith(answer.stop) /\ UNCHANGED <<faults, window>>
             ELSE /\ faults' = reached
                  /\ window' = Onward(m, reached)
                  /\ stage' = (IF window'.fault = 0 THEN "gate" ELSE "narrow") /\ UNCHANGED stop
        /\ IF ok THEN Ground([Current EXCEPT !.faults[window.fault] = Narrowed(window)])
           ELSE UNCHANGED grounds
        /\ UNCHANGED <<ops, gran, half, trials, reproduced, corpus, since>>

\* Stage 2 where there is a plan to reduce, else stage 3; from here on the
\* operations are named one by one.
EndFaults ==
    /\ stage = "faults" /\ cpc = "idle" /\ half = "over"
    /\ IF opt.ops
         THEN /\ stage' = "ops" /\ ops' = AllOps
              /\ Loop(AllOps, 2) /\ UNCHANGED window
         ELSE /\ window' = (IF opt.narrow THEN FaultFrom(faults, 1) ELSE Nowhere)
              /\ stage' = (IF window'.fault = 0 THEN "gate" ELSE "narrow")
              /\ UNCHANGED <<ops, gran, half>>
    /\ UNCHANGED <<prober, faults, stop, trials, reproduced, corpus, history>>

EndOps ==
    /\ stage = "ops" /\ cpc = "idle" /\ half = "over"
    /\ window' = (IF opt.narrow THEN FaultFrom(faults, 1) ELSE Nowhere)
    /\ stage' = (IF window'.fault = 0 THEN "gate" ELSE "narrow")
    /\ UNCHANGED <<prober, faults, ops, gran, half, stop, trials, reproduced, corpus, history>>

\* DDMin's look at the context.
CanceledAtTheTop ==
    /\ stage \in {"faults", "ops"} /\ cpc = "idle" /\ half = "parts" /\ interrupted
    /\ StopWith("canceled")
    /\ UNCHANGED <<prober, faults, ops, gran, half, window, trials, reproduced, corpus, history>>

\* The gate is frozen before it is applied, and the reserve is for it.
Gate ==
    /\ stage = "gate"
    /\ mayCalibrate' = FALSE
    /\ IF interrupted
         THEN /\ stop' = (IF stop = Complete THEN "canceled" ELSE stop)
              /\ stage' = "commit" /\ UNCHANGED reserve
         ELSE stage' = "confirm" /\ reserve' = 0 /\ UNCHANGED stop
    /\ UNCHANGED <<opt, interrupted, expired, spent, level, calibrated, reprobes, drifts, cache, call,
                   wholeDrifted, faults, ops, gran, half, window, trials, reproduced, corpus, history>>

\* confirm: k executions, no early exit in either direction.
Confirm ==
    /\ stage = "confirm"
    /\ \E x \in Single :
          /\ Charge(x)
          /\ trials' = trials + (IF x.ran THEN 1 ELSE 0)
          /\ reproduced' = reproduced + (IF Signal(x.seen, level) = "reproduced" THEN 1 ELSE 0)
          /\ stage' = IF x.stop # Complete \/ trials' = ConfirmK THEN "commit" ELSE "confirm"
    /\ UNCHANGED <<opt, interrupted, expired, reserve, identity, cache, call, wholeDrifted, faults, ops,
                   gran, half, window, stop, corpus, history>>

\* AddWithPlan up to StoreWorldNoClobber.  The run's own world or plan may not
\* load; a world of the same name is left as it is, and a write may fail.
CommitWorld ==
    /\ stage = "commit"
    /\ \/ Exits(stop) /\ stage' = "done" /\ UNCHANGED entry
       \/ /\ Passed /\ opt.commit /\ entry.world \in {"none", "own"}
          /\ entry' = [entry EXCEPT !.world = "own"]
          /\ IF opt.planned \/ ops # Every THEN stage' = "plan" /\ UNCHANGED exitCode
             ELSE stage' = "done" /\ Exits(stop)
    /\ UNCHANGED <<prober, faults, ops, gran, half, window, stop, trials, reproduced, history>>

\* The plan beside it: written in place, and never over another.
CommitPlan ==
    /\ stage = "plan" /\ stage' = "done" /\ Exits(stop)
    /\ entry' \in (IF entry.plan = "none" THEN [world : {"own"}, plan : {"own", "none", "torn"}]
                   ELSE {entry})
    /\ UNCHANGED <<prober, faults, ops, gran, half, window, stop, trials, reproduced, history>>

\* The process dies between the two files, or within the second.
Killed ==
    /\ stage = "plan" /\ stage' = "killed"
    /\ entry' \in {entry} \cup (IF entry.plan = "none" THEN {[entry EXCEPT !.plan = "torn"]} ELSE {})
    /\ UNCHANGED <<prober, faults, ops, gran, half, window, stop, trials, reproduced, exitCode, history>>

Over == stage \in {"done", "killed"}

Environment ==
    /\ stage \notin {"commit", "plan"} /\ ~Over
    /\ WallExpires \/ CancelShrink
    /\ UNCHANGED <<pipeline, corpus, history, wholeDrifted>>

Answered == BaselineAnswered \/ FaultsAnswered \/ OpsAnswered \/ NarrowAnswered

ShrinkNext ==
    \/ Judge \/ Answered \/ ProbeTheKey \/ EndFaults \/ EndOps \/ CanceledAtTheTop
    \/ Gate \/ Confirm \/ CommitWorld \/ CommitPlan \/ Killed
    \/ Environment

ShrinkSpec == ShrinkInit /\ [][ShrinkNext]_shrinkVars

-----------------------------------------------------------------------------
(* Properties.                                                             *)

Reducing == {"faults", "ops", "narrow", "gate", "confirm", "commit", "plan"}

\* What survives has been executed as it is, and showed the violation as often as
\* an acceptance asks for, at the level in force then and now; or it is the whole
\* input.  ("the smallest one confirmed so far", DDMin.)  Naming every operation
\* is not a reduction, and is not executed before a stage makes use of it.
SurvivorsReproduced ==
    LET own == Current
        as == IF ops = AllOps THEN {own, [own EXCEPT !.ops = Every]} ELSE {own}
    IN  stage \in Reducing =>
            \/ Whole \in as /\ ~opt.baseline
            \/ /\ grounds.of \in as
               /\ (IF level = "class" THEN grounds.shown.any ELSE grounds.shown.own) >= opt.accept

\* The level is lowered only where nobody typed one, and only when the world with
\* nothing removed has itself shown the violation on another key.
OnlyTheWorldItselfRelaxes ==
    calibrated => opt.typed = "default" /\ opt.baseline /\ wholeDrifted

\* ddmin's contract: when it ends undisturbed at the level it began with, each
\* world with one fault less was judged and did not reproduce.
OneMinimal ==
    stage \in {"ops", "narrow"} /\ level = since =>
        \A f \in DOMAIN faults :
            LET less == [faults |-> Restrict(Windows, DOMAIN faults \ {f}), ops |-> Every]
            IN  less \in DOMAIN cache /\ cache[less] # "reproduced"

\* What a shrink ends with was executed, judged by the rule asked for, and is
\* minimal.
ResultIsEarned == SurvivorsReproduced /\ OnlyTheWorldItselfRelaxes /\ OneMinimal

\* The corpus is append-only, and a world enters it after k executions out of k.
CorpusIsConfirmed ==
    [][/\ entry'.world # entry.world =>
             entry.world = "none" /\ trials = ConfirmK /\ reproduced = ConfirmK
       /\ entry'.plan # entry.plan => entry.plan = "none" /\ entry'.world = "own"]_shrinkVars
=============================================================================
