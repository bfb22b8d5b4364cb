------------------------------- MODULE Prober -------------------------------
(***************************************************************************)
(* The prober of a shrink and its ledger: internal/shrink/probe.go,        *)
(* budget.go, candidate.go and identity.go.                                *)
(*                                                                         *)
(* Executing a candidate is a coin weighted by the candidate: what an      *)
(* execution shows is chosen afresh each time.  firstReproducing judges    *)
(* the candidates of one call in rounds, one execution of each candidate   *)
(* that is still open, one after the other (the command's executor has no  *)
(* batches), and between two executions the caller may cancel and the wall *)
(* budget may end.                                                         *)
(***************************************************************************)
EXTENDS Integers, Sequences, FiniteSets, FiniteSetsExt

CONSTANTS
    Attempts,           \* what an execution may show, a subset of Attempt
    ConfirmK,           \* Policy.ConfirmK, and the worlds reserved for it
    CalibrationProbes,  \* Policy.CalibrationProbes
    Options             \* what the command line and the world decide

RejectTrials == 2
UnknownRetries == 1

\* The violation that is shrunk, the same defect on another witness key, and any
\* other oracle or class.
Identity == {"own", "drift", "other"}

Attempt == [reached : BOOLEAN, observed : SUBSET Identity]

\* What the corpus may hold under the name: nothing, this world with or without
\* its plan (a command that died between the two files), another world of the
\* same short name, or something that does not load.
Entry == [world : {"none", "own", "other", "unreadable"}, plan : {"none", "own", "torn"}]

\* typed is the --strictness given, "default" for none; ops says that there is an
\* operation plan to reduce, planned that the world names its workload.
Option == [accept : 1..RejectTrials, typed : {"default", "key", "class"},
           baseline : BOOLEAN, ops : BOOLEAN, narrow : BOOLEAN, commit : BOOLEAN,
           planned : BOOLEAN, worlds : Nat, found : Entry]

ASSUME ProberAssumption ==
    /\ Attempts \subseteq Attempt /\ Options \subseteq Option
    /\ ConfirmK \in Nat \ {0} /\ CalibrationProbes \in Nat

VARIABLES
    opt,           \* the options of this run
    interrupted,      \* ctx.Err() # nil
    expired,       \* the wall budget has elapsed
    spent,         \* worlds the ledger has granted
    reserve,       \* worlds it withholds from the stages
    level,         \* Policy.Strictness: key or class
    mayCalibrate,
    calibrated,    \* calibNote # ""
    reprobes,
    drifts,        \* which worlds have shown a drift: reduced, unreduced
    cache,         \* candidate |-> the judgement memoized
    cpc,           \* idle, round, run, judge, reprobe, settle, answer
    pending,       \* candidates of the call that are still open
    tallies,       \* of each candidate of the call
    got,           \* what this round's executions showed, in order
    granted,       \* executions the ledger granted to this round
    reason,        \* why the round was cut short
    answer,        \* of the call: the candidate accepted (0 for none), its
                   \* judgement, and why it stopped
    shown,         \* history: how often each candidate of the call was executed
                   \* and showed the violation, on its own key and on any
    wholeDrifted   \* history: the world with nothing removed has shown a drift

ledger == <<interrupted, expired, spent, reserve>>
identity == <<level, mayCalibrate, calibrated, reprobes, drifts>>
call == <<cpc, pending, tallies, got, granted, reason, answer, shown>>
prober == <<opt, ledger, identity, cache, call, wholeDrifted>>

Complete == "complete"
Silence == [index |-> 0, signal |-> "unknown", stop |-> Complete]
NoEvidence == [own |-> 0, any |-> 0]

ProberInit ==
    /\ opt \in Options
    /\ interrupted = FALSE /\ expired = FALSE /\ spent = 0 /\ reserve = ConfirmK
    /\ level = IF opt.typed = "default" THEN "key" ELSE opt.typed
    /\ mayCalibrate = (opt.typed = "default")
    /\ calibrated = FALSE /\ reprobes = 0 /\ drifts = {}
    /\ cache = <<>>
    /\ cpc = "idle" /\ pending = {} /\ tallies = <<>> /\ got = <<>> /\ granted = 0
    /\ reason = Complete /\ answer = Silence /\ shown = <<>>
    /\ wholeDrifted = FALSE

-----------------------------------------------------------------------------
(* Judging one execution.                                                  *)

\* Strictness.Match: at the level "key" the witness key must be the same too.
Matches(l, id) == id = "own" \/ (l = "class" /\ id = "drift")

\* Attempt.Classify.
Signal(a, l) ==
    IF ~a.reached THEN "unknown"
    ELSE IF \E id \in a.observed : Matches(l, id) THEN "reproduced"
    ELSE IF a.observed # {} THEN "different"
    ELSE "clean"

\* The key has moved, in an execution that was not the violation.
Drifts(a, l) == Signal(a, l) = "different" /\ "drift" \in a.observed

\* noteDivergence, as far as it is about the witness key; with or without the
\* baseline, only the world with nothing removed is evidence about the target.
Provenance(c, whole) == IF opt.baseline /\ c = whole THEN "unreduced" ELSE "reduced"

Noted(a, c, whole) == IF Drifts(a, level) THEN {Provenance(c, whole)} ELSE {}

\* The open half of maybeCalibrate and answerDriftQuestion.
Calibratable == mayCalibrate /\ ~calibrated /\ level = "key"

\* Mutant of KeyDrift: a reduced candidate's drift is evidence as well.
KeyDriftAnywhere(d) == d # {}

\* keyDrift: only executions of the unreduced world count.
KeyDrift(d) == "unreduced" \in d

\* answerDriftQuestion's guard: a reduced candidate has raised the question.
Asked(d) ==
    /\ Calibratable /\ opt.baseline /\ reprobes < CalibrationProbes
    /\ "reduced" \in d /\ ~KeyDrift(d)

\* relaxTo(MatchOracleClass) and its note, memo being what is judged from then on.
Relax(memo) == level' = "class" /\ calibrated' = TRUE /\ drifts' = {} /\ cache' = memo

-----------------------------------------------------------------------------
(* The ledger.                                                             *)

Available == opt.worlds - reserve - spent

\* acquire(n), behind execute's look at the context: how many worlds may run.
Grant(n) == IF interrupted \/ expired \/ Available <= 0 THEN 0 ELSE Min({n, Available})

\* And why they are fewer than asked.
Shortage(n) ==
    IF interrupted THEN "canceled"
    ELSE IF expired THEN "wall"
    ELSE IF Available < n THEN "worlds"
    ELSE Complete

\* One execution alone (probeOnce, the gate's replays): whether it ran, what it
\* showed and why it stopped.  The context is looked at before and after it.
Single ==
    (IF ~expired /\ Available > 0
       THEN [ran : {TRUE}, seen : Attempts, stop : {IF interrupted THEN "canceled" ELSE Complete}]
       ELSE {}) \cup
    (IF Grant(1) = 0
       THEN [ran : {FALSE}, seen : {[reached |-> FALSE, observed |-> {}]}, stop : {Shortage(1)}]
       ELSE {})

Charge(x) == spent' = spent + (IF x.ran THEN 1 ELSE 0)

WallExpires == ~expired /\ expired' = TRUE /\ UNCHANGED <<opt, interrupted, spent, reserve, identity, cache, call, wholeDrifted>>

CancelShrink == ~interrupted /\ interrupted' = TRUE /\ UNCHANGED <<opt, expired, spent, reserve, identity, cache, call, wholeDrifted>>

-----------------------------------------------------------------------------
(* firstReproducing over the candidates cs; whole is the unreduced world.  *)

NoTally == [hits |-> 0, misses |-> 0, unknowns |-> 0]

\* tally.observe, and tally.done.
Observe(t, s) ==
    CASE s = "reproduced" -> [t EXCEPT !.hits = @ + 1]
      [] s = "unknown" -> [t EXCEPT !.unknowns = @ + 1]
      [] OTHER -> [t EXCEPT !.misses = @ + 1]

Settled(t) ==
    t.hits >= opt.accept \/ t.unknowns > UnknownRetries \/ t.misses >= RejectTrials

Judgement(t) ==
    IF t.hits >= opt.accept THEN "reproduced"
    ELSE IF t.unknowns > UnknownRetries THEN "unknown"
    ELSE IF t.misses > 0 THEN "rejected"
    ELSE "unknown"

\* The memo is scanned first; an accepted candidate in it is the answer.
Ask(cs) ==
    LET known == {i \in 1..Len(cs) : cs[i] \in DOMAIN cache}
        accepted == {i \in known : cache[cs[i]] = "reproduced"}
        open == (1..Len(cs)) \ known
    IN  /\ cpc = "idle"
        /\ shown' = [i \in 1..Len(cs) |-> NoEvidence]
        /\ IF accepted = {} /\ open # {}
             THEN /\ cpc' = "round" /\ pending' = open
                  /\ tallies' = [i \in 1..Len(cs) |-> NoTally]
                  /\ UNCHANGED answer
             ELSE /\ cpc' = "answer" /\ UNCHANGED <<pending, tallies>>
                  /\ answer' = IF accepted # {}
                                 THEN [Silence EXCEPT !.index = Min(accepted), !.signal = "reproduced"]
                                 ELSE [Silence EXCEPT !.signal = cache[cs[1]]]
        /\ UNCHANGED <<opt, ledger, identity, cache, got, granted, reason, wholeDrifted>>

\* execute: the round is charged as a whole, and a partial grant runs a prefix.
Round ==
    LET n == Cardinality(pending)
    IN  /\ cpc = "round"
        /\ granted' = Grant(n) /\ reason' = Shortage(n)
        /\ spent' = spent + Grant(n)
        /\ cpc' = IF Grant(n) > 0 THEN "run" ELSE "judge"
        /\ UNCHANGED <<opt, interrupted, expired, reserve, identity, cache, pending, tallies, got,
                       answer, shown, wholeDrifted>>

\* The candidate the j-th execution of a round is of.
At(j) == CHOOSE i \in pending : Cardinality({x \in pending : x <= i}) = j

ShownBy(a, e) ==
    [own |-> e.own + (IF Signal(a, "key") = "reproduced" THEN 1 ELSE 0),
     any |-> e.any + (IF Signal(a, "class") = "reproduced" THEN 1 ELSE 0)]

RunOne(cs, whole) ==
    /\ cpc = "run"
    /\ \E a \in Attempts :
          /\ got' = Append(got, a)
          /\ shown' = [shown EXCEPT ![At(Len(got) + 1)] = ShownBy(a, @)]
          /\ wholeDrifted' = (wholeDrifted \/ (cs[At(Len(got) + 1)] = whole /\ Drifts(a, "key")))
    /\ reason' = IF interrupted THEN "canceled" ELSE reason
    /\ cpc' = IF interrupted \/ Len(got) + 1 = granted THEN "judge" ELSE "run"
    /\ UNCHANGED <<opt, ledger, identity, cache, pending, tallies, granted, answer>>

\* The first pass over the round: it notes what diverged, and may raise the
\* question whether the key is stable.
Note(cs, whole) ==
    LET d == drifts \cup UNION {Noted(got[j], cs[At(j)], whole) : j \in 1..Len(got)}
    IN  /\ cpc = "judge"
        /\ drifts' = d
        /\ IF Asked(d)
             THEN cpc' = "reprobe" /\ reprobes' = reprobes + 1
             ELSE cpc' = "settle" /\ UNCHANGED reprobes
        /\ UNCHANGED <<opt, ledger, level, mayCalibrate, calibrated, cache, pending, tallies,
                       got, granted, reason, answer, shown, wholeDrifted>>

\* Only the world with nothing removed answers it.
Reprobe(whole) ==
    /\ cpc = "reprobe" /\ cpc' = "settle"
    /\ \E x \in Single :
          /\ Charge(x)
          /\ drifts' = drifts \cup (IF x.ran THEN Noted(x.seen, whole, whole) ELSE {})
          /\ reason' = IF reason = Complete THEN x.stop ELSE reason
          /\ wholeDrifted' = (wholeDrifted \/ Drifts(x.seen, "key"))
    /\ UNCHANGED <<opt, interrupted, expired, reserve, level, mayCalibrate, calibrated, reprobes,
                   cache, pending, tallies, got, granted, answer, shown>>

\* memo, of the candidates that have just been settled.
Memo(new) ==
    [c \in DOMAIN new \cup DOMAIN cache |-> IF c \in DOMAIN new THEN new[c] ELSE cache[c]]

\* maybeCalibrate, then the second pass, which judges at the level that survived
\* and settles what it can; what is not settled is not memoized.  The answer is the
\* lowest candidate accepted, the round cut short or not.  The bound on rounds is not in the way: a candidate
\* settles before them.
Settle(cs) ==
    LET relax == Calibratable /\ KeyDrift(drifts)
        l == IF relax THEN "class" ELSE level
        ran == {At(j) : j \in 1..Len(got)}
        Sig(i) == Signal(got[Cardinality({x \in pending : x <= i})], l)
        t == [i \in DOMAIN tallies |->
                 IF i \in ran THEN Observe(tallies[i], Sig(i)) ELSE tallies[i]]
        done == {i \in pending : Settled(t[i])}
        accepted == {i \in done : Judgement(t[i]) = "reproduced"}
        new == [c \in {cs[i] : i \in done} |-> Judgement(t[CHOOSE i \in done : cs[i] = c])]
        over == accepted # {} \/ reason # Complete \/ done = pending
    IN  /\ cpc = "settle"
        /\ IF relax
             THEN Relax(new)
             ELSE /\ cache' = Memo(new)
                  /\ UNCHANGED <<level, calibrated, drifts>>
        /\ got' = <<>> /\ granted' = 0 /\ reason' = Complete
        /\ IF over
             THEN /\ cpc' = "answer" /\ pending' = {} /\ tallies' = <<>>
                  /\ answer' = IF accepted # {}
                                 THEN [index |-> Min(accepted), signal |-> "reproduced", stop |-> Complete]
                                 ELSE [index |-> 0, signal |-> Judgement(t[1]), stop |-> reason]
             ELSE /\ cpc' = "round" /\ pending' = pending \ done /\ tallies' = t
                  /\ UNCHANGED answer
        /\ UNCHANGED <<opt, ledger, mayCalibrate, reprobes, shown, wholeDrifted>>

Probing(cs, whole) == Ask(cs) \/ Round \/ RunOne(cs, whole) \/ Note(cs, whole) \/ Reprobe(whole) \/ Settle(cs)

\* The caller takes the answer.
Taken == cpc = "answer" /\ cpc' = "idle" /\ answer' = Silence /\ shown' = <<>>
=============================================================================
