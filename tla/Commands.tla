------------------------------ MODULE Commands ------------------------------
(***************************************************************************)
(* The commands that replay recorded worlds, one process each: the         *)
(* dispatch of cmd/thesis/main.go over Replay, Regress and Bisect.         *)
(***************************************************************************)
EXTENDS Regress, Bisect, FiniteSets

CONSTANTS
    Ks,          \* values of -k
    Budgets,     \* values of --budget in ticks, 0 for none
    Corpora      \* the corpora regress may find

ASSUME CommandsAssumption ==
    /\ Ks \subseteq Nat \ {0} /\ Budgets \subseteq Nat
    /\ Corpora \subseteq Seq(Entry)

\* For TLC: every corpus of up to two entries, and three that load.
ShortCorpora == UNION {[1..n -> Entry] : n \in 0..2} \cup {<<"ok", "ok", "ok">>}

commandsVars == <<clock, command, replay, regress, search, head, tree>>

CommandsInit ==
    /\ now = 0 /\ canceled = FALSE /\ budget \in Budgets
    /\ cmd \in {"replay", "regress", "bisect"} /\ pc = cmd /\ exit = Null
    /\ k \in Ks /\ expect \in (IF cmd = "replay" THEN BOOLEAN ELSE {FALSE})
    /\ NoReplay
    /\ corpus \in (IF cmd = "regress" THEN Corpora ELSE {<<>>}) /\ status = <<>>
    /\ introduced \in (IF cmd = "bisect" THEN -1..N ELSE {N})
    /\ stable \in (IF cmd = "bisect" THEN BOOLEAN ELSE {TRUE})
    /\ verify \in (IF cmd = "bisect" THEN BOOLEAN ELSE {TRUE})
    /\ phase = IF verify THEN "good" ELSE "search"
    /\ lo = 0 /\ hi = N - 1 /\ tried = {} /\ cur = Good
    /\ head = User /\ firstBad = Null /\ stop = "none"

May ==
    IF cmd = "replay" THEN Execution
    ELSE IF cmd = "regress" THEN {e \in Execution : e.found \subseteq {"same"}}
    ELSE ExecutionAt(cur)

Rest == <<regress, search, head, tree>>

TimePasses == pc # "done" /\ Tick /\ UNCHANGED Rest

CallerCancels == pc # "done" /\ Cancel /\ UNCHANGED Rest

Command ==
    \/ (ReplayLoop(May) \/ ReplayStep) /\ UNCHANGED Rest
    \/ RegressStep /\ UNCHANGED <<search, head, tree>>
    \/ BisectStep /\ UNCHANGED regress

CommandsNext == TimePasses \/ CallerCancels \/ Command

CommandsSpec == CommandsInit /\ [][CommandsNext]_commandsVars

\* Time passes; git, builds, worlds and the program itself return.
FairCommandsSpec == CommandsSpec /\ WF_commandsVars(TimePasses) /\ WF_commandsVars(Command)

-----------------------------------------------------------------------------
(* Properties.                                                             *)

CommandsTypeOK == ReplayTypeOK /\ RegressTypeOK /\ BisectTypeOK

Done(c) == cmd = c /\ pc = "done"

\* The expected violation was looked for and was not there.
Negative(e) ==
    /\ e.honoured
    /\ \/ e.outcome = "pass" /\ e.judged
       \/ e.outcome = "violation" /\ expect /\ "same" \notin e.found

\* A world that `replay` passes ran at least once and was judged each time;
\* one that it fails was conducted, drove its plan, and showed the violation that
\* was asked for.
ReplayExitIsTruthful ==
    Done("replay") =>
        /\ exit = 0 => execs # <<>> /\ \A i \in 1..Len(execs) : Negative(execs[i])
        /\ exit = 1 => \E i \in 1..Len(execs) :
                            /\ execs[i].outcome = "violation" /\ execs[i].honoured
                            /\ expect => "same" \in execs[i].found
        /\ exit = 3 => Len(execs) < k /\ now >= budget

\* `regress` is green only over an empty corpus, says "budget" only of worlds it
\* did not reach, and never runs part of a corpus that does not load.
RegressExitIsTruthful ==
    Done("regress") =>
        /\ exit = 0 => corpus = <<>>
        /\ exit = 3 => \A i \in 1..Len(corpus) : status[i] = "NOT_REACHED"
        /\ exit = 1 => Have("FAIL")
        /\ status # <<>> => /\ Len(status) = Len(corpus)
                            /\ \A i \in 1..Len(corpus) : corpus[i] # "corrupt"
                            /\ Have("FAIL") => exit = 1

\* What the two commands say by their exit codes is what was executed and judged.
ExitIsTruthful == ReplayExitIsTruthful /\ RegressExitIsTruthful

\* Of a world that reproduces exactly where the defect is, the answer is the
\* revision that brought the defect, whatever could not be built or judged.
AnswerIsFirstBad ==
    firstBad # Null /\ stable /\ (verify \/ introduced \in Revision) => firstBad = introduced

\* And while there is no answer the live range holds it.
RangeHoldsTheAnswer ==
    cmd = "bisect" /\ phase = "search" /\ stable /\ (verify \/ introduced \in Revision)
        => introduced \in lo..hi

\* "The working tree is restored on every exit path", a panic's included, or the
\* exit code says that something is wrong.
TreeIsRestored == Done("bisect") => head = User \/ exit = 2

-----------------------------------------------------------------------------
(* What the repository says of bisect, and TLC refutes when a configuration *)
(* lists it; the README tells how.                                         *)

\* "A range that is entirely skipped is reported as UNDETERMINED": a bisect
\* ends, whatever it cannot build.
BisectEnds == cmd = "bisect" ~> pc = "done"
=============================================================================
