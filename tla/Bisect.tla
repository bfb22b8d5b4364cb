------------------------------- MODULE Bisect -------------------------------
(***************************************************************************)
(* The search for the first revision at which a world reproduces:          *)
(* internal/bisect/bisect.go, and the replay that tests one revision       *)
(* (cmd/thesis/bisect.go).                                                 *)
(*                                                                         *)
(* Revisions 0..N-1 are the candidates, oldest first; revision -1 is the   *)
(* good endpoint, N-1 the bad one.                                         *)
(***************************************************************************)
EXTENDS Replay

CONSTANT N      \* how many candidates

ASSUME CandidatesAssumption == N \in Nat \ {0}

VARIABLES
    introduced,   \* the revision the defect came with; -1, before; N, later
    stable,       \* the world reproduces whenever, and only if, the defect is there
    verify,       \* endpoints are measured before the search
    phase,        \* good, bad (the endpoints), search
    lo, hi,       \* the live range
    tried,        \* the revisions this probe has tested
    cur,          \* the revision being tested
    head,         \* where HEAD is
    firstBad,     \* Report.FirstBad, Null while there is none
    stop          \* why the search gave no answer

range == <<lo, hi, tried>>
tree == <<introduced, stable, verify>>
search == <<phase, range, cur, firstBad, stop>>

User == -2                     \* where HEAD was when the command began
Good == -1
Revision == 0..(N - 1)

Reproduces(r) == r >= introduced

\* What a replay of the world at a revision can be.  Bisect hands no plan over.
ExecutionAt(r) ==
    {e \in Execution :
        /\ e.found \subseteq {"same"} /\ e.honoured
        /\ stable => /\ Reproduces(r) => e.outcome # "pass"
                     /\ ~Reproduces(r) => e.found = {}}

Undetermined(why) == pc' = "restore" /\ stop' = why /\ UNCHANGED <<cmd, exit, firstBad>>

-----------------------------------------------------------------------------
\* testRev looks at the context alone; test looks at the budget as well.
EndpointCanceled ==
    /\ pc = "bisect" /\ phase # "search" /\ CtxOver
    /\ Undetermined("canceled")
    /\ UNCHANGED <<clock, replay, phase, range, cur, head, tree>>

Endpoint ==
    /\ pc = "bisect" /\ phase # "search" /\ ~CtxOver
    /\ cur' = IF phase = "good" THEN Good ELSE N - 1
    /\ pc' = "checkout"
    /\ UNCHANGED <<clock, cmd, exit, replay, phase, range, head, firstBad, stop, tree>>

Mid == lo + (hi - lo) \div 2

Distance(i) == IF i < Mid THEN Mid - i ELSE i - Mid

Untried == (lo..hi) \ tried

\* probe walks outward from mid: mid - off, then mid + off.
Nearest(i) ==
    \A j \in Untried :
        Distance(i) < Distance(j) \/ (Distance(i) = Distance(j) /\ i <= j)

MayTest == ~CtxOver /\ ~Past(Deadline)

Probe ==
    /\ pc = "bisect" /\ phase = "search" /\ lo < hi
    /\ MayTest
    /\ \E i \in Untried : Nearest(i) /\ cur' = i /\ tried' = tried \cup {i}
    /\ pc' = "checkout"
    /\ UNCHANGED <<clock, cmd, exit, replay, phase, lo, hi, head, firstBad, stop, tree>>

ProbeStops ==
    /\ pc = "bisect" /\ phase = "search" /\ lo < hi /\ Untried # {}
    /\ ~MayTest
    /\ Undetermined(IF CtxOver THEN "canceled" ELSE "expired")
    /\ UNCHANGED <<clock, replay, phase, range, cur, head, tree>>

AllSkipped ==
    /\ pc = "bisect" /\ phase = "search" /\ lo < hi /\ Untried = {}
    /\ Undetermined("skipped")
    /\ UNCHANGED <<clock, replay, phase, range, cur, head, tree>>

\* The range has collapsed.  A flaky world can move lo past hi, and past the
\* last candidate, where the index panics.
Collapsed ==
    /\ pc = "bisect" /\ phase = "search" /\ lo >= hi
    /\ IF lo < N
       THEN firstBad' = lo /\ pc' = "restore" /\ UNCHANGED <<cmd, exit, stop>>
       ELSE Undetermined("panic")
    /\ UNCHANGED <<clock, replay, phase, range, cur, head, tree>>

-----------------------------------------------------------------------------
(* runStep: check out, rebuild, replay.                                    *)

\* Mutant of AfterSkip: a revision that cannot be judged counts as good.
AfterSkipGood == lo' = cur + 1 /\ tried' = {} /\ UNCHANGED hi

AfterSkip == UNCHANGED range

AfterGood == lo' = cur + 1 /\ tried' = {} /\ UNCHANGED hi

AfterBad == hi' = cur /\ tried' = {} /\ UNCHANGED lo

NextPhase == phase' = (IF phase = "good" THEN "bad" ELSE "search")

\* The verdict is the endpoint's, or moves the search.
Judged(v) ==
    \/ /\ phase = "search"
       /\ \/ v = "good" /\ AfterGood
          \/ v = "bad" /\ AfterBad
          \/ v = "skip" /\ AfterSkip
       /\ pc' = "bisect" /\ UNCHANGED <<cmd, exit, phase, firstBad, stop>>
    \/ /\ phase # "search" /\ v = phase
       /\ NextPhase
       /\ pc' = "bisect" /\ UNCHANGED <<cmd, exit, range, firstBad, stop>>
    \/ /\ phase # "search" /\ v # phase
       /\ Undetermined("premise")
       /\ UNCHANGED <<phase, range>>

CheckoutFails ==
    /\ pc = "checkout"
    /\ Judged("skip")
    /\ UNCHANGED <<clock, replay, cur, head, tree>>

\* git does not start once the context has ended.
Checkout ==
    /\ pc = "checkout" /\ ~CtxOver
    /\ head' = cur
    /\ pc' = "build"
    /\ UNCHANGED <<clock, cmd, exit, replay, search, tree>>

BuildFails ==
    /\ pc = "build"
    /\ Judged("skip")
    /\ UNCHANGED <<clock, replay, cur, head, tree>>

\* The replay of one revision has no budget of its own.
Build ==
    /\ pc = "build"
    /\ StartReplay(Null)
    /\ pc' = "testing"
    /\ UNCHANGED <<clock, cmd, exit, search, head, tree>>

\* Mutant of Verdict: whatever did not reproduce is good.
VerdictOptimist == IF Reproduced THEN "bad" ELSE "good"

\* testFn: one reproduction is enough, one unknown is too many.
Verdict ==
    IF Reproduced THEN "bad"
    ELSE IF Inconclusive \/ execs = <<>> THEN "skip"
    ELSE "good"

Tested ==
    /\ pc = "testing" /\ rpc = "over"
    /\ Judged(Verdict)
    /\ Forget
    /\ UNCHANGED <<clock, cur, head, tree>>

-----------------------------------------------------------------------------
\* Report.ExitCode, and main's for a panic.
BisectExit == IF firstBad # Null THEN 0 ELSE IF stop = "expired" THEN 3 ELSE 2

\* Mutant of Restored: the tree is put back only when there is an answer.
RestoredOnSuccess == head' = IF firstBad # Null THEN User ELSE head

Restored == head' = User

\* The deferred restore runs on every path, on a context of its own.
Restore ==
    /\ pc = "restore"
    /\ Restored
    /\ Ends(BisectExit)
    /\ UNCHANGED <<clock, replay, search, tree>>

RestoreFails ==
    /\ pc = "restore"
    /\ Ends(2)
    /\ UNCHANGED <<clock, replay, search, head, tree>>

BisectStep ==
    \/ EndpointCanceled \/ Endpoint
    \/ Probe \/ ProbeStops \/ AllSkipped \/ Collapsed
    \/ CheckoutFails \/ Checkout \/ BuildFails \/ Build \/ Tested
    \/ Restore \/ RestoreFails

BisectTypeOK ==
    /\ introduced \in -1..N /\ stable \in BOOLEAN /\ verify \in BOOLEAN
    /\ phase \in {"good", "bad", "search"}
    /\ lo \in 0..N /\ hi \in Revision /\ tried \subseteq lo..hi
    /\ cur \in Revision \cup {Good} /\ head \in Revision \cup {Good, User}
    /\ firstBad \in Revision \cup {Null}
    /\ stop \in {"none", "canceled", "expired", "skipped", "premise", "panic"}
=============================================================================
