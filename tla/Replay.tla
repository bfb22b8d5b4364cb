------------------------------- MODULE Replay -------------------------------
(***************************************************************************)
(* Replaying a recorded world k times: replay.Run, judge, planExecuted and *)
(* tally of internal/replay/replay.go, and the command that does just that *)
(* (cmd/thesis/replay.go).  Two more commands call it: regress and bisect. *)
(* Time is in ticks; it passes, and the caller cancels, at any moment.     *)
(***************************************************************************)
EXTENDS Integers, Sequences

VARIABLES
    cmd,         \* the command: replay, regress or bisect
    pc,          \* where it is
    exit,        \* its exit code, Null until it ends
    now,         \* ticks since the command began
    canceled,    \* the caller's context has ended
    budget,      \* the command's --budget, 0 for none
    k,           \* attempts asked for
    expect,      \* a violation was named (Options.Expect is not zero)
    deadline,    \* of this replay, Null for none
    rpc,         \* idle, next (between attempts), world, over
    execs,       \* the executions made so far, in order
    expired      \* Report.BudgetExpired

replay == <<k, expect, deadline, rpc, execs, expired>>
clock == <<now, canceled, budget>>
command == <<cmd, pc, exit>>

Null == -1

Tick ==
    /\ now < 2 * budget
    /\ now' = now + 1
    /\ UNCHANGED <<canceled, budget, command, replay>>

Cancel ==
    /\ ~canceled
    /\ canceled' = TRUE
    /\ UNCHANGED <<now, budget, command, replay>>

\* ctxWithBudget: the context is a ceiling at twice the budget.
CtxOver == canceled \/ (budget > 0 /\ now >= 2 * budget)

Past(d) == d # Null /\ now >= d

Deadline == IF budget = 0 THEN Null ELSE budget

Ends(code) == pc' = "done" /\ exit' = code /\ UNCHANGED cmd

-----------------------------------------------------------------------------
(* What one execution of a world can be, as far as a replay looks.         *)

Identity == {"same", "other"}     \* the violation expected, or another

Execution ==
    [outcome : {"pass"}, found : {{}}, judged : BOOLEAN, honoured : BOOLEAN] \cup
    [outcome : {"inconclusive", "canceled"}, found : {{}}, judged : {TRUE}, honoured : BOOLEAN] \cup
    [outcome : {"harness_error"}, found : SUBSET Identity, judged : {TRUE}, honoured : BOOLEAN] \cup
    [outcome : {"violation"}, found : (SUBSET Identity) \ {{}}, judged : {TRUE}, honoured : BOOLEAN]

Conducted(e) == e.outcome \notin {"harness_error", "canceled"}

\* Without an expected violation, any violation is the violation.
Matches(e) == IF expect THEN "same" \in e.found ELSE e.found # {}

\* Mutant of Silent: an inconclusive world is a clean negative.
SilentWhenUnjudged(e) == ~e.judged

\* No oracle said anything, or one could not evaluate.
Silent(e) == e.outcome = "inconclusive" \/ ~e.judged

\* judge, then planExecuted: the driver must have driven the plan.
Signal(e) ==
    IF ~Conducted(e) \/ ~e.honoured THEN "unknown"
    ELSE IF Matches(e) THEN "reproduced"
    ELSE IF e.found # {} THEN "different"
    ELSE IF Silent(e) THEN "unknown"
    ELSE "not_reproduced"

Attempts(s) == {i \in 1..Len(execs) : Signal(execs[i]) = s}

Reproduced == Attempts("reproduced") # {}
Inconclusive == Attempts("unknown") # {}

-----------------------------------------------------------------------------
NoReplay == rpc = "idle" /\ execs = <<>> /\ deadline = Null /\ expired = FALSE

\* Run's beginning, with the deadline its caller gives it.
StartReplay(d) ==
    /\ rpc = "idle"
    /\ rpc' = "next" /\ deadline' = d /\ execs' = <<>> /\ expired' = FALSE
    /\ UNCHANGED <<k, expect>>

\* Context and budget are looked at before an attempt, never during one.
Attempt ==
    /\ rpc = "next" /\ Len(execs) < k
    /\ ~CtxOver /\ ~Past(deadline)
    /\ rpc' = "world"
    /\ UNCHANGED <<clock, command, k, expect, deadline, execs, expired>>

\* The world returns with one of the executions that may have happened.
Executed(may) ==
    /\ rpc = "world"
    /\ \E e \in may :
        /\ e.outcome = "canceled" => CtxOver
        /\ execs' = Append(execs, e)
    /\ rpc' = "next"
    /\ UNCHANGED <<clock, command, k, expect, deadline, expired>>

ReplayReturns ==
    /\ rpc = "next"
    /\ Len(execs) = k \/ CtxOver \/ Past(deadline)
    /\ rpc' = "over"
    /\ expired' = (Len(execs) < k /\ ~CtxOver /\ Past(deadline))
    /\ UNCHANGED <<clock, command, k, expect, deadline, execs>>

\* The caller has read the report and needs it no longer.
Forget ==
    /\ rpc' = "idle" /\ execs' = <<>> /\ deadline' = Null /\ expired' = FALSE
    /\ UNCHANGED <<k, expect>>

\* Report.ExitCode.
ReplayExit ==
    IF Reproduced THEN 1
    ELSE IF Inconclusive THEN 2
    ELSE IF expired THEN 3
    ELSE IF execs = <<>> THEN 2
    ELSE 0

ReplayLoop(may) == Attempt \/ Executed(may) \/ ReplayReturns

\* choosePlan: the plan the world names is missing or is another world's.
NoPlan ==
    /\ pc = "replay"
    /\ Ends(2)
    /\ UNCHANGED <<clock, replay>>

BeginReplay ==
    /\ pc = "replay"
    /\ StartReplay(Deadline)
    /\ pc' = "replaying"
    /\ UNCHANGED <<clock, cmd, exit>>

\* A verdict that cannot be written is exit 2, whatever it says.
EndReplay ==
    /\ pc = "replaying" /\ rpc = "over"
    /\ Ends(ReplayExit) \/ Ends(2)
    /\ UNCHANGED <<clock, replay>>

ReplayStep == NoPlan \/ BeginReplay \/ EndReplay

ReplayTypeOK ==
    /\ cmd \in {"replay", "regress", "bisect"} /\ exit \in {Null, 0, 1, 2, 3}
    /\ now \in 0..(2 * budget) /\ canceled \in BOOLEAN /\ budget \in Nat
    /\ k \in Nat \ {0} /\ expect \in BOOLEAN
    /\ deadline \in Nat \cup {Null}
    /\ rpc \in {"idle", "next", "world", "over"}
    /\ execs \in Seq(Execution) /\ Len(execs) <= k
    /\ expired \in BOOLEAN
=============================================================================
