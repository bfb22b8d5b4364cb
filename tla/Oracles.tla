------------------------------- MODULE Oracles -------------------------------
(***************************************************************************)
(* ASSERT: the oracle engine (internal/oracle/engine.go) asks every        *)
(* registered oracle, in order, for its finding.  The built-in oracles     *)
(* judge the evidence of the world (Evidence); an external one runs its    *)
(* program (OracleProcess).                                                *)
(***************************************************************************)
EXTENDS Evidence, OracleProcess

CONSTANTS Registrations,    \* the sets of oracles a project may register, in order
          Assertable        \* the oracles whose valid_phases hold ASSERT

ASSUME OraclesAssumption ==
    /\ Builtins \subseteq Assertable
    /\ Registrations \subseteq Seq(STRING)

VARIABLES
    registered,     \* the engine's oracles, in registration order
    findings,       \* one per oracle asked: its status, and whether it was run
    engine          \* EvaluateEvery: "asking", "returned", "failed"

engineVars == <<registered, findings, engine>>
vars == <<evidenceVars, procVars, engineVars>>

Init ==
    /\ EvidenceInit /\ ProcInit
    /\ registered \in Registrations
    /\ findings = <<>> /\ engine = "asking"

\* The world goes on until its evidence is collected.
World ==
    /\ Happens(ToSet(registered))
    /\ UNCHANGED <<procVars, engineVars>>

Cancel ==
    /\ phase = "assert" /\ engine = "asking" /\ ~canceled
    /\ canceled' = TRUE
    /\ UNCHANGED <<evidenceVars, engineVars, process, kill, readers, sup, cut,
                   limit, signalled>>

-----------------------------------------------------------------------------
(* EvaluateEvery.                                                          *)

Asked == registered[Len(findings) + 1]

Asking == phase = "assert" /\ engine = "asking" /\ Len(findings) < Len(registered)

Finding(status, run) ==
    findings' = Append(findings, [oracle |-> Asked, status |-> status, run |-> run])

\* One that does not declare ASSERT is recorded as not evaluated.
NotEvaluated ==
    /\ Asking /\ Asked \notin Assertable
    /\ Finding("inconclusive", FALSE)
    /\ UNCHANGED <<evidenceVars, procVars, registered, engine>>

\* EvaluateOracleAt looks at the context before it asks.
ContextEnded ==
    /\ Asking /\ Asked \in Assertable /\ sup = "idle" /\ canceled
    /\ engine' = "failed"
    /\ UNCHANGED <<evidenceVars, procVars, registered, findings>>

\* safeEvaluate turns a panic into an error, normalizeResult an error into
\* inconclusive.
EvaluateBuiltin ==
    /\ Asking /\ Asked \in Assertable /\ Asked \in Builtins /\ ~canceled
    /\ \E panics \in BOOLEAN :
          Finding(IF panics THEN "inconclusive" ELSE Builtin(Asked), TRUE)
    /\ UNCHANGED <<evidenceVars, procVars, registered, engine>>

StartExternal ==
    /\ Asking /\ Asked \in Assertable /\ Asked \notin Builtins /\ ~canceled
    /\ Start
    /\ UNCHANGED <<evidenceVars, engineVars>>

ProgramRuns ==
    /\ engine = "asking"
    /\ Program
    /\ UNCHANGED <<evidenceVars, engineVars>>

HarnessRuns ==
    /\ engine = "asking"
    /\ Harness
    /\ UNCHANGED <<evidenceVars, engineVars>>

\* exec returned: interpret's result is the finding, and the next oracle has a
\* process of its own.
ExternalDone ==
    /\ Asking /\ sup = "done"
    /\ Finding(Interpret, TRUE)
    /\ main' = [st |-> "none", pipes |-> {}, exit |-> "none", deaf |-> FALSE]
    /\ kid' = [st |-> "none", pipes |-> {}, escaped |-> FALSE, deaf |-> FALSE]
    /\ said' = "nothing" /\ kill' = "unused"
    /\ out' = "reading" /\ err' = "reading"
    /\ sup' = "idle" /\ cut' = "no"
    /\ limit' = FALSE /\ signalled' = FALSE
    /\ UNCHANGED <<evidenceVars, registered, engine, canceled>>

Return ==
    /\ phase = "assert" /\ engine = "asking" /\ Len(findings) = Len(registered)
    /\ engine' = "returned"
    /\ UNCHANGED <<evidenceVars, procVars, registered, findings>>

Next == World \/ Cancel \/ NotEvaluated \/ ContextEnded
        \/ EvaluateBuiltin \/ StartExternal \/ ProgramRuns \/ HarnessRuns
        \/ ExternalDone \/ Return

Engine == NotEvaluated \/ ContextEnded \/ EvaluateBuiltin \/ StartExternal
          \/ ExternalDone \/ Return

\* The harness's goroutines and timers run, whatever the oracle's program does;
\* none of their steps recurs, so one weak fairness for all of them is enough.
\* Nothing is asked of the program, and the world itself need not end.
Spec == Init /\ [][Next]_vars /\ WF_vars(Engine \/ HarnessRuns)

-----------------------------------------------------------------------------
\* Findings.ExitCode over what the engine returns; an error is inconclusive.
Statuses == {findings[i].status : i \in DOMAIN findings}

Verdict ==
    CASE engine = "failed" \/ findings = <<>> -> "inconclusive"
      [] "violated" \in Statuses              -> "violated"
      [] "inconclusive" \in Statuses          -> "inconclusive"
      [] OTHER                                -> "ok"

-----------------------------------------------------------------------------
TypeOK ==
    /\ EvidenceTypeOK /\ ProcTypeOK
    /\ registered \in Registrations
    /\ Len(findings) <= Len(registered)
    /\ ToSet(findings) \subseteq [oracle : ToSet(registered), status : Status, run : BOOLEAN]
    /\ engine \in {"asking", "returned", "failed"}

\* An external oracle is believed only when it ended by itself: whatever was
\* written, closed, killed or left behind, and whichever of the time limit, the
\* cancellation and the end of the pipes exec saw first, an ok or a violation
\* comes from a program that no signal of the harness reached, that exited with
\* the code of its own document.
BelievedOnlyWhole ==
    sup = "done" /\ Interpret # "inconclusive" =>
        /\ main.st = "reaped" /\ ~signalled
        /\ said = Interpret /\ main.exit = Code[Interpret]

Concluded(o, s) == \E i \in DOMAIN findings :
                       findings[i].oracle = o /\ findings[i].status = s

DownAtSomePointAfterHeal(n) ==
    \E i \in DOMAIN lives[n] : lives[n][i].to # None
        /\ (i = Len(lives[n]) \/ lives[n][i + 1].from >= healed.end)

\* The built-in oracles accuse the system of nothing that the harness did or
\* that did not happen: a crash is one no fault caused, a stuck operation one
\* that outlived HEAL by the ceiling, an unavailable node one that was down
\* after HEAL.
AccusationsAreTrue ==
    /\ Concluded("no_crash", "violated") =>
           \E n \in Node : \E i \in DOMAIN lives[n] : lives[n][i].why = "crash"
    /\ Concluded("no_stuck_op", "violated") =>
           \E o \in Op : /\ ops[o].inv # None
                         /\ \/ ops[o].comp = None
                            \/ /\ ops[o].comp - healed.end > SLO
                               /\ ops[o].comp - ops[o].inv > SLO
    /\ Concluded("availability_after_heal", "violated") =>
           \E n \in Node : DownAtSomePointAfterHeal(n)

\* What the built-in oracles clear: every node stands at the end or fell while
\* a fault named it, every operation ended and within the ceiling after HEAL,
\* every node was up at some moment after HEAL.
AcquittalsAreEarned ==
    /\ Concluded("no_crash", "ok") =>
           \A n \in Node : Up(n) \/ \E w \in windows :
               w.node = n /\ LastLife(n).to \in w.start..w.end
    /\ Concluded("no_stuck_op", "ok") =>
           \A o \in Op : ops[o].inv # None =>
               /\ ops[o].comp # None
               /\ ops[o].comp <= (CHOOSE t \in {healed.end, ops[o].inv} :
                                    t >= healed.end /\ t >= ops[o].inv) + SLO
    /\ Concluded("availability_after_heal", "ok") =>
           \A n \in Node : \E i \in DOMAIN lives[n] :
               lives[n][i].to = None \/ lives[n][i].to >= healed.end

\* A built-in oracle neither accuses nor clears the system without cause.
JudgementsAreEarned == AccusationsAreTrue /\ AcquittalsAreEarned

\* A descendant that left the process group and keeps a pipe open.
EscapeeHoldsAPipe == kid.st = "running" /\ kid.escaped /\ kid.pipes # {}

\* The oracles' evaluation ends, whatever their programs do: those that hang are
\* killed at their time limit.  The exception is a descendant that left the
\* process group with a pipe, which no signal reaches: the readers then wait for
\* as long as it keeps it.
EvaluationReturns ==
    (phase = "assert") ~> (engine \in {"returned", "failed"} \/ EscapeeHoldsAPipe)

\* input.go says of the restart count that "a non-zero count means the process
\* died even if it is running now": no_crash does not clear a world in which a
\* supervisor restarted a node.  TLC refutes it when a configuration lists it.
RestartsAreDeaths ==
    Concluded("no_crash", "ok") =>
        \A n \in Node, i \in 1..(MaxDeaths + 1) :
            i \in DOMAIN lives[n] => lives[n][i].by # "supervisor"
=============================================================================
