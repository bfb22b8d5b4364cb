------------------------------ MODULE Evidence ------------------------------
(***************************************************************************)
(* What happens to the nodes, the operations and the probes of one world   *)
(* from DRIVE to the end of QUIESCE, what buildOracleInput makes of it     *)
(* (internal/control/runner.go), and what the built-in oracles no_crash,   *)
(* no_stuck_op and availability_after_heal conclude (internal/oracle).     *)
(* Time is counted in units, Horizon of them.                              *)
(***************************************************************************)
EXTENDS Integers, Sequences, SequencesExt, FiniteSets

CONSTANTS Node, Op,
          Horizon,      \* bound: the last instant of the world
          SLO,          \* NoStuckOpOptions.SLOCeiling
          Convergence,  \* AvailabilityOptions.ConvergenceWindow
          MaxDeaths, MaxFaults, MaxProbes      \* bounds

ASSUME EvidenceAssumption ==
    /\ Horizon \in Nat /\ SLO \in Nat /\ Convergence \in Nat \ {0}
    /\ MaxDeaths \in Nat /\ MaxFaults \in Nat /\ MaxProbes \in Nat

VARIABLES
    now, phase,     \* the clock and the lifecycle's phase
    healed,         \* [start, end] of HEAL, None before
    lives,          \* what each node's process went through
    windows,        \* the realized process faults: node, start, end
    ops,            \* each operation's invocation and completion
    probes,         \* the health probes' answers
    seen, reliable  \* collected: the nodes docker inspect answered for, and
                    \* whether every line of the history was read

evidenceVars == <<now, phase, healed, lives, windows, ops, probes, seen, reliable>>

None == -1
Time == 0..Horizon

Life == [from : Time, to : Time \cup {None}, why : {"none", "crash", "fault"},
         by : {"boot", "supervisor", "fault"}]

EvidenceTypeOK ==
    /\ now \in Time /\ phase \in {"drive", "heal", "quiesce", "assert"}
    /\ healed \in [start : Time \cup {None}, end : Time \cup {None}]
    /\ lives \in [Node -> Seq(Life)]
    /\ windows \subseteq [node : Node, start : Time, end : Time \cup {None}]
    /\ ops \in [Op -> [inv : Time \cup {None}, comp : Time \cup {None}]]
    /\ probes \subseteq [node : Node, at : Time, ok : BOOLEAN]
    /\ seen \subseteq Node /\ reliable \in BOOLEAN

Began(by) == [from |-> now, to |-> None, why |-> "none", by |-> by]

EvidenceInit ==
    /\ now = 0 /\ phase = "drive"
    /\ healed = [start |-> None, end |-> None]
    /\ lives = [n \in Node |-> <<Began("boot")>>]
    /\ windows = {} /\ probes = {}
    /\ ops = [o \in Op |-> [inv |-> None, comp |-> None]]
    /\ seen = {} /\ reliable = FALSE

LastLife(n) == lives[n][Len(lives[n])]
Up(n) == LastLife(n).to = None

Ended(n, why) ==
    [lives[n] EXCEPT ![Len(lives[n])] = [LastLife(n) EXCEPT !.to = now, !.why = why]]

Deaths == {d \in Node \X (1..(MaxDeaths + 1)) :
              d[2] \in DOMAIN lives[d[1]] /\ lives[d[1]][d[2]].to # None}

-----------------------------------------------------------------------------
(* The world.                                                              *)

Tick ==
    /\ phase # "assert" /\ now < Horizon
    /\ now' = now + 1
    /\ UNCHANGED <<phase, healed, lives, windows, ops, probes, seen, reliable>>

\* HEAL withdraws what is still applied.
NextPhase ==
    /\ \/ phase = "drive" /\ phase' = "heal"
          /\ healed' = [healed EXCEPT !.start = now]
          /\ windows' = {IF w.end = None THEN [w EXCEPT !.end = now] ELSE w : w \in windows}
       \/ phase = "heal" /\ phase' = "quiesce"
          /\ healed' = [healed EXCEPT !.end = now] /\ UNCHANGED windows
    /\ UNCHANGED <<now, lives, ops, probes, seen, reliable>>

Crash(n) ==
    /\ phase # "assert" /\ Up(n) /\ Cardinality(Deaths) < MaxDeaths
    /\ lives' = [lives EXCEPT ![n] = Ended(n, "crash")]
    /\ UNCHANGED <<now, phase, healed, windows, ops, probes, seen, reliable>>

\* A container whose restart policy brings it back after a crash.
Supervised(n) ==
    /\ phase # "assert" /\ ~Up(n) /\ LastLife(n).why = "crash"
    /\ lives' = [lives EXCEPT ![n] = Append(@, Began("supervisor"))]
    /\ UNCHANGED <<now, phase, healed, windows, ops, probes, seen, reliable>>

Injected(n) ==
    /\ phase = "drive" /\ Cardinality(windows) < MaxFaults
    /\ windows' = windows \cup {[node |-> n, start |-> now, end |-> None]}

\* proc.kill refuses a container that does not run.
ProcKill(n) ==
    /\ Injected(n) /\ Up(n) /\ Cardinality(Deaths) < MaxDeaths
    /\ lives' = [lives EXCEPT ![n] = Ended(n, "fault")]
    /\ UNCHANGED <<now, phase, healed, ops, probes, seen, reliable>>

\* proc.restart: docker stop, which a stopped container takes for done, then
\* docker start.
ProcRestart(n) ==
    /\ Injected(n) /\ Cardinality(Deaths) < MaxDeaths
    /\ lives' = [lives EXCEPT ![n] =
                    Append(IF Up(n) THEN Ended(n, "fault") ELSE @, Began("fault"))]
    /\ UNCHANGED <<now, phase, healed, ops, probes, seen, reliable>>

Withdraw(w) ==
    /\ w.end = None
    /\ windows' = (windows \ {w}) \cup {[w EXCEPT !.end = now]}
    /\ UNCHANGED <<now, phase, healed, lives, ops, probes, seen, reliable>>

Invoke(o) ==
    /\ phase # "assert" /\ ops[o].inv = None
    /\ ops' = [ops EXCEPT ![o].inv = now]
    /\ UNCHANGED <<now, phase, healed, lives, windows, probes, seen, reliable>>

Complete(o) ==
    /\ phase # "assert" /\ ops[o].inv # None /\ ops[o].comp = None
    /\ ops' = [ops EXCEPT ![o].comp = now]
    /\ UNCHANGED <<now, phase, healed, lives, windows, probes, seen, reliable>>

\* The probe of QUIESCE and the samples of the telemetry collector; those taken
\* before HEAL are in no window.
Probe(n) ==
    /\ phase \in {"heal", "quiesce"} /\ Cardinality(probes) < MaxProbes
    /\ probes' = probes \cup {[node |-> n, at |-> now, ok |-> Up(n)]}
    /\ UNCHANGED <<now, phase, healed, lives, windows, ops, seen, reliable>>

\* ASSERT: docker inspect may fail for any node, the history be torn.
Collect(asked) ==
    /\ phase = "quiesce"
    /\ phase' = "assert"
    /\ seen' \in IF "no_crash" \in asked THEN SUBSET Node ELSE {Node}
    /\ reliable' \in IF "no_stuck_op" \in asked THEN BOOLEAN ELSE {TRUE}
    /\ UNCHANGED <<now, healed, lives, windows, ops, probes>>

\* What happens in a world that the oracles of set "asked" judge.  Evidence that
\* none of them reads is left out.
Happens(asked) ==
    \/ Tick \/ NextPhase \/ Collect(asked)
    \/ /\ {"no_crash", "availability_after_heal"} \cap asked # {}
       /\ \E n \in Node : Crash(n) \/ Supervised(n)
    \/ /\ "no_crash" \in asked
       /\ \/ \E n \in Node : ProcKill(n) \/ ProcRestart(n)
          \/ \E w \in windows : Withdraw(w)
    \/ /\ "availability_after_heal" \in asked
       /\ \E n \in Node : Probe(n)
    \/ /\ "no_stuck_op" \in asked
       /\ \E o \in Op : Invoke(o) \/ Complete(o)

-----------------------------------------------------------------------------
(* no_crash.                                                               *)

\* inspect shows an exit while the container does not run; its exit code is
\* zero again once it was started anew.
HasExit(n) == ~Up(n)

\* The command asks for {{json .State}}, and a container's restart count is at
\* the top of the document: the field keeps its zero.
RestartCount(n) == 0

\* Mutant of Covers: the instant of the injection is left out.
CoversAfter(w, n, at) == w.node = n /\ at > w.start /\ at <= w.end

Covers(w, n, at) == w.node = n /\ at >= w.start /\ at <= w.end

Excused(n) == \E w \in windows : Covers(w, n, LastLife(n).to)

PlannedFaultsFor(n) == {w \in windows : w.node = n}

CrashOf(n) ==
    /\ n \in seen
    /\ \/ HasExit(n) /\ ~Excused(n)
       \/ RestartCount(n) > 0 /\ PlannedFaultsFor(n) = {}

\* Mutant of CrashUnknown: a node nobody looked at is taken for a healthy one.
CrashUnknownSeen(n) == RestartCount(n) > 0 /\ PlannedFaultsFor(n) # {}

CrashUnknown(n) ==
    n \notin seen \/ (RestartCount(n) > 0 /\ PlannedFaultsFor(n) # {})

NoCrash ==
    IF \E n \in Node : CrashOf(n) THEN "violated"
    ELSE IF \E n \in Node : CrashUnknown(n) THEN "inconclusive"
    ELSE "ok"

-----------------------------------------------------------------------------
(* no_stuck_op.                                                            *)

Later(a, b) == IF a >= b THEN a ELSE b

\* ObservationEndMS: the phases end where the clock stands.
ObservationEnd == now

StuckOpen(o) ==
    ops[o].comp = None /\ ObservationEnd >= Later(healed.end, ops[o].inv) + SLO

StuckDone(o) ==
    /\ ops[o].comp > healed.end
    /\ ops[o].comp - Later(healed.end, ops[o].inv) > SLO

Invoked == {o \in Op : ops[o].inv # None}

NoStuckOp ==
    IF ~reliable \/ Invoked = {} THEN "inconclusive"
    ELSE IF \E o \in Invoked : StuckOpen(o) \/ StuckDone(o) THEN "violated"
    ELSE IF \E o \in Invoked : ops[o].comp = None THEN "inconclusive"
    ELSE "ok"

-----------------------------------------------------------------------------
(* availability_after_heal.                                                *)

\* QUIESCE when it lasted, else the convergence window after HEAL.
WindowEnd == IF now > healed.end THEN now ELSE healed.end + Convergence

InWindow == {p \in probes : p.at >= healed.end /\ p.at <= WindowEnd}

Probed(n) == \E p \in InWindow : p.node = n
Answered(n) == \E p \in InWindow : p.node = n /\ p.ok

AvailabilityAfterHeal ==
    IF \E n \in Node : Probed(n) /\ ~Answered(n) THEN "violated"
    ELSE IF \E n \in Node : ~Probed(n) THEN "inconclusive"
    ELSE "ok"

Builtins == {"no_crash", "no_stuck_op", "availability_after_heal"}

Builtin(o) ==
    CASE o = "no_crash" -> NoCrash
      [] o = "no_stuck_op" -> NoStuckOp
      [] o = "availability_after_heal" -> AvailabilityAfterHeal
=============================================================================
