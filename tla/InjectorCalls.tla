--------------------------- MODULE InjectorCalls ----------------------------
(***************************************************************************)
(* What the fault families share: the containers they act on, the memory   *)
(* of a fault's primitive, and the calls as the executor makes them.       *)
(*                                                                         *)
(* The containers (box) are the truth, docker's and the kernel's; what a   *)
(* primitive remembers (prim) is only what this process saw.  A fault      *)
(* names the containers the world booted with: a recreated container is    *)
(* reached by its node label, never by the id the topology holds.          *)
(*                                                                         *)
(* Calls come one at a time: Inject once per fault until one fails,        *)
(* Withdraw for an active fault, at HEAL once more for each that is still  *)
(* active, then VerifyClean of every family.                               *)
(***************************************************************************)
EXTENDS Integers, Sequences, FiniteSets

CONSTANTS
    Node,            \* the nodes faults target, 1..N: walked in node-id order.
                     \* The topology has one more, the far side of any cut
    Fault,           \* the planned faults
    Plans,           \* [Fault -> [kind, nodes]] schedules to consider
    KnownBaseline,   \* nodes the BOOT snapshot could inspect
    Slots,           \* shaping slots of an interface: the prio qdisc's bands
    Flaky            \* may a docker command fail?

ASSUME InjectorAssumption ==
    /\ Node \subseteq Nat /\ KnownBaseline \subseteq Node
    /\ Slots \in Nat \ {0} /\ Flaky \in BOOLEAN

None    == "none"      \* a limit as the container booted with it
Unknown == "unknown"   \* no baseline recorded for the node
NoOne   == "nobody"

VARIABLES
    box,       \* the container of each node
    prim,      \* the memory of each fault's primitive
    plan,      \* kind and targets of each fault
    live,      \* the injectors' live maps
    active,    \* the executor's activeIDs
    injected,  \* faults the schedule has injected or tried to
    job,       \* the injector call under way
    stage,     \* drive, stopped (a failed injection), heal, verify, done
    sweep,     \* what HEAL has still to withdraw
    errs,      \* some call has returned an error
    residue,   \* VerifyClean has reported some
    blind      \* nodes a failed inspection was taken to be gone (history)

schedule == <<plan, live, active, injected, stage, sweep, errs, residue>>

-----------------------------------------------------------------------------
(* A container.                                                            *)

\* here: it is the one that booted; quota, mem and fd: who set the limit; skew:
\* who started it in a time namespace; rules, root and netem: its network
\* namespace's tagged rules by fault, prio root and netem qdiscs by slot.
BootBox ==
    [here |-> TRUE, up |-> TRUE, paused |-> FALSE, quota |-> None, mem |-> None,
     fd |-> None, ballast |-> {}, skew |-> None,
     rules |-> {}, root |-> FALSE, netem |-> {}]

\* The process goes, with its descriptors and its network namespace; cgroup
\* limits and the writable layer stay.
Stopped(b) == [b EXCEPT !.up = FALSE, !.paused = FALSE, !.fd = None,
                        !.rules = {}, !.root = FALSE, !.netem = {}]

\* A new container of the same node.
Recreated(skew) == [BootBox EXCEPT !.here = FALSE, !.skew = skew]

Becomes(n, b) == box' = [box EXCEPT ![n] = b]

\* A node of the system under test stops on its own.
Crash(n) ==
    /\ box[n].up /\ ~box[n].paused /\ stage # "done"
    /\ Becomes(n, Stopped(box[n]))
    /\ UNCHANGED <<prim, schedule, job, blind>>

-----------------------------------------------------------------------------
(* One target of the call under way.                                       *)

NoJob == [op |-> "none"]
Job(op, f, todo, err) == [op |-> op, fault |-> f, todo |-> todo, err |-> err]

\* The next target, in node-id order.
Turn(op, n) ==
    /\ job.op \in op
    /\ n \in job.todo
    /\ \A m \in job.todo : n <= m

Undo == {"withdraw", "rollback"}

KindOf(K) == plan[job.fault].kind \in K

\* Mutant of TargetFailed: the error is dropped from the aggregate.
TargetFailedQuietly(n) == job' = [job EXCEPT !.todo = @ \ {n}]

TargetFailed(n) == job' = [job EXCEPT !.todo = @ \ {n}, !.err = TRUE]
TargetDone(n)   == job' = [job EXCEPT !.todo = @ \ {n}]

\* base.mark: the primitive has applied its fault to the node, or has not.
Marked(n)  == TargetDone(n) /\ prim' = [prim EXCEPT ![job.fault].applied = @ \cup {n}]
Cleared(n) == TargetDone(n) /\ prim' = [prim EXCEPT ![job.fault].applied = @ \ {n}]

\* A step that failed, whatever it did to the container.
Fails(n) == TargetFailed(n) /\ UNCHANGED prim

\* docker commands addressed by the BOOT container id fail when it is gone.
NoAnswer(n) == Flaky \/ ~box[n].here

\* A container that cannot be inspected is an error only if this primitive
\* applied its fault to it.
LostSight(n) == n \in prim[job.fault].applied

Uninspected(n) ==
    /\ IF LostSight(n) THEN TargetFailed(n) ELSE TargetDone(n)
    /\ UNCHANGED <<box, prim>>

\* putBaseline: the BOOT snapshot wins over anything observed mid-run.
Baseline(n, observed) ==
    LET boot == prim[job.fault].base[n] IN IF boot = Unknown THEN observed ELSE boot

Observed(n, value) ==
    prim' = [prim EXCEPT ![job.fault].base[n] = Baseline(n, value)]

-----------------------------------------------------------------------------
(* The calls, as the executor makes them.                                  *)

\* build: a primitive that remembers nothing but the BOOT snapshot.
Fresh ==
    [applied |-> {},
     base |-> [n \in Node |-> IF n \in KnownBaseline THEN None ELSE Unknown],
     slot |-> [n \in Node |-> 0]]

\* A network fault is planned on every node before any command runs.
NetKind == {"partition", "shape"}
FirstOp(f) == IF plan[f].kind \in NetKind THEN "plan" ELSE "inject"

Inject(f) ==
    /\ stage = "drive" /\ job = NoJob /\ f \notin injected
    /\ injected' = injected \cup {f}
    /\ prim' = [prim EXCEPT ![f] = Fresh]
    /\ job' = Job(FirstOp(f), f, plan[f].nodes, FALSE)
    /\ UNCHANGED <<box, plan, live, active, stage, sweep, errs, residue, blind>>

Injected ==
    /\ job.op = "inject" /\ job.todo = {} /\ ~job.err
    /\ live' = live \cup {job.fault}
    /\ active' = active \cup {job.fault}
    /\ job' = NoJob
    /\ UNCHANGED <<box, prim, plan, injected, stage, sweep, errs, residue, blind>>

\* Atomic in effect: whatever landed is rolled back before the error returns.
RollBack ==
    /\ job.op \in {"plan", "inject"} /\ job.todo = {} /\ job.err
    /\ job' = Job("rollback", job.fault, plan[job.fault].nodes, FALSE)
    /\ UNCHANGED <<box, prim, schedule, blind>>

\* The error reaches the executor, which stops the schedule.
RolledBack ==
    /\ job.op = "rollback" /\ job.todo = {}
    /\ errs' = TRUE
    /\ stage' = "stopped"
    /\ job' = NoJob
    /\ UNCHANGED <<box, prim, plan, live, active, injected, sweep, residue, blind>>

\* At a window's end, in the sweep of a stopped schedule, or at HEAL.
Withdraw(f) ==
    /\ job = NoJob /\ f \in active
    /\ \/ stage \in {"drive", "stopped"} /\ UNCHANGED sweep
       \/ stage = "heal" /\ f \in sweep /\ sweep' = sweep \ {f}
    /\ prim' = IF f \in live THEN prim ELSE [prim EXCEPT ![f] = Fresh]
    /\ job' = Job("withdraw", f, plan[f].nodes, FALSE)
    /\ UNCHANGED <<box, plan, live, active, injected, stage, errs, residue, blind>>

StillActive == IF job.err THEN active ELSE active \ {job.fault}

\* The primitive is forgotten even when the withdrawal failed.
StillLive == live \ {job.fault}

Withdrawn ==
    /\ job.op = "withdraw" /\ job.todo = {}
    /\ live' = StillLive
    /\ active' = StillActive
    /\ errs' = (errs \/ job.err)
    /\ job' = NoJob
    /\ UNCHANGED <<box, prim, plan, injected, stage, sweep, residue, blind>>

Heal ==
    /\ stage \in {"drive", "stopped"} /\ job = NoJob
    /\ stage' = "heal"
    /\ sweep' = active
    /\ UNCHANGED <<box, prim, plan, live, active, injected, job, errs, residue, blind>>

\* Every family's VerifyClean, one family after the other.
Families == <<"net", "proc", "clock", "io">>

VerifyClean ==
    /\ stage = "heal" /\ job = NoJob /\ sweep = {}
    /\ stage' = "verify"
    /\ job' = Job("verify", 1, Node, FALSE)
    /\ UNCHANGED <<box, prim, plan, live, active, injected, sweep, errs, residue, blind>>

\* One node of one family's check: what it sees is reported, what it cannot see
\* is reported or passed over.
Verifies(family, n) == Turn({"verify"}, n) /\ Families[job.fault] = family

Reports(n, seen) ==
    /\ residue' = (residue \/ seen)
    /\ TargetDone(n)
    /\ UNCHANGED <<box, prim, plan, live, active, injected, stage, sweep, errs, blind>>

NextFamily ==
    /\ job.op = "verify" /\ job.todo = {} /\ job.fault < Len(Families)
    /\ job' = Job("verify", job.fault + 1, Node, FALSE)
    /\ UNCHANGED <<box, prim, schedule, blind>>

Reported ==
    /\ job.op = "verify" /\ job.todo = {} /\ job.fault = Len(Families)
    /\ stage' = "done"
    /\ job' = NoJob
    /\ UNCHANGED <<box, prim, plan, live, active, injected, sweep, errs, residue, blind>>

Call ==
    \/ \E n \in Node : Crash(n)
    \/ \E f \in Fault : Inject(f) \/ Withdraw(f)
    \/ Injected \/ RollBack \/ RolledBack \/ Withdrawn
    \/ Heal \/ VerifyClean \/ NextFamily \/ Reported
=============================================================================
