------------------------------ MODULE MCControl ------------------------------
(* internal/control runs worlds one after another (RunLoop) or as a batch on  *)
(* lanes (SlotPool), never both at once; the telemetry of one of its worlds   *)
(* (Telemetry), which neither of them looks at; and the constants of their    *)
(* TLC run.                                                                   *)
EXTENDS RunLoop, SlotPool, Telemetry

\* Finite profiles of one to three worlds, and open-ended ones.
MCProfiles ==
    [worlds : 1..3, wall : {1, 3}, min : {0}] \cup
    [worlds : {-1}, wall : {1, 3}, min : {1, 2}]

\* Either option, both, or neither.
MCCLI == [worlds : {0, 1, 2}, wall : {0, 2}]

\* A queue that grows, or grows and falls, or grows while a call hangs, containers that stop
\* and a disk that fails, leaders that change where no memory is reported.
MCBounds ==
    {[kinds |-> {"up"}, moves |-> 2, time |-> 3, files |-> {"v2 anon"}],
     [kinds |-> {"up", "slow"}, moves |-> 2, time |-> 3, files |-> {}],
     [kinds |-> {"up", "down"}, moves |-> 2, time |-> 1, files |-> {"v2 anon"}],
     [kinds |-> {"container", "disk"}, moves |-> 1, time |-> 1, files |-> {"v1 rss"}],
     [kinds |-> {"leader", "slow", "error"}, moves |-> 1, time |-> 2, files |-> {}]}

NoBatch ==
    /\ next = Requests + 1 /\ at = "done" /\ watch = "off" /\ ctxOver = FALSE
    /\ free = Slot /\ inflight = 0 /\ retired = {}
    /\ running = [s \in Slot |-> 0] /\ project = [s \in Slot |-> "absent"]
    /\ out = [r \in Request |-> "none"] /\ fatal = "none"

NoRun ==
    /\ profile = <<>> /\ budget = <<>> /\ expected = "none" /\ lock = "ok" /\ clock = 0
    /\ canceled = FALSE /\ pc = "done" /\ worlds = <<>> /\ started = 0
    /\ runOutcome = "pass" /\ verdict = "none" /\ exit = "none"

NoSampler ==
    /\ load = 0 /\ cont = <<>> /\ leader = 1 /\ moves = 0 /\ now = 0
    /\ bounds = [kinds |-> {}, moves |-> 0, time |-> 0, files |-> {}]
    /\ phase = "DONE" /\ began = <<>> /\ doc = {} /\ series = <<>>
    /\ step = "stopped" /\ round = NoRound /\ readings = <<>> /\ seq = 0 /\ unwritten = <<>>
    /\ stopAsked = TRUE /\ lines = <<>> /\ sink = "closed" /\ observed = {}

ControlInit ==
    \/ Init /\ NoBatch /\ NoSampler
    \/ PoolInit /\ NoRun /\ NoSampler
    \/ TelInit /\ NoRun /\ NoBatch

ControlNext ==
    \/ Next /\ UNCHANGED <<poolVars, telVars>>
    \/ PoolNext /\ UNCHANGED <<vars, telVars>>
    \/ TelemetryNext /\ UNCHANGED <<vars, poolVars>>

\* SlotPool's fairness and Telemetry's; a run alone makes no promise of progress.
ControlSpec ==
    /\ ControlInit /\ [][ControlNext]_<<vars, poolVars, telVars>>
    /\ WF_poolVars(Run /\ UNCHANGED <<vars, telVars>>)
    /\ WF_poolVars(Watchdog /\ UNCHANGED <<vars, telVars>>)
    /\ \A s \in Slot : WF_poolVars(Finish(s) /\ UNCHANGED <<vars, telVars>>)
    /\ WF_telVars(Collect /\ UNCHANGED <<vars, poolVars>>)
    /\ WF_telVars(CloseSink /\ UNCHANGED <<vars, poolVars>>)
==============================================================================
