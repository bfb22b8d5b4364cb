---------------------------- MODULE DriverHandle ----------------------------
(***************************************************************************)
(* One world's workload driver: the supervisor of internal/driver          *)
(* (supervise.go, drain.go) and the handle the lifecycle holds on it       *)
(* (defaultDriverHandle in internal/control/runner.go).                    *)
(*                                                                         *)
(* Three actors: the process itself, the goroutine that runs               *)
(* Supervisor.Run, and the world's goroutine, which calls Start, Drain and *)
(* Stop.  The actions here are composed with that caller in World.         *)
(***************************************************************************)
EXTENDS Naturals

CONSTANT
    Draining         \* is the drain enabled (a positive deadline)?

ASSUME DriverAssumption == Draining \in BOOLEAN

VARIABLES
    handle,          \* what the caller did with the handle
    sup,             \* how far Supervisor.Run has got
    proc,            \* the driver process
    clean,           \* it exited with status 0
    killRequested,   \* Supervisor.killRequested
    watched,         \* Run's watchdog took the cancellation branch
    res,             \* DriverResult as Result() returns it
    drain,           \* DrainReport.Outcome
    canceled         \* the world's context has ended

driver == <<handle, sup, proc, clean, killRequested, watched, res, drain>>

Result == [started : BOOLEAN, stopped : BOOLEAN, failed : BOOLEAN]

\* The zero DriverResult: nothing recorded yet.
NoResult == [started |-> FALSE, stopped |-> FALSE, failed |-> FALSE]

DrainOutcome == {"not_attempted", "unsupported", "completed",
                 "deadline_exceeded", "canceled", "failed"}

DriverTypeOK ==
    /\ handle \in {"none", "held", "stopping", "stopped"}
    /\ sup \in {"none", "starting", "spawned", "live", "done"}
    /\ proc \in {"none", "up", "exited"}
    /\ clean \in BOOLEAN
    /\ killRequested \in BOOLEAN
    /\ watched \in BOOLEAN
    /\ res \in Result
    /\ drain \in DrainOutcome \cup {"none", "waiting"}
    /\ canceled \in BOOLEAN

DriverInit ==
    /\ handle = "none"
    /\ sup = "none"
    /\ proc = "none"
    /\ clean = FALSE
    /\ killRequested = FALSE
    /\ watched = FALSE
    /\ res = NoResult
    /\ drain = "none"
    /\ canceled = FALSE

-----------------------------------------------------------------------------
(* The process and the goroutine that supervises it.                       *)

\* The command cannot be resolved or started.
StartError ==
    /\ sup = "starting"
    /\ sup' = "done"
    /\ res' = [NoResult EXCEPT !.failed = TRUE]
    /\ UNCHANGED <<handle, proc, clean, killRequested, watched, drain, canceled>>

Spawn ==
    /\ sup = "starting"
    /\ sup' = "spawned"
    /\ proc' = "up"
    /\ UNCHANGED <<handle, clean, killRequested, watched, res, drain, canceled>>

\* Only now do Kill and Drain see a live command.
Register ==
    /\ sup = "spawned"
    /\ sup' = "live"
    /\ killRequested' = FALSE
    /\ UNCHANGED <<handle, proc, clean, watched, res, drain, canceled>>

Signaled == killRequested \/ watched

\* The process ends: by itself, drained, or under a signal it may handle.
Exit ==
    /\ proc = "up"
    /\ proc' = "exited"
    /\ clean' \in BOOLEAN
    /\ UNCHANGED <<handle, sup, killRequested, watched, res, drain, canceled>>

\* Run's select takes the context's branch and terminates the tree.
Watchdog ==
    /\ sup = "live" /\ canceled /\ ~watched
    /\ watched' = TRUE
    /\ UNCHANGED <<handle, sup, proc, clean, killRequested, res, drain, canceled>>

\* Wait returns; a kill that anyone asked for is recorded as the harness's.
Reap ==
    /\ sup = "live" /\ proc = "exited"
    /\ sup' = "done"
    /\ res' = [started |-> TRUE, stopped |-> Signaled, failed |-> ~clean]
    /\ UNCHANGED <<handle, proc, clean, killRequested, watched, drain, canceled>>

Supervise == StartError \/ Spawn \/ Register \/ Watchdog \/ Reap

-----------------------------------------------------------------------------
(* The calls of the world's goroutine.                                     *)

Start ==
    /\ handle' = "held"
    /\ sup' = "starting"
    /\ UNCHANGED <<proc, clean, killRequested, watched, res, drain, canceled>>

\* Drain, up to its wait.  A driver that is gone already has nothing left to
\* retire; one that is not registered yet has no control channel.
BeginDrain ==
    /\ drain = "none"
    /\ drain' \in IF ~Draining                       THEN {"not_attempted"}
                  ELSE IF sup = "done"               THEN {"completed"}
                  ELSE IF sup \in {"none", "starting", "spawned"} THEN {"unsupported"}
                  ELSE {"waiting", "failed"}
    /\ UNCHANGED <<handle, sup, proc, clean, killRequested, watched, res, canceled>>

\* The wait: whichever of the three is ready, in any order if several are.
EndDrain ==
    /\ drain = "waiting"
    /\ \/ sup = "done" /\ drain' = "completed"
       \/ canceled     /\ drain' = "canceled"
       \/ drain' = "deadline_exceeded"
    /\ UNCHANGED <<handle, sup, proc, clean, killRequested, watched, res, canceled>>

\* Mutant of Kills: the driver is asked to drain, and never killed.
KillsNothing == FALSE

\* Kill finds a live command: its exit is the harness's doing from here on.
Kills == sup = "live"

\* Stop, once: Kill, then wait for the goroutine or the caller's context.
Stop ==
    /\ handle = "held"
    /\ handle' = "stopping"
    /\ killRequested' = (killRequested \/ Kills)
    /\ UNCHANGED <<sup, proc, clean, watched, res, drain, canceled>>

\* terminateTree returns only when the process is gone or was sent SIGKILL.
StopReturns(expired) ==
    /\ handle = "stopping"
    /\ killRequested => proc = "exited"
    /\ sup = "done" \/ expired
    /\ handle' = "stopped"
    /\ UNCHANGED <<sup, proc, clean, killRequested, watched, res, drain, canceled>>

-----------------------------------------------------------------------------
\* Mutant of Refusal: a driver that failed by itself is taken at its word.
RefusalIfUndrained == ~res.started \/ drain # "completed"

\* driverOutcomeRefusal: the history cannot be vouched for by its driver.
Refusal ==
    \/ ~res.started
    \/ drain # "completed"
    \/ ~res.stopped /\ res.failed
=============================================================================
