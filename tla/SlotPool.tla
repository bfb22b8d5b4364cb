------------------------------ MODULE SlotPool ------------------------------
(***************************************************************************)
(* Concurrent worlds: ParallelRunner.Run and its slotPool,                 *)
(* internal/control/parallel.go.                                           *)
(*                                                                         *)
(* One goroutine submits the requests, one runs each world, and one per    *)
(* acquire watches the context.  The pool's critical sections are single   *)
(* steps, except where the watchdog, which takes no lock, can come between:*)
(* after acquire has looked at the context and before cond.Wait listens.   *)
(***************************************************************************)
EXTENDS Integers, FiniteSets

CONSTANTS
    Workers,       \* ParallelOptions.Workers
    Requests       \* how many worlds a batch asks for

ASSUME PoolAssumption == Workers \in Nat \ {0} /\ Requests \in Nat \ {0}

Slot == 0..(Workers - 1)
Request == 1..Requests

VARIABLES
    next,          \* the request Run is at
    at,            \* where Run is
    watch,         \* the watchdog of the current acquire
    ctxOver,       \* ctx.Err() # nil
    free,          \* slotPool.free, handed out lowest first
    inflight,      \* slotPool.inflight
    retired,       \* slotPool.retired
    running,       \* the request a slot's goroutine runs, 0 for none
    project,       \* the compose project of each slot
    out,           \* the outcome of each request, "none" so far
    fatal          \* firstFatal

pool == <<free, inflight, retired>>

poolVars == <<next, at, watch, ctxOver, pool, running, project, out, fatal>>

PoolInit ==
    /\ next = 1
    /\ at = "submit"
    /\ watch = "off"
    /\ ctxOver = FALSE
    /\ free = Slot /\ inflight = 0 /\ retired = {}
    /\ running = [s \in Slot |-> 0]
    /\ project = [s \in Slot |-> "absent"]
    /\ out = [r \in Request |-> "none"]
    /\ fatal = "none"

CancelBatch ==
    /\ ~ctxOver /\ at # "done"
    /\ ctxOver' = TRUE
    /\ UNCHANGED <<next, at, watch, pool, running, project, out, fatal>>

-----------------------------------------------------------------------------
(* Run's goroutine: one request at a time.                                 *)

\* The next request, or wg.Wait once there is none.
Proceed ==
    /\ next' = next + 1
    /\ at' = IF next = Requests THEN "join" ELSE "submit"
    /\ watch' = "off"

Skip ==
    /\ at = "submit" /\ ctxOver
    /\ out' = [out EXCEPT ![next] = "canceled"]
    /\ Proceed
    /\ UNCHANGED <<ctxOver, pool, running, project, fatal>>

Submit ==
    /\ at = "submit" /\ ~ctxOver
    /\ at' = "acquire" /\ watch' = "armed"
    /\ UNCHANGED <<next, ctxOver, pool, running, project, out, fatal>>

Lowest == CHOOSE s \in free : \A t \in free : s <= t

\* A lane is handed out and its world started, though the context may be over.
Acquire ==
    /\ at = "acquire" /\ free # {}
    /\ free' = free \ {Lowest}
    /\ inflight' = inflight + 1
    /\ running' = [running EXCEPT ![Lowest] = next]
    /\ project' = [project EXCEPT ![Lowest] = "up"]
    /\ Proceed
    /\ UNCHANGED <<ctxOver, retired, out, fatal>>

\* Nothing is free and nothing runs that could free a lane.
MustRefuse == free = {} /\ inflight = 0

\* A refused request is answered, and the loop goes on to the next.
Refused == Proceed

\* acquire's error: the context's, or exhaustedLocked.  Both are recorded alike.
Refuse ==
    /\ at = "acquire" /\ free = {}
    /\ ctxOver \/ MustRefuse
    /\ out' = [out EXCEPT ![next] = "harness_error"]
    /\ fatal' = IF fatal # "none" THEN fatal
                ELSE IF ctxOver THEN "canceled" ELSE "exhausted"
    /\ Refused
    /\ UNCHANGED <<ctxOver, pool, running, project>>

\* The context was looked at; the mutex is still held, but nothing listens.
Decide ==
    /\ at = "acquire" /\ free = {} /\ ~ctxOver /\ ~MustRefuse
    /\ at' = "deaf"
    /\ UNCHANGED <<next, watch, ctxOver, pool, running, project, out, fatal>>

\* cond.Wait listens, then unlocks.
Wait ==
    /\ at = "deaf"
    /\ at' = "asleep"
    /\ UNCHANGED <<next, watch, ctxOver, pool, running, project, out, fatal>>

\* Broadcast wakes a waiter that listens; anything else does not hear it.
Broadcast == at' = IF at = "asleep" THEN "acquire" ELSE at

\* The watchdog broadcasts without the mutex.
Watchdog ==
    /\ watch = "armed" /\ ctxOver
    /\ watch' = "fired"
    /\ Broadcast
    /\ UNCHANGED <<next, ctxOver, pool, running, project, out, fatal>>

Join ==
    /\ at = "join" /\ \A s \in Slot : running[s] = 0
    /\ at' = "done"
    /\ UNCHANGED <<next, watch, ctxOver, pool, running, project, out, fatal>>

-----------------------------------------------------------------------------
(* The goroutine of one world: runOne, then release or retire.             *)

\* The outcomes World shows a world can return.
LaneOutcome == {"pass", "canceled", "inconclusive", "harness_error", "violation"}

MutexFree == at # "deaf"

Ends(s, o) ==
    /\ MutexFree /\ running[s] # 0
    /\ o = "canceled" => ctxOver
    /\ out' = [out EXCEPT ![running[s]] = o]
    /\ running' = [running EXCEPT ![s] = 0]
    /\ inflight' = inflight - 1

\* Teardown was verified: the lane goes back.
Release(s, o) ==
    /\ Ends(s, o)
    /\ project' = [project EXCEPT ![s] = "absent"]
    /\ free' = free \cup {s}
    /\ Broadcast
    /\ UNCHANGED <<next, watch, ctxOver, retired, fatal>>

\* Mutant of Withdrawn: the lane of a leaked project is handed out again.
WithdrawnNever(s) == free' = free \cup {s} /\ UNCHANGED retired

Withdrawn(s) == retired' = retired \cup {s} /\ UNCHANGED free

\* Mutant of RetireWakes: only a released lane wakes a waiter.
RetireWakesNobody == UNCHANGED at

RetireWakes == Broadcast

\* It was not, and then the project may or may not be there; a world that
\* leaves one behind has an outcome to match (World).
Retire(s) ==
    \E o \in {"harness_error", "violation"} :
        /\ Ends(s, o)
        /\ \E p \in {"absent", "leaked"} : project' = [project EXCEPT ![s] = p]
        /\ Withdrawn(s)
        /\ RetireWakes
        /\ UNCHANGED <<next, watch, ctxOver, fatal>>

Finish(s) == Retire(s) \/ \E o \in LaneOutcome : Release(s, o)

-----------------------------------------------------------------------------
Run == Skip \/ Submit \/ Acquire \/ Refuse \/ Decide \/ Wait \/ Join

PoolNext ==
    \/ CancelBatch \/ Watchdog
    \/ Run
    \/ \E s \in Slot : Finish(s)

\* Every world returns (World!WorldReturns), and goroutines run.
PoolFairness == WF_poolVars(Run) /\ WF_poolVars(Watchdog) /\ \A s \in Slot : WF_poolVars(Finish(s))

PoolSpec == PoolInit /\ [][PoolNext]_poolVars /\ PoolFairness

-----------------------------------------------------------------------------
(* Properties.                                                             *)

Outcome == LaneOutcome \cup {"none"}

PoolTypeOK ==
    /\ next \in 1..(Requests + 1)
    /\ at \in {"submit", "acquire", "deaf", "asleep", "join", "done"}
    /\ watch \in {"off", "armed", "fired"}
    /\ ctxOver \in BOOLEAN
    /\ free \subseteq Slot
    /\ inflight \in 0..Workers
    /\ retired \subseteq Slot
    /\ running \in [Slot -> Request \cup {0}]
    /\ project \in [Slot -> {"absent", "up", "leaked"}]
    /\ out \in [Request -> Outcome]
    /\ fatal \in {"none", "canceled", "exhausted"}

Busy == {s \in Slot : running[s] # 0}

\* A lane is free, running a world or retired, and exactly one of them: no two
\* worlds share a project, a port band or a slot, and none is lost.
LanesAreExclusive ==
    /\ free \cap Busy = {} /\ free \cap retired = {} /\ Busy \cap retired = {}
    /\ free \cup Busy \cup retired = Slot
    /\ inflight = Cardinality(Busy)

\* "Handing it to the next world would boot a project on top of a live one."
NoWorldOnALeak == \A s \in free : project[s] = "absent"

\* The pool is declared exhausted only when every lane is retired.
ExhaustedIsTrue == fatal = "exhausted" => retired = Slot

\* A waiter sleeps only while a world runs that will wake it.
SleeperHasAWaker == at = "asleep" => free = {} /\ Busy # {}

\* When Run returns, every request has an outcome: none was dropped because a
\* lane was retired, the pool exhausted or the context cancelled.
EveryRequestAnswered == at = "done" => \A r \in Request : out[r] # "none"

\* A batch ends, whatever its worlds do and whenever it is cancelled.
BatchReturns == <>(at = "done")

-----------------------------------------------------------------------------
(* What a comment of the code says of acquire; see the run that refutes it. *)

\* "A waiter must be woken when the context is cancelled."
CancelWakesTheWaiter == watch = "fired" => at # "asleep"
=============================================================================
