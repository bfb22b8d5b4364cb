# Verification of PRO-THESIS

PRO-THESIS (`thesis`) tests distributed systems: it boots a topology with
docker compose, drives a workload against it, injects faults, heals them,
and asks oracles whether the recorded history is acceptable.  Its value is its
verdict, so what it may get wrong is: a PASS that was not earned, a violation
that got lost, a fault or a container left behind by one world that poisons the
next, a run that never ends.  This directory holds TLA+ modules of the parts of
the program that decide those things, TLC runs that check them on small
instances, and theorems checked by TLAPS for every instance.

Paths below are relative to the repository (`src/` here).

## Inventory

The system has one process per command (`cmd/thesis`), goroutines inside it, one
driver process per world, and the docker daemon.

| part | code | state it keeps | operations | interacts with | hard behaviour |
|---|---|---|---|---|---|
| run loop, budget, verdict | `internal/control/runner.go` `Run`, `budget.go`, `verdict.go` | worlds started and finished, outcomes, the fold | start a world, expire, narrow, build and write the verdict | world lifecycle, lock | cancellation and expiry between and inside worlds |
| parallel worlds | `internal/control/parallel.go` | free lanes, lanes in flight, retired lanes | acquire, release, retire | world lifecycle, search | several goroutines and a condition variable; lanes that leak |
| world lifecycle | `internal/control/runner.go` `runWorld`, `perturb.go`, `outcome.go` | topology, driver, perturbation, outcome | eight phases and a deferred cleanup | everything below | an early return at any step, a cleanup on a context of its own |
| phase log | `internal/control/phase.go` | phase windows, the nested window | advance, nest, unnest, mark | world lifecycle, recorder | markers that cannot be written |
| driver supervisor | `internal/driver` | the process, kill requested, drain report | run, drain, kill, classify | world lifecycle | three actors: process, supervising goroutine, world |
| compose backend | `internal/harness` | the compose project on the host | up, down, fresh-storage check, handoff file | docker | failures half way; projects it does not own |
| fault schedule compiler | `internal/perturber/compile.go`, `constraint.go` | none (pure) | canonical order, events, concurrency budget, constraints | executor | windows that meet at one millisecond |
| fault executor | `internal/perturber/execute.go` | active faults, records, residues | run, inject, withdraw, heal, verify | injectors, world lifecycle | cancellation inside any call, failing rollbacks |
| process fault family | `internal/perturber/faults/proc.go` | per-fault record of nodes, boot baselines | inject, roll back, withdraw, verify clean | docker | overlapping faults, crashes, commands that fail after they took effect |
| network, clock and disk fault families | `internal/perturber/faults/net*.go`, `iptables.go`, `tc.go`, `sidecar.go`, `clock.go`, `io.go`, `baseline.go`, `residual.go` | rules and qdiscs by ownership token, boot baselines | as above, through sidecars | docker, kernel | ownership of rules, residue against a baseline |
| oracle engine and built-in oracles | `internal/oracle` | findings | evaluate, external processes, the six built-in oracles | history, telemetry, world lifecycle | process trees that do not end; evidence that is missing or cut short |
| linearizability checker | `cmd/thesis-oracle-linearizable` | search stack, memo | load a history, search a linearization per key | oracle process | exponential search under a budget, indeterminate operations |
| recorder | `internal/recorder` | run directory, virtual clock, seeds | create run ids, write artifacts, encode worlds, derive PRNG streams | all | run ids that collide, files half written |
| telemetry | `internal/telemetry` | samplers, sink, document | start, sample, stop, materialise | world lifecycle | concurrent samplers, a document cut by a crash |
| search | `internal/search`, `search/engine`, `search/saboteur`, `search/llm` | corpus, coverage, MCTS tree, ladder | propose, execute a batch, observe, record | parallel worlds | results that arrive out of order must not change the search |
| shrink | `internal/shrink` | candidate, budget, cache of trials | ddmin, narrow, confirm | replay | flaky reproductions, a budget that ends inside a stage |
| replay, regress, bisect | `internal/replay`, `internal/bisect`, their commands | executions of a world, statuses of a corpus, the live range of revisions, HEAD | attempt, judge, tally; open, replay, report; probe, check out, build, test, restore | world lifecycle, corpus, git | attempts that say nothing, budgets that end between two of them, revisions that do not build, flaky worlds |
| regression corpus | `internal/corpus` | committed worlds and their plans | list, add | replay, shrink | append-only files written one after another |
| oracle lock | `internal/lock` | the manifest | build, check, diff | run loop, commands | a gate weakened without a trace |
| diagnose, cluster | `internal/diagnose`, `internal/cluster` | registry, clusters | attribute, cluster | run corpus | ties and orders that change a report |
| schema and calibration | `pkg/schema` | none (values) | parse, validate, classify | all | boundary values, unknown fields |
| ledger, doctor, probe host, build info | `internal/ledger`, `doctor`, `probehost`, `buildinfo` | none | read-only checks | files, docker | none that is temporal |
| command line | `cmd/thesis` | flags | one function per command | all | none of its own |
| KV fixture | `testdata/kvfixture` | a Raft cluster with a lease-read defect on purpose | elections, replication, reads, writes | driver, faults | consensus |
| targets | `targets/*` | load generators for etcd, consul, redis, rqlite: a belief about the leader, open connections, a budget, the history | run a workload, record a history, drain | driver, oracles | outcomes of operations that are unknown, connections reused after a timeout |
| role targets and steady-state probes | `internal/perturber/resolve.go`, `internal/control/roleprobe.go`, `steady.go`, `targets/*/cmd/*role`, `*steady` | none of their own | bind a target, ask who leads, wait for a steady cluster | executor, world lifecycle | members asked one after another while leadership moves |

What makes each part correct, and where it is checked, is the subject of the
sections below; the parts without a module are in *What is not modelled*.

## Modules

    FaultSchedule      the compiled schedule: events, their order, the budget
      |
    Executor  --implements-->  Perturbation      what the perturber promises
      |                            |
    PerturbationProofs             | (INSTANCE)
                                   v
    DriverHandle, PhaseLog --> World <-- Outcome      one world, eight phases
                                 :\         |
                                 : PerturbationProofs
                                 :          |
                                 :       RunLoop       worlds one after another
                                 :          |     \
                                 :   ControlProofs  MCControl <-- Telemetry
                                 :          |     /
                                 ....... SlotPool      worlds at once
                                 :
                                 :       Search        batches of worlds
                                 :          |     \
                                 :          |  SearchProofs
                                 :       Saboteur --> AdversarialTree
                                 :
    InjectorCalls <-- ProcFaults, NetFaults, HostFaults <-- Families <-- FamiliesProofs
                                 :      the injectors of the executor, down to
                                 :      docker and the kernel
                                 :
    Oracles --> Evidence, OracleProcess       what a world is judged by
    OraclesProofs --> Oracles
    Linearizable --> Loadgen                  an oracle's program, and a driver
    LinearizableProofs --> Linearizable
    TargetDrivers, ClusterProbes <-- MCTargets, TargetsProofs    the programs of targets/
    KVRaft <-- KVRaftProofs                   the fixture under test

    Replay <-- Regress, Bisect <-- Commands      replay, regress, bisect
                                      |
                                FamiliesProofs
    Shrink --> Prober                            shrink, and its corpus
    ControlProofs --> Shrink

`World` extends `DriverHandle`, `PhaseLog` and `Outcome`, so that the driver's
process, its supervising goroutine and the world's goroutine interleave in one
next-state relation, and instantiates `Perturbation` for the faults.  `Executor`
is shown to implement `Perturbation`, by TLC and by a proof, so `World` need not
know schedules; `Families` makes the calls an executor makes, in its order, of
every injector at once.  `RunLoop`, `SlotPool` and `Search` take a world as one
step, with the outcomes `World` shows it can return: a world that leaves something
behind ends as a harness error or a violation and with a teardown error
(`OutcomeIsTruthful`, `LeftoversAreReported`), and it ends (`WorldReturns`), which is
the fairness `SlotPool` and `Search` assume of it.  An oracle is one outcome to
`World`; `Oracles` is where the outcome comes from, and `Linearizable` is the
program of one oracle.  `Replay` takes a world as one step too (`Execution` is
what it may return); `Regress` and `Bisect` extend `Replay` with their own state
and call it as the code calls `replay.Run`, and `Commands` is the process that
dispatches to one of the three.

### FaultSchedule, Executor, Perturbation

*State.* `plan` is the compiled schedule; `at` says whether the executor is new,
running, sweeping, returned, healing, verifying or healed; `active` is
`activeIDs`, `rec` and `wd` the recorded results of injections and withdrawals,
`inForce` what is really in place on the nodes, which the code cannot see.
*Actions.* `Run`, one action for each event (`InjectCall`, `InjectOK`,
`InjectionFails`, `WithdrawEvent`), the sweep (`SweepWithdraw`, `SweepDone`),
`HealCall`, `Verified` and `Unverified`, and `CancelRun` at any point.  An injector may
fail at any call, with or without its effect in place.
*What could go wrong and does not:* an effect nobody will withdraw or report
(`TrackedOrReported`); a HEAL that says clean over something in force
(`HealedMeansClean`); an injection after the schedule stopped, faults taken off in
the wrong order or more in force than the schedule admits (`ImplementsPerturbation`
and, proved, `NoInjectionAfterStop`); a cancelled run that never returns
(`CanceledRunReturns`).

### InjectorCalls, ProcFaults, NetFaults, HostFaults, Families

*State.* `box` is the truth, docker's and the kernel's: of each node's container
whether it is there, up, paused, throttled, skewed, filled, cut and shaped.  `prim`
is what the primitive of each fault remembers, `claims` the slots the network
injector holds in memory, `live` the injectors' maps of primitives, which a failed
withdrawal empties.  `job` is the call under way; the calls are the executor's:
each fault injected once until one injection fails, withdrawn, at HEAL withdrawn
again if it is still active, then `VerifyClean` of every family.
*Actions.* Each family has one action for each docker command or sidecar script
on one target and one for each way it fails (`PauseTarget`, `SlowTarget`,
`ShapeNode`, `SkewTarget`, ...), for the undoing of each, and for the end of a call.
The daemon may fail any command, with its effect or without; a node may die
between two commands.  A network fault runs its scripts on all its nodes at once.
*What could go wrong and does not:* a stopped process, a limit, a rule, a qdisc, a
ballast file or a skewed clock that nobody will undo and no error reported, at any
moment or at the end of the world, nor a qdisc in a slot that nobody has claimed,
which the next fault cannot take (`NothingIsLeftUnseen`); a clean
withdrawal that undid less than was done (`WithdrawnMeansUndone`).
*Abstractions.* The nodes are the ones faults target, and the topology has one more;
`Slots` is 2 (the code has 14); a sidecar that outlives its `docker run` and the
kinds `io.latency` and `io.error`, which are refused before they touch anything,
are left out.

### DriverHandle, PhaseLog, Outcome, World

*State.* `pc` is the place in `runWorld`; `project` the compose project on the
host, which may be somebody else's; `topo`, `bootInUse`, `perturb`, `healed`,
`worldOutcome` are the function's variables of those names; `outcome`,
`teardownErr` and `keptUp` its result; `sup`, `proc`, `killRequested`,
`watched`, `res` the supervisor, the process and what is recorded of it;
`maxOrd`, `nested`, `reached` the phase log.
*Actions.* One for each stretch of `runWorld` between two points where something
else can happen: `Boot`, `Booted`, `Seed`, `Drive`, `Compile`, `PerturbEnds` or
`PerturbFails`, `Heal`, `Healed`, `Quiesce`, `Drains`, `Stopped`, `Converge`,
`Assert`; and for the deferred function `CleanupBegins`, `CleanupHealed`,
`Teardown`, `CleanupStopped`, `Cleaned`.  Around them: the driver's goroutine
(`Spawn`, `Register`, `Watchdog`, `Reap`), its process (`Exit`), cancellation,
and the end of the cleanup's 30 seconds (`Expire`).
*What could go wrong and does not:* a pass that was not earned in every phase, a
violation that a later failure covers up, a fault left in force behind a good
outcome (`OutcomeIsTruthful`); a project left standing that neither the error nor the
outcome tells of (`LeftoversAreReported`); a world that does not return
(`WorldReturns`).
*Abstractions.* An oracle is the outcome of its finding; a schedule is the set
of its faults; artifacts are reduced to whether the world file was written.  The
two directories made before the cleanup is installed are left out: a world that
cannot make them returns before it has done anything.

### RunLoop

`Runner.Run`, with the budget it enforces (`Enforced`), the profile's own
(`profile`), the wall clock in ticks, the fold and the verdict.  Narrowing by
`--fault` or by a build variant sets the same flag as `--worlds` and `--budget`
and is represented by them.

### Telemetry

*State.* The system's `load`, containers and leader; the collector's round
(`step`, `round`, `readings`, `unwritten`), the stream it appends to (`lines`, `sink`), the
world's phase, and what is read back at ASSERT: `doc`, the document, and `series`,
what the oracles get per node.  `observed` is every reading a node ever gave (`Given`); no
code sees it.
*Actions.* A round in its steps (`BeginRound`, `CollectStatus`, `CollectExec`,
`AppendSample`), its deadline (`RoundExpires`), a write that fails or tears, the world's
phases (`NextPhase`), `Materialize`, one `ReadNode` per node, and the collector's end
(`StopSampler`, `LoopReturns`, `CloseSink`).
*What could go wrong and does not:* the document and a series disagree about a sample
both have read, an oracle or the spiral classifier says something of a node that no
reading of it bears out (`TelemetryIsHonest`); the cleanup waits for ever for
the last round (`SamplerStops`).
*Abstractions.* A metric is observed or not and its value is the load; the
regressions are done in integers, every sum multiplied by the number of points and the
times of `quadFit` taken from their mean, as the code takes them; CPU, tasks,
latency and the fallback to `docker stats` are left out.

### SlotPool

`ParallelRunner.Run` and `slotPool`.  The mutex makes every critical section one
step, with one exception that matters: the watchdog of `acquire` broadcasts
without it, so the test of the context (`Decide`) and the wait (`Wait`) are two
steps, the state between them is `deaf`, and worlds, which need the mutex to give
a lane back, are kept out of it.  `MCControl` is the disjoint union of `RunLoop`,
`SlotPool` and `Telemetry`: a behaviour is of one of them.

### Replay, Regress, Bisect, Commands

*State.* `cmd` is the command and `pc` its place, `exit` its exit code; `rpc`,
`execs`, `deadline` and `expired` belong to the call of `replay.Run` in progress;
`corpus` and `status` to regress; `phase`, `lo`, `hi`, `tried`, `cur`, `head` and
`firstBad` to bisect.  `introduced` and `stable` are what bisect does not know:
where the defect is, and whether the world shows it exactly there.
*Actions.* A replay makes attempts one by one (`Attempt`, `Executed`,
`ReplayReturns`) and `ReplayExit` reads them.  Regress refuses or opens its
corpus (`Open`), and deals with entries in order (`NotReached`, `Unloadable`,
`Enter`, `Unprepared`, `Prepared`, `EntryDone`, `Report`).  Bisect measures its
endpoints (`Endpoint`), probes outward from the middle (`Probe`), checks out,
builds and replays (`Checkout`, `Build`, `Tested`, and their failures, which
skip), and puts the tree back (`Restore`).  Time passes and the caller cancels at
any step.
*Abstractions.* A violation is the expected one or another one.  What a world may
return is any `Execution` at all for replay and regress; for bisect it depends on
the revision unless the world is flaky.  Candidates are numbered in the order of
`git rev-list`, and the history is linear: with merges a revision's number says
nothing of its ancestry, and no answer would be right or wrong.  A command's
refusals before it does anything (arguments, a dirty tree, unrelated endpoints)
are left out.  Loading an entry's plan takes no time, so that the budget computed
before it is the one the replay gets.
*What could go wrong and does not:* an exit code that claims more than was seen
(`ExitIsTruthful`); a revision named that
did not bring the defect (`AnswerIsFirstBad`); a
repository left on another revision without a word (`TreeIsRestored`).

### Evidence, OracleProcess, Oracles

*State.* `Evidence` is one world between DRIVE and the end of QUIESCE, on a clock of
a few instants: what each node's process went through (`lives`), the realised
windows of the process faults, the operations and the health probes, and then what
was collected of it (`seen`, `reliable`).  `OracleProcess` is one run of an external
oracle: its process and one descendant, which may leave the process group, the
pipes both hold, the two readers, the goroutine that waits for the readers and
then for the process, and `exec` with its time limit and its two graces.
*Actions.* The world's (`Crash`, `ProcKill`, `ProcRestart`, `Invoke`, `Probed`, ...), the process's (write,
exit, ignore a signal), `TerminateTree` in its two steps, and `EvaluateEvery`, which
asks the registered oracles in order (`EvaluateBuiltin`, `StartExternal`, `ExternalDone`, `NotEvaluated`).
*What could go wrong and does not:* a status is believed that the oracle did not
get to say in full (`BelievedOnlyWhole`); an oracle accuses a node, an operation or
the cluster without cause or acquits it without having looked (`JudgementsAreEarned`); ASSERT does not return because a descendant holds a pipe
(`EvaluationReturns`).
*Abstractions.* A world carries only the evidence its registered oracles read; kills
are instantaneous; the log scan is left out, and the queue and resource oracles are in `Telemetry`.

### AdversarialTree, Saboteur, Search

*State.* `Search` is `engine.Run`: the batch, the lanes that are left, the budget's
counts and the fold.  `Saboteur` is its strategy: the sweep of probes, the trees of
those that reinforced and their rotation, then mutation.  A tree's shape is a
constant, because the ladder gives a node the same children whenever it is asked.
*Actions.* `TakeProbe`, `TakeRollout` and `TakeMutation` build a batch from what the strategy knows
then, `Submit` and `StartWorld` hand it to the lanes, `WorldReturns`
ends one of its worlds in any order, `Absorb` hands the outcomes back in the order
they were proposed, `Decide` ends the loop or not; a batch may be refused as a whole.
*What could go wrong and does not:* PASS over worlds the budget did not see, or over
a violation (`VerdictIsTruthful`); a tree that learns from a rollout another one
asked for, or a node handed out twice (`TreesAreAccountedFor`); a search that
does not return (`SearchReturns`).
*Abstractions.* The control world and the baselines, the corpus' contents, energies and
utilities are choices; the strategies `random` and `llm` are left out; the lanes keep
`SlotPool`'s promise that every request is answered.

### Loadgen, Linearizable

*State.* `Loadgen` is the fixture's driver with the register behind it: requests in
flight, writes it gave up on that may still execute, and the history as the
checker reads it.  `Linearizable` is the checker: the operations `load.go` keeps, the
keys left, and the searcher of one key with its list, its stack and its memo, which
hold operations where the code holds the nodes of a list.
*What could go wrong and does not:* a correct cluster is accused; ok or violated is said without the search that earns it, or
one key leaves nothing to the others (`VerdictsAreEarned`: the reference is the
definition of a linearization, over all permutations of the operations).
*Abstractions.* A value is the id of the operation that wrote it; of timestamps only
the tie of a completion with a later invocation matters; witnesses, canonical
encoding, administrative operations and planned workloads are left out, and records
that are malformed or repeated are folded into `Refuse`.
*An assumption TLC found:* a window that opens late is innocent only if no write given
up before it is still on its way, no operation unrecorded and in flight is lost with a
killed driver, and what has executed by then and waits for its answer has the value
its key still holds (*In the checker*, below).  `StartRecording` and `End` state it.

### KVRaft

The fixture's Raft, one action for each message and timer, with `state.json` and
`wal.jsonl` on a disk that survives a crash.  `append` holds the one AppendEntries in
flight for each pair of nodes and `late` the requests their senders gave up on,
which may still arrive in any order.
*What could go wrong and does not:* two nodes apply different entries
(`StateMachinesAgree`); a client is told that its write happened and no majority holds
it (`AckedIsDurable`), or that it did not happen when it has
(`RefusalsAreTrue`: when a node answers 409, no node whose term it has heard of has
applied the command); a linearizable read misses what was acknowledged before it
(`ReadsAreCurrent`).
A crash in the middle of an append may tear the record that was being written
(`TornTails`).  A node holds (`Held`) what a restart would read; but the code leaves the
fragment in the file, so while the log is torn (not `Whole`) what the node appends stands
behind it, and until a leader's truncation rewrites the file the node holds that in memory
alone.
*Abstractions.* Reads by lease, whose length is the planted bug, failed disk writes and
the contents of the state machine are left out.

### Prober, Shrink

*State.* `Prober` is the judge: its ledger (`spent`, `reserve`), its level of matching,
its memo and the tallies of the call under way.  `Shrink` is the pipeline: `stage`,
the faults with their windows and the operations that survive, ddmin's and the
narrowing's places, the gate's trials, and what the corpus holds.
*Actions.* One execution of a candidate is one step (`RunOne`), and the wall, the world
budget or the caller may end the shrink between any two.  An execution shows the
violation, none, another one, the same one under another key, or nothing.  The
command may die between the two files it commits.
*What could go wrong and does not:* a survivor that nobody saw fail, a level that
falls because of a drift a reduction made, a result called 1-minimal from which one
more fault could go, where the level has not changed since ddmin began
(`ResultIsEarned`); a world in
the corpus that the gate did not confirm, or one replaced (`CorpusIsConfirmed`).
*Abstractions.* Batches (no executor of the repository has them), errors of the executor
(the command turns them into an attempt that shows nothing), the witness-operations
level and the report are left out.

### TargetDrivers, ClusterProbes

*State.* `TargetDrivers` is one of the four load generators: `stage`, the shared budget
(`left`), the shared belief about the leader, and of each client its operation, its
attempt and its connections with the requests written on them; `hist` is the file by
operation, `werr` the error that ended it.  `ClusterProbes` is one question put to a
cluster (`want`), the answers so far (`view`), and the cluster itself: who won each term
and what each member believes.
*Actions.* A driver's start-up checks, seeding, one round of a client (`Loop`, the send,
the reply or its absence, `Complete`, `Rediscover`), `WatchStdin`, `Close`, `Killed`; a probe asks
member after member (`Ask`) while leaders are elected, step down or go unheard.
*What could go wrong and does not:* `fail` is recorded of a write that took effect or
may yet, an answer is taken for another operation's, or a driver exits 0 over a
history that is not whole (`HistoryIsTrue`); a late answer undoes what
a redirect taught (`BeliefIsNotUndone`); a driver never ends (`DriverEnds`); a fault hits
another member than its target says, or a cluster is called steady under a leader
that was not in office (`TargetsAreAsNamed`, which states exactly when a deposed
leader may be bound).
*Abstractions.* `meta`, timestamps, warnings and values other than "whose answer is it"
are left out; the disk tears at most one record; a Redis election is one Sentinel
switching and the rest hearing later; the spread of the logs, voter lists and
replication links, which steady-state probes also look at, are left to chance.
`MCTargets` is the disjoint union of the two.

## Runs

A run is one question, on the instance its cfg names.

| run | module, cfg | bounds | shows |
|---|---|---|---|
| `executor` | Executor, Executor.cfg | 3 faults, windows on a clock of 3 instants, 2 nodes, 2 at once | what HEAL says and what is tracked is true, a cancelled run returns, and the executor implements `Perturbation` |
| `families` | MCFamilies, Families.cfg | 2 faults of any kinds on any targets of 2 nodes, 2 slots, one node with a BOOT baseline, commands that fail | nothing stays behind unseen or unclaimed, a clean withdrawal undid what was done |
| `world` | World, World.cfg | 2 faults | every path of a world and its cleanup; every world returns |
| `oracles` | MCOracles, Oracles.cfg | 2 nodes, 1 operation, 3 instants, 2 deaths, 1 process fault, 2 probes, 1 external oracle with a descendant | no finding without a cause, no acquittal without a look, ASSERT returns |
| `control` | MCControl, Control.cfg | 3 worlds and 4 clock values; 2 lanes and 4 requests; 2 nodes, a load of 0 to 2, 3 or more rounds, one or two things that happen besides | what verdict, lock status and exit code claim is true; no world starts on a leak, the batch ends; what is judged of a world's telemetry is what its nodes said |
| `slot_pool_wakeup` | SlotPool, SlotPoolWakeup.cfg | 2 lanes, 3 requests | a cancellation is not heard by a waiter about to wait (violation) |
| `commands` | Commands, Commands.cfg | 4 candidates, 1 or 2 attempts, a budget of 2 ticks or none, corpora of up to 3 entries | exit codes are true, bisect is right and tidies up |
| `search` | MCSearch, Search.cfg | 2 lanes, 6 worlds, 3 probes, a tree of 4 nodes, 2 trees at most | the verdict, the evidence trees learn from, the end of a search |
| `linearizable` | Linearizable, Linearizable.cfg | 3 operations of 2 clients on 2 keys, two unrecorded, one lie | ok and violated are earned, a correct cluster is not accused |
| `kv_raft` | KVRaft, KVRaft.cfg | 3 nodes, 2 terms, 1 crash, which may tear the log, 5 calls, 1 write, 1 read, 2 entries a call | logs agree, answers to clients are true, reads are current |
| `shrink` | MCShrink, Shrink.cfg | 3 faults, one of them long enough to narrow, 2 operations, K = 2, 1 to 13 worlds, eight sets of options | what a shrink returns and commits was reproduced and is minimal |
| `targets` | MCTargets, Targets.cfg | 2 nodes, 2 clients, 1 key, 2 or 3 operations by driver; 3 members, 2 terms, 2 attempts | histories are sound and whole, beliefs are not undone, targets are the members they name |

*Why the bounds are enough.*  Three faults let a sweep have one fault withdrawn,
one failed and one ahead of it, and let two overlap while a third starts; two
nodes let a fault apply to one target and fail on the other.  Two faults of the
families share a node, or a link, or nothing; with two slots, one is left or none.
Two faults of a world let one be lifted and the other not.  Two nodes of a judged
world let one die for a fault and the other for none; two deaths let the second
come after a restart; three instants put a death, a probe or an answer before,
inside and after a window.  Three worlds let a run have a good world, a bad one
and one that was not started; profiles ask for one to three worlds or are
open-ended, and the command line may cut either number.  Two lanes and four
requests let both lanes be retired with requests left, and let a waiter exist
while one lane is retired and the other is in flight.  Four candidates let a probe
find its middle skipped and both neighbours tested, and the range narrow from
either side before and after; two attempts let one say nothing and the other
decide; two ticks of budget let a deadline fall before, inside and after an
entry, and the ceiling at twice the budget after that.  Six worlds on two lanes
let a search sweep its probes, hold one batch of the sweep and the escalation
together, and give two batches to trees; `PruneVisits` is 1, where the code has 3,
so that a node is pruned inside that.  Three operations on two keys are the least
with two overlapping on one key and a third after either, and two unrecorded let one
overwrite what the other, still in flight, read or wrote; the memo holds 2 states,
where the code allows 1024 at least, so that it is full in searches this small.
One crash and two
terms let a leader be deposed, or come back, with entries it alone holds.  Three faults and ddmin's granularities reach
every branch of its complement rounds, and 13 worlds let a shrink come to its gate
with one execution too few; calibration makes 1 probe, where the code makes 4.
Three operations of a driver let one fail for certain, one stay unknown and a third
use the connection the second left; etcd and consul, whose start is longer, get
two, and have the disk that fails.

*Deadlock.*  It is checked for the executor, which can always be cancelled or
healed again.  The other systems end (a world returns, a run writes its verdict, a
driver exits), or use up the bounds on their environment, so their cfgs turn the
check off; that they end is a property where it matters (`WorldReturns`,
`BatchReturns`, `EvaluationReturns`, `SearchReturns`, `DriverEnds`, and `BisectEnds`,
which fails).

*Fairness.*  `ExecutorFairSpec` assumes that an injector returns once its
context has ended, and nothing before that.  `World!LiveSpec` assumes that the
goroutine of the world goes on, that docker, probes and oracles return (they have
timeouts of their own), that a started process is registered, that a signaled
process dies (terminateTree ends with SIGKILL) and that the cleanup's context
ends; it does not assume that a driver ever stops by itself.  `WorldReturns` is
conditional on the drive window being longer than the registration of a process
that was started; without it, a kill that comes first is lost (and where the
driver is orphaned, the cleanup's time limit saves the world from hanging).
`MCControl`'s telemetry assumes that a round goes on (its calls end at the latest with
its deadline) and that the deferred cleanup runs.  `Oracles!Spec` assumes that the harness's goroutines and timers run, and nothing of
the oracle's program.  `SlotPool` and `Search` assume that worlds return, which is
what `WorldReturns` says, and that their goroutines run.  `FairCommandsSpec`
assumes that time passes and that git, builds, worlds and the program itself
return; what it does not assume is that a revision which cannot be built will one
day build.  `MCTargets!Spec` assumes that a driver's process runs and that its
setup's deadline comes; a cluster need never answer, for every request has a
timeout.

## Where the code disagrees with what it says

`slot_pool_wakeup` checks a sentence of the repository and shows a behaviour of the
code that contradicts it.  The properties in the first list below are stated in the
modules too; TLC refutes each of them when a cfg lists it, and for the sake of
short runs none does.  The others were met while the modules were written.

Refuted by TLC:

- `World!DriverIsStopped`: `Start` returns before the supervisor has registered its
  process; a kill in between finds nothing, its one use is spent, and the driver
  outlives its world (`runner.go`: "stopped BEFORE the topology goes away, on every
  path");
- `World!ForeignIsLeftAlone`: when `Up` fails before it has listed the project, the
  cleanup takes the project of that name down, whoever owns it (`compose.go`:
  "refused, never removed");
- `RunLoop!RunIsWorstWorld`: a cancellation between two worlds replaces a worse
  outcome of the run (`outcome.go`: "a run folds its worlds by repeated
  application");
- `Families!CleanHasNoResidue`: a clock fault recreates its container under a new
  id, and the process family, which looks for the id of BOOT, reports a residue after
  a clean withdrawal (`proc.go`: "the id changes, the label does not");
- `Oracles!RestartsAreDeaths`: the runner reads the restart count from a part of the
  inspect document that has none, so a node its supervisor restarted is cleared
  (`input.go:224-225`);
- `Search!PassMeansEveryWorldRan`: a search one of whose batches was refused before it
  started may pass over the worlds that did run (`budget.go:313`);
- `Search!DroppedTreesAreExhausted`: of two trees, both are dropped when one is
  exhausted (`escalate.go:346`);
- `KVRaft` with `TornTails = TRUE` and a node that crashes twice: a torn record stays in
  the file, what is acknowledged after the restart is written behind it and does not load
  at the next one (`AckedIsDurable`; `storage.go:12-13`, `186-187`).  One crash a node,
  or a truncation between the two, does no harm: that is checked and proved;
- a write that `KVRaft` refuses may still happen, where `types.go:97-98` says that "it
  can never commit at that index".  With five nodes: `n1` replicates an entry to `n2`
  alone; `n3`, elected by `n4` and `n5`, replaces it at `n1`, which answers 409; `n2`,
  whose log is the longest of `n2`, `n4` and `n5`, is elected next and commits it.  With
  three nodes it takes six terms and a request that ends before its sender's log does, as
  one does that is longer than `MaxEntriesPerRPC`:
  `b` leads term 1 and keeps its no-op to itself; `n` leads term 2 and takes the write;
  `b` leads term 3, by the vote of `a`, and again keeps its no-op; `n` leads term 4 and
  gets its entries of term 2, but not the no-op of term 4, to `a`; `b`, whose last entry
  is of term 3, leads term 5 by the vote of `a`, and a request of `b` that ends at its
  first entry cuts the write from the log of `n`, which answers 409; `a` leads term 6 by the
  vote of `n` and commits the write.  TLC confirmed both along these schedules, which are
  beyond the bounds of the run.  What does hold is `RefusalsAreTrue`, of the moment of the
  answer;
- `Commands!BisectEnds`: with the revision before the last skipped, bisect tests the
  last again and again (`bisect.go:33-35`: "reported as UNDETERMINED").

In the executor and the process faults:

- a cancellation inside the last event's withdrawal is seen by no later check:
  `Run` returns with a fault active and no sweep made, where `execute.go:335-337`
  says that "in every case it leaves nothing injected that it can withdraw"
  (HEAL withdraws it later);
- the partition limit ("never partition more than X of S", `constraint.go:43`) is
  tested for each fault alone, so two partitions whose windows overlap may exceed
  it together;
- a fault whose window is empty is withdrawn before it is injected and stays
  until HEAL, which is then not a retry (`execute.go:161`);
- `VerifyClean` skips a node it could neither inspect nor look up, where
  `proc.go:1232` says that it never does;
- the rollback of a pause does not undo a pause whose verification failed
  (`proc.go:1186`, "atomic in effect"), and may resume a node another fault paused;
- of two throttles of one node, the first to end lifts both (`fault.go:288`); the
  same is true of two memory, descriptor or pause faults.

In the other families:

- `injectors.go:92-106` says that slow, mem and fd refuse without a BOOT baseline
  "rather than run unverifiably"; they observe one in mid-run instead;
- the withdrawal of a fill or of exhausted descriptors takes a failed inspect, or a
  stopped container, for a container that is gone;
- a network injector's second withdrawal at HEAL rebuilds a fault without plans and
  sweeps only tagged iptables rules, so a qdisc is left to `VerifyClean`;
- a withdrawal releases its slots before the scripts that delete them have run.

In the life of a world:

- a driver killed by the cancellation watchdog is recorded as drained
  (`control/drain.go`, `DrainCompleted`);
- a world with a residue and a violation returns the violation
  (`perturb.go:130`).

In the telemetry:

- the runner fixes the interval at 500 ms and the document states the default, so
  `search.observe.sample_interval_ms` reaches neither;
- the collector is stopped by the deferred cleanup only: document and series are
  read from a file that still grows, and may differ by the last rounds;
- a round that straddles the start of DRIVE is stamped before it and read after it;
- `no_unbounded_queue` takes the samples on either side of an absence for
  consecutive, where `queueMonotonicCriterion` breaks the run at it.

In the oracles:

- `exec` says that it "never leaves anything behind"; a descendant that has left the
  process group stays;
- a planned restart of a node that had crashed clears the crash;
- a planned kill with a signal that can be caught may kill after its window, and the
  death is then not excused;
- the operations a killed driver left open count as stuck.

In the commands:

- when a flaky world answers good at `hi`, tested a second time, bisect moves
  `lo` past `hi` and names a revision it never tested, or, at the last candidate,
  reads past the end of the slice (`bisect.go:377`; TLC reaches both);
- a replay cancelled between attempts returns exit 0, and a Good to bisect, from
  fewer attempts than it was asked for (`replay.go:201-216` does not look at
  `Planned`);
- the budget that regress leaves to an entry may be zero or negative, which
  `replay.Run` takes as no budget (`regress.go:264`);
- bisect hands no plan to `replay.Run`, though `replay.go:99-102` says that a nil
  plan is for worlds that recorded none; its endpoint tests do not look at the
  budget.

In the search:

- a batch that straddles the end of the sweep builds the escalation without its own
  last probes (`engine.go`: "so A.3's ranked output is complete");
- `proposeBatch` counts the requests at hand twice in an ordinal's bound;
- visits that could not be evaluated count towards pruning a node;
- `FirstViolationOrdinal` passes over a violation of an oracle that is not
  prefix-closed when it is stamped in DRIVE;
- a mutated world without faults overwrites the control world's result;
- the nodes of a refused batch stay pending for ever; a node its validator refuses,
  first in a batch, ends the search with a harness error.

In the checker:

- a slice refused because the ceiling on states was spent reports "the wall-clock
  budget" (`check.go`);
- widening an operation without an invoke to the start "can lose a violation but can
  never invent one" (`load.go:75-76`, and `search.go:24-30` of the undetermined
  register): if the window opens between the execution of such an operation and its
  answer, and an operation the history does not have overwrote its value in between, the
  value it names is placed after the window began, and a correct cluster can be called
  violated.  With `Unrecorded = 2` and without the last condition of `StartRecording`,
  TLC shows it.

In the shrinker and its corpus:

- `relaxTo` "undoes every judgement made under the stricter one", but the tallies of
  earlier rounds of the same call survive a calibration and are memoised;
- after an operations stage that removed nothing, naming all operations is another
  candidate than naming none, and no stage ran it: `ddmin.go`'s "it reproduced, it
  is smaller than the input" is then not true of the result;
- a torn plan file is refused for ever, a missing one is healed by running again;
- a commit that fails does not change exit code 0;
- the drift branch of `runBaseline`, the truncation guard of the memo and the verdict
  for too few acceptances cannot be reached; a budget of at most K worlds with a
  baseline runs nothing.

In the targets:

- `meta.sentinel` of the Redis driver may not be the source of its belief;
- etcd's seeds `1000000+k` collide with the values of process 0, and the comment's
  "3000017 is process 3's 17th write" is process 2's;
- etcd's driver records a value it cannot decode as a good read of null, and in
  trace mode stops at a write that is no integer, with exit code 0 (`TARGETS.md`:
  non-zero when it could not drive);
- `matchRole` ranks those who claim to lead and does not look at a follower with a
  newer term, and the rqlite and consul probes bind a deposed leader when a majority
  has not answered (`TargetsAreAsNamed` says exactly when).

## What is proved

Theorems hold for every value of the constants; tlapm checks each proof to its
leaves.  They rest on the ASSUMEs of the modules (`ExecutorAssumption`,
`CandidatesAssumption`, ...), which TLC evaluates in the runs.  They say what range a
constant has: of `FamiliesAssumption`, that a plan gives each fault a kind and nodes,
and that no fault is called `none` or `unknown`; of `OraclesAssumption`, that a
registration is a sequence of names; of `TreeAssumption`, that a tree's nodes are
numbered from its root down, a parent before its children.

**`PerturbationProofs`**, of `Executor`, for every set of faults, windows, nodes and limits:
`ExecutorIsTyped`; `HealIsTruthful` (a HEAL without an error left nothing in
force); `NothingIsLost` (what is in force is tracked or was reported);
`NothingLandsAfterStop`; and `ExecutorRefines` (every step is a step of
`Perturbation` or a stutter).  None of these is inductive alone.  The inductive
invariant says besides which calls may be in flight at which `at`, that a
withdrawal in flight is of an active fault the sweep has already taken, and that a
HEAL without an error so far has nothing active but what it has still to try. The
properties follow from it, and the refinement from it step by step.

**`FamiliesProofs`**, of `Commands`, for every number of candidates, attempts and
budget and every corpus: `RangeIsRight`, `AnswerIsRight`, `TreeIsPutBack` and
`ExitCodesAreTrue` (`ExitIsTruthful`: replay and regress). The argument for
bisect: `StableVerdict` shows that what bisect concludes from the executions of a
stable world is true of the revision they ran on, or a skip; `JudgedKeeps` that a
verdict which is true keeps the defect inside the range; `OtherSteps` that replay,
regress, time and cancellation touch neither. The invariant `SearchInv` adds what
ties the verdict to its revision: the executions at hand are executions of the
revision under test, that revision is inside the range, and an endpoint's
measurement is what the search begins from.

**`ControlProofs`**, of `RunLoop`, for every set of profiles and command lines and any number
of worlds: `RunTypeOK`, `PassIsEarned`, `FailIsViolation`, `ExitTellsTheVerdict`,
their conjunction `RunTellsTheTruth`, which is the invariant of the `control` run,
and `NarrowedRunIsMarked`.  The invariant ties the budget to the profile it was cut
from (`BudgetInv`), the fold to the worlds it stands for (`FoldInv`: a fold that is
a pass is every world's, a violation ends the loop) and the end of the loop to its
reason (`StopInv`: a run about to pass has no budget left).  `PassIsPerformed` puts
the three together at the fold.

**`ControlProofs`**, of `SlotPool`, for any number of lanes and requests: `SlotPoolTypeOK`,
`LanesStayExclusive`, `LeaksAreNotReused`, `ExhaustionIsReal`, `SleepersAreWoken`
and `NoRequestIsDropped`.  The invariant adds that every request before `next` is
answered or runs on a lane, and that a waiter, asleep or about to be, has nothing
free and some lane busy.  That `inflight` is the number of busy lanes rests on the
library's theorems about cardinality, and that the lane handed out is a free one
(`LowestIsFree`) on the order of the naturals being well founded.

**`ControlProofs`**, of `Shrink`, for every schedule of faults, operation plan, policy,
budget and found entry, and whatever its executions show: `ShrinkIsInductive`, and from
it `ResultsAreEarned` (`ResultIsEarned`) and `CorpusHoldsWhatWasConfirmed`
(`CorpusIsConfirmed`).  What survives must have been seen to fail, but an answer may
come from the memo, which remembers judgements and not executions.  `MemoInv` is why
this does no harm: the memo holds no acceptance of a world as small as the one that
survives but that world's own, and every candidate is smaller (`Leq`, `CandidatesAre`),
so a candidate found accepted in the memo is never asked about.  For this to be kept when several
candidates of one round are accepted, no two of them may be comparable
(`OffersAre`: the parts of a list are disjoint, and complements of disjoint parts
contain one another only if they are the same).  `OpenInv` backs each tally by what was
shown, at the level in force and at the one below it, since `Settle` may lower the
level after the round and before it judges.  `AnswerInv` says that a call that ended
without an acceptance judged every candidate; at the finest granularity the
complements are the worlds with one fault less (`LeavesOne`), so that ddmin ends
`Minimal`.  `RelaxInv` follows a drift to the execution that showed it, and `GateInv`
counts the gate.  The proof attempt found a fault of the model, which had ddmin offer
the empty world when the schedule is empty; the code returns at once, and so does the
model now.  TLC checked the invariant with three faults, one and none before it was
proved.

**`PerturbationProofs`**, of `World`, for any set of faults and both ways a driver may drain:
`WorldTypeOK`, `WorldTellsTheTruth` (`OutcomeIsTruthful`), `NothingIsLeftStanding`
(`LeftoversAreReported`) and `WorldKeepsTheContract`, which says that whatever a world
does to its faults, to HEAL and to the report is a step of `Perturbation`: as
`ExecutorRefines` says that an executor's steps are too, the contract is what the two
meet in.  The properties speak of a world that returned, when what they speak of is
long over, so the invariant carries it along: what the handle and the supervisor's
record say of the process (`DriverInv`), that a report is of effects that no longer
change (`HealInv`), what the outcome gathered so far stands for (`MeasureInv`), that
the topology in hand is the project that stands (`ProjectInv`), and that from ASSERT on
a pass has everything behind it but the removal of its project (`PassInv`).
`FoldIsWorst` is why the order in which failures are folded does not matter.

**`FamiliesProofs`**, for any nodes, any faults of the ten kinds, however they
overlap, and any number of slots: `FamiliesTypeOK`, `NothingLeaks`
(`NothingIsLeftUnseen`) and `WithdrawalsUndo` (`WithdrawnMeansUndone`).
`NothingIsLeftUnseen` is about moments between calls; the invariant `AccountInv` is
the account of each node inside a call.  Unless the world is doomed (an error was
recorded, or is certain to be when the call under way returns), each disturbance of a
container has a fault that answers for it (`AllHeld`): a paused process a pause fault,
a rule and a ballast file their own fault, a slot in memory the fault that claimed it
and a slot in the kernel a claim.  Throttled CPUs need more.  A fault that finds a
throttle in place takes it for its baseline and puts it back when it goes, so that
some fault must answer for the quota is not inductive; that one among them observed
the boot value is (`QuotaHeld`).  Each injector then needs one lemma about one target:
`PauseSettles`, `SlowSettles`, `ShapeSettles` and their like show that it dooms the
call or settles the account, `TargetKeeps` what that means for the other nodes and
faults, and `CallKeeps` covers what happens between targets.  That the lowest free
slot is free rests on the order of the naturals being well founded (`LeastOf`).
`WithdrawalsUndo` needs a second invariant, `UInv`, beside the first: what a container
carries of a fault is of that fault's kind and came with its injection
(`LabelsInv`); what a fault took for its baseline is another fault's, never its own
(`BasesInv`); a primitive that injected well has marked the nodes it must go back to
(`MarksInv`); and what a withdrawal has done so far stays done (`UndoneInv`).  It has
one lemma for each injector again (`PauseTraces`, ...).  TLC checked both invariants on
the `families` instance before they were proved.

**`OraclesProofs`**, for any nodes, operations, bounds and registrations:
`OraclesTypeOK`, `BeliefIsWhole` (`BelievedOnlyWhole`) and `JudgementsAreTrue`
(`JudgementsAreEarned`).  For the first, `ProcInv` ties every signal to a cause exec
remembers: its own limit, the world's cancellation or an output past the cap, each of
which makes `interpret` say inconclusive.  For the second, `EvidenceInv` says that
what a node went through is in order (`Recorded`: only the last life is open, and a
kill by a fault falls in the instant its window opened) and that each answer of a probe
has a moment that explains it and keeps it (`LifeEnds`, `LifeBegins`); the evidence does
not change at ASSERT, so a finding is still what the oracle would say
(`FindingsInv`, `Conclusion`).

**`SearchProofs`**, for any lanes, budget, sweep of probes, trees of any shape and any
ways a world may end: `SearchTypeOK`, `VerdictIsTrue` (`VerdictIsTruthful`) and
`TreesAddUp` (`TreesAreAccountedFor`).  Both properties speak of moments at which a
batch is neither half run nor half absorbed, and the invariant says what those moments
leave out.  `Waiting` is the set of worlds the fold does not hold yet.  A violation is
in the fold or waits there, and so is the failure that lets a pool without a lane end
the search (`FoldInv`); lanes that run a world and lanes that are retired are together
no more than there are (`BatchInv`); a schedule that waits is pending in its tree, was
never observed and waits once (`HandedInv`), which is why absorbing it adds exactly one
rollout to its node and to each node above it (`RolloutAddsUp`).  `SelectFresh` is the
lemma about the descent: what it hands out was visited by nobody and is out with
nobody, by selection or by the fallback.  A path to the root and the descent are
recursive functions; that they satisfy their equations is `TreeRecursion`, from the
least element of a set of numbers (`LeastOf`), since the library's recursion theorems
take operators.  TLC checked the invariant on the `search` instance first.

**`KVRaftProofs`**, for any number of nodes, terms, commands, calls and crashes:
`RaftIsInductive`, and from it `StateMachinesAgreeAlways`, `AckedIsDurableAlways`,
`ReadsAreCurrentAlways` and `RefusalsAreTrueAlways`.  What makes Raft safe is about its past: which log a candidate
stood with, who voted for it, what a follower acknowledged to a leader that is gone.
The nodes forget these, and no variable of the model keeps them.  The inductive
invariant therefore says that a history *exists* (`IInv`: one record of leaders, their
logs, votes, candidates' logs and acknowledgements, to which `RaftInv` holds every
node, disk, message, answer and read), and each action's lemma names the history after
it: the same one, or one with a vote, a candidate, a leader, an entry or an
acknowledgement more (`Extends`).
`Core` is the history's own part: logs match up to every entry a leader wrote
(`Grown`); a candidate's log is no older than its voters' were, which `UpToDate`
decides (`CarriesLonger`); and a log of a later term carries what a voter had
acknowledged, or that voter gave it up for a leader whose log differs (`Carries`).
From these, `Safety` shows that what a quorum has acknowledged to the leader of its
own term is in the log of every later leader, by way of the least term that would not
carry it.  The rest is what the code adds to the paper's Raft: a call its sender gave
up on may arrive at any time (`LateOK`); an acknowledgement is of what was sent, not of
what the follower has, and may be counted only in the term it was asked in
(`CallsOK`); a client is told what was applied at its index, under its term
(`ClientsOK`); a read's acknowledgements are of calls sent after it began, in the term
it began in (`ReadsOK`).
`RefusalsAreTrueAlways` needs one invariant more, which the history cannot give: a
command is in one entry, wherever it is (`OnceInv`, `OnceAlways`).  Every step but a
proposal moves entries and makes none but a leader's no-op (`Spreads`), and a proposal
is of a command that is nowhere yet.  A waiter that leaves because its node applied
(`Tells`) is told so; one that is refused waited behind the index at which a request
cut the log (`Refusable`).  Had a node of that term or an earlier one applied the
command, its entry would be chosen, so in the log of the request's leader, at the same
index; logs that have an entry in common agree up to it (`Matching`), and the request
would not have cut there.
A crash may come in the middle of an append and tear the log.  All that is assumed of
crashes is `RestartsWhole`: a node whose log is torn does not crash again before the log is
rewritten.  The theorems state it as a condition on the behaviour,
`Spec /\ [][RestartsWhole]_vars => ...`, and `WholeAlways` shows that it holds of every
behaviour where tails are not torn.  What carries them past a torn tail is `DiskOK`:
the file agrees with the node's log up to its end or up to a record that does not load
(`Keeps`); such a record was torn before its entry was acknowledged, and what stands behind
it the node still has in memory.  Without the condition the
theorems do not hold: the code leaves
a torn record in the file, and a node that acknowledged entries behind it has lost them
at the next restart.  With two crashes of one of three nodes, another then wins the
next election without the entry, and `StateMachinesAgree` fails too.

**`TargetsProofs`**, of `TargetDrivers`, for any number of nodes, clients, keys and
operations, and any failing disk: `DriverIsInductive`, and from it
`HistoryIsAlwaysTrue` (`HistoryIsTrue`) and `BeliefMovesOnlyFromItself`
(`BeliefIsNotUndone`).  What a record says was decided by a connection, an answer and a
rule per driver, and the record outlives all three.  `DriverInv` says of each client
that its one outstanding request is on one connection and nothing is left on the others,
and of an answer that it is the server's own and tells what became of the operation
(`ClientOK`, `AnswerOK`); of each operation's history that it is nothing, an invoke, or an
invoke and one completion that is sound, and both once its client has gone on, unless a
write failed (`HistOK`).  The drivers differ in how they give up, and the step that
matters is that none leaves a reply behind on a connection it will use again.

**`TargetsProofs`**, of `ClusterProbes`, for any number of members, terms, elections and
attempts: `ProbeIsInductive` and `TargetsAreAlwaysAsNamed` (`TargetsAreAsNamed`).  While
members are asked one after another the cluster moves on, so the invariant speaks of
terms: a member that said it leads won the term it named, and who reigned while the
probe asked is remembered (`ViewOK`, `ReignsOK`); the member that won the term in which
the probe began cannot answer with an older one.  For redis some Sentinel that knows of
the deposition is asked after the deposed master.

**`LinearizableProofs`**, for any keys, clients, operations, memo and limit:
`CheckerIsInductive` and `VerdictsAreEarnedAlways` (`VerdictsAreEarned`).  Three
arguments meet.
The search (`SearchInv`): the stack is a way the searcher may have gone; what it passed
over, tried or undid on the way leads nowhere (`~Alive`: no order of what is left
explains it), and a pair in the memo leads nowhere or is on the way, so that skipping
it skips nothing.  At a return of an operation that was not placed, nothing that is
free to come first can (`DeadEnd`), and an empty stack then refutes the key; a full
memo only records less.
The decomposition: an order of all operations leaves each key alive (`EachKeyIsAlive`),
and chains of the keys interleave to one order of all (`ChainsInterleave`), each
operation placed by the latest start its chain has reached with it (`Reached`); that a
finite set can be listed in an order is `Enumerated`.
The history (`HonestInv`): as long as no read was answered falsely there are effects,
one for each operation executed, in an order that explains every answer and lies
between each invoke and its completion; `HonestIsLinearizable` turns the account into
the order.
The budget's part is arithmetic: a key uses no more than its share, which leaves the
others theirs (`SharesLeave`).  The proof needed the last condition of
`StartRecording`: without it `HonestInv` is not kept, and the counterexample is real.

The type invariants, `RangeHoldsTheAnswer`, `NoInjectionAfterStop`,
`EveryRequestAnswered`, `LanesAreExclusive`, `ExhaustedIsTrue` and
`NarrowedIsNotLocked` are proved and listed in no cfg.

## What is only model-checked

All of `Telemetry`, on the instance above.  All liveness
(`CanceledRunReturns`, `WorldReturns`, `BatchReturns`, `EvaluationReturns`,
`SearchReturns`, `SamplerStops`, `DriverEnds`): fairness is out of the provers' reach
here.  What the violations of the runs marked so show is a behaviour TLC found, and no
theorem.

## What is not modelled

PROJECT.json gives a reason for each part.  In short: the recorder writes files one
after another and matters across a crash; the search substrate (generators, mutators, coverage) is random
choice over values and is a choice here; the LLM strategy is a remote service whose
worlds are validated like any other's; the oracle lock compares digests once before
a run, and `RunLoop` keeps its result; diagnosis and clustering compute with
floating-point distances over finished runs; the schema, the ledger, the doctor, the
probe host and the build information are functions of values and files without state
of their own; `up` and `down` hand a kept project from one process to another.

Of the parts that are modelled, each section of *Modules* names what it leaves out.

## Plan

1. `RunDirectory`: run ids, the sentinel, the manifest and `result.json` across a
   crash, and the ledger that reads them.
2. `up` and `down`: two processes and one project name.
3. The oracle lock's protocol: build, check, and the window between the check and the
   run.
4. The search substrate, where its state decides something.

Theorems to come: `TelemetryIsHonest`.
