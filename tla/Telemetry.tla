------------------------------ MODULE Telemetry ------------------------------
(***************************************************************************)
(* The telemetry of one world: the collector's rounds (internal/telemetry/ *)
(* collector.go), the stream they are appended to, the document and the    *)
(* series read back from it at ASSERT while the collector goes on, and     *)
(* what is judged on them: no_unbounded_queue, resource_return_to_baseline *)
(* and the spiral classifier (internal/search/saboteur/observe.go).        *)
(*                                                                         *)
(* One unit of time is the sampling interval, which the runner fixes at    *)
(* 500ms and the document states by default. A metric is {} where it was   *)
(* not observed and {value} where it was, and so is a virtual time. The    *)
(* queue depth and the resident set of every node are one load, read at    *)
(* different moments. What is read from the stream is a set whose members  *)
(* say where they stand in it ("at").                                      *)
(***************************************************************************)
EXTENDS Integers, Sequences, Functions, FiniteSets

CONSTANTS
    Node,           \* 1..n, in the order of the topology
    MaxLoad,        \* bound: the load
    Bounds,         \* bounds: what may happen besides, how often and for how long
    SpiralWindow,   \* search.observe.spiral_window
    AccelWindow,    \* trend windows the acceleration looks back over
    Stretch,        \* MaxWindowStretch
    Sigma,          \* NoiseSigma
    MinMonotonicRun,    \* rises that make a queue monotonic
    RoleChangeWindow,   \* RoleChangeWindowMS
    MinSamples,     \* of no_unbounded_queue
    Slack           \* of resource_return_to_baseline

ASSUME TelemetryAssumption ==
    /\ IsFiniteSet(Node) /\ Node = 1 .. Cardinality(Node) /\ Node # {}
    /\ SpiralWindow \in Nat \ {0, 1} /\ AccelWindow \in Nat \ {0} /\ Stretch \in Nat \ {0}
    /\ MinMonotonicRun \in Nat \ {0} /\ MinSamples \in Nat \ {0}
    /\ RoleChangeWindow \in Nat /\ Slack \in Nat

VARIABLES
    load, cont, leader, moves,      \* the system: its load, each container, who leads
    bounds,                         \* the bounds of this behaviour, one of Bounds
    now,                            \* the run's clock
    phase, began,                   \* the world's phase, and when each began
    step, round, readings, seq,     \* the collector, its round and what the nodes answer
    unwritten,                      \* the samples it has yet to append
    stopAsked,                      \* Stop has canceled the collector's context
    lines, sink,                    \* telemetry.jsonl and its writer
    doc, series,                    \* telemetry.json, and what the oracles read per node
    observed                        \* every reading a node ever gave: for the properties

system    == <<load, cont, leader, moves, bounds, now>>
world     == <<phase, began, doc, series>>
collector == <<step, round, readings, seq, unwritten, stopAsked>>
stream    == <<lines, sink>>
telVars   == <<system, world, collector, stream, observed>>

Stage == <<"SEED", "DRIVE", "QUIESCE", "ASSERT">>
Never == -1

NoRound   == [tns |-> Never, vms |-> {}, states |-> <<>>, expired |-> FALSE]
NoReading == [queue |-> {}, role |-> {}, rss |-> {}]

TelInit ==
    /\ load = 0 /\ cont = [n \in Node |-> "running"] /\ leader = 1 /\ moves = 0 /\ now = 0
    /\ bounds \in Bounds
    /\ phase = "SEED" /\ began = [p \in {"SEED"} |-> 0]
    /\ step = "idle" /\ round = NoRound /\ readings = [n \in Node |-> NoReading]
    /\ seq = 0 /\ unwritten = <<>> /\ stopAsked = FALSE
    /\ lines = <<>> /\ sink = "open"
    /\ doc = {} /\ series = <<>>
    /\ observed = {}

-----------------------------------------------------------------------------
(* The system under test, and time.                                        *)

May(kind) == kind \in bounds.kinds /\ moves < bounds.moves /\ phase \in Range(Stage)
Happens   == moves' = moves + 1 /\ UNCHANGED <<bounds, now, world, stream, observed>>

Moves ==
    /\ \/ May("up") /\ step = "idle" /\ load < MaxLoad /\ load' = load + 1 /\ UNCHANGED <<cont, leader>>
       \/ May("down") /\ step = "idle" /\ load > 0 /\ load' = load - 1 /\ UNCHANGED <<cont, leader>>
       \/ May("container") /\ UNCHANGED <<load, leader>>
          /\ \E n \in Node : \E c \in {"running", "paused", "exited"} \ {cont[n]} :
                 cont' = [cont EXCEPT ![n] = c]
       \/ May("leader") /\ step = "idle" /\ UNCHANGED <<load, cont>>
          /\ leader' \in Node \ {leader}
    /\ Happens /\ UNCHANGED collector

\* The ticker starts a round in every interval. The collector looks at the
\* clock and at the world's phase when it begins one and at no other moment,
\* so it is enough that they move between rounds; and a reader of the stream
\* cannot tell the steps of a round apart before it appends.
BetweenRounds == step \in {"idle", "stopped"}

Passes ==
    /\ now < bounds.time /\ phase \in Range(Stage) /\ BetweenRounds
    /\ phase = "ASSERT" => now <= began["ASSERT"]
    /\ step # "stopped" => round.tns = now
    /\ now' = now + 1
    /\ UNCHANGED <<load, cont, leader, moves, bounds, world, collector, stream, observed>>

-----------------------------------------------------------------------------
(* The collector.                                                          *)

\* Timeline.V: no virtual time exists before DRIVE.
V(t) == IF "DRIVE" \in DOMAIN began THEN {t - began["DRIVE"]} ELSE {}

\* SampleRound up to InspectStates, after which the world is only half known.
\* The ticker and the context may both be ready, and select takes either.
BeginRound ==
    /\ step = "idle" /\ now > round.tns
    /\ step' = "status"
    /\ \E answered \in {~stopAsked} \cup {b \in {FALSE} : May("slow")} :
          round' = [tns |-> now, vms |-> V(now), expired |-> stopAsked,
                    states |-> IF answered THEN cont ELSE [n \in Node |-> "unknown"]]
    /\ readings' = [n \in Node |-> NoReading]
    /\ UNCHANGED <<system, world, seq, unwritten, stopAsked, stream, observed>>

\* The round's deadline, or Stop, ends every call still out.
RoundExpires ==
    /\ step \in {"status", "exec"} /\ ~round.expired /\ (May("slow") \/ stopAsked)
    /\ round' = [round EXCEPT !.expired = TRUE]
    /\ Happens /\ UNCHANGED <<load, cont, leader, step, readings, seq, unwritten, stopAsked>>

Given(fields) ==
    observed' = observed \cup
        UNION {{[node |-> n, metric |-> field, at |-> round.tns, v |-> v] : v \in readings'[n][field]} :
                   n \in Node, field \in fields}

Reachable(n) == cont[n] = "running" /\ ~round.expired

\* collectProbe and collectStatus: what does not answer has no number. The
\* nodes are asked at once; a role is 1 for the leader and 0 for a follower.
CollectStatus ==
    /\ step = "status" /\ step' = "exec"
    /\ readings' = [n \in Node |->
                  IF Reachable(n)
                  THEN [readings[n] EXCEPT !.queue = {load},
                                      !.role = {IF leader = n THEN 1 ELSE 0}]
                  ELSE readings[n]]
    /\ Given({"queue", "role"})
    /\ UNCHANGED <<system, world, round, seq, unwritten, stopAsked, stream>>

\* applyMemory: the anonymous memory of either cgroup version, and nothing else.
RSSBytes == IF bounds.files \cap {"v2 anon", "v1 rss"} # {} THEN {load} ELSE {}

Sample(n, metrics) ==
    [node |-> n, seq |-> seq, tns |-> round.tns, vms |-> round.vms, whole |-> FALSE,
     queue |-> metrics.queue, role |-> metrics.role, rss |-> metrics.rss]

\* The rest of sampleTarget: the files are asked for unless the state that was
\* inspected, which may be over, says that nobody would answer.
CollectExec ==
    /\ step = "exec" /\ step' = "append"
    /\ readings' = [n \in Node |->
                  IF round.states[n] \in {"running", "unknown"} /\ Reachable(n)
                  THEN [readings[n] EXCEPT !.rss = RSSBytes] ELSE readings[n]]
    /\ Given({"rss"})
    /\ unwritten' = [n \in Node |-> Sample(n, readings'[n])]     \* the section under c.mu
    /\ seq' = seq + 1
    /\ UNCHANGED <<system, world, round, stopAsked, stream>>

\* Append of the sink, as a reader of the file sees it: a line may be there in
\* part, and one whose write failed stays so, for bufio keeps the error.
Torn == lines # <<>> /\ ~lines[Len(lines)].whole

WriteSome ==
    /\ "disk" \in bounds.kinds /\ sink = "open" /\ ~Torn
    /\ lines' = Append(lines, Head(unwritten)) /\ UNCHANGED <<sink, unwritten>>
WriteAll  ==
    /\ sink = "open"
    /\ lines' = IF Torn THEN [lines EXCEPT ![Len(lines)].whole = TRUE]
                 ELSE Append(lines, [Head(unwritten) EXCEPT !.whole = TRUE])
    /\ unwritten' = Tail(unwritten) /\ UNCHANGED sink
WriteFails ==
    /\ "disk" \in bounds.kinds /\ sink = "open" /\ sink' = "broken"
    /\ unwritten' = Tail(unwritten) /\ UNCHANGED lines
\* Mutant: a writer that forgets its error.
WriteAnyway ==
    /\ sink = "broken" /\ UNCHANGED sink
    /\ lines' = Append(lines, [Head(unwritten) EXCEPT !.whole = TRUE]) /\ unwritten' = Tail(unwritten)

WriteRefused == sink = "broken" /\ unwritten' = Tail(unwritten) /\ UNCHANGED <<lines, sink>>

AppendSample ==
    /\ step = "append"
    /\ WriteSome \/ WriteAll \/ WriteFails \/ WriteRefused
    /\ step' = IF unwritten' = <<>> THEN "idle" ELSE "append"
    /\ UNCHANGED <<system, world, round, readings, seq, stopAsked, observed>>

\* loop, at its select.
LoopReturns ==
    /\ step = "idle" /\ stopAsked
    /\ step' = "stopped"
    /\ UNCHANGED <<system, world, round, readings, seq, unwritten, stopAsked, stream, observed>>

-----------------------------------------------------------------------------
(* Readers of the stream.                                                  *)

Origin == began["DRIVE"]

OfNode(file, n) == {i \in DOMAIN file : file[i].node = n}

\* BuildDocument: a line that does not parse is counted, and reading goes on.
\* The samples of a node are in the order of their numbers.
CountGaps(numbers) == Cardinality(UNION {a .. b : a, b \in numbers} \ numbers)

Parsed(file, n) == {[at |-> file[i].seq, of |-> file[i]] : i \in {j \in OfNode(file, n) : file[j].whole}}

BuildDocument(file) ==
    [nodes  |-> [n \in Node |-> Parsed(file, n)],
     gaps   |-> [n \in Node |-> CountGaps({s.at : s \in Parsed(file, n)})],
     errors |-> Cardinality({i \in DOMAIN file : ~file[i].whole})]

\* readMetricsFromTelemetry: it stops at the first line that does not decode,
\* keeps the order of the lines, and places a sample taken before DRIVE by the
\* wall clock.
Decoded(file, n) == {[at |-> i, of |-> file[i]] : i \in {j \in OfNode(file, n) : \A k \in 1 .. j : file[k].whole}}

TMS(s) == IF s.vms # {} THEN CHOOSE t \in s.vms : TRUE ELSE s.tns - Origin

PointsOf(samples, field) ==
    UNION {{[at |-> s.at, t |-> TMS(s.of), v |-> v] : v \in s.of[field]} : s \in samples}

ReadMetrics(file, n) ==
    [queue |-> PointsOf(Decoded(file, n), "queue"), rss |-> PointsOf(Decoded(file, n), "rss")]

-----------------------------------------------------------------------------
(* The world around the collector, which runs until the world is over.     *)

NextPhase ==
    /\ \E i \in 1 .. 3 :
          /\ phase = Stage[i] /\ BetweenRounds
          /\ phase' = Stage[i + 1]
          /\ began' = [p \in DOMAIN began \cup {Stage[i + 1]} |-> IF p = Stage[i + 1] THEN now ELSE began[p]]
    /\ UNCHANGED <<system, doc, series, collector, stream, observed>>

\* materializeOracleArtifacts at ASSERT, while the collector goes on writing.
Materialize ==
    /\ phase = "ASSERT" /\ doc = {} /\ step \in {"idle", "append"}
    /\ doc' = {BuildDocument(lines)}
    /\ UNCHANGED <<system, phase, began, series, collector, stream, observed>>

\* buildOracleInput opens the stream once per node.
ReadNode ==
    /\ phase = "ASSERT" /\ doc # {} /\ Len(series) < Cardinality(Node) /\ step \in {"idle", "append"}
    /\ series' = Append(series, ReadMetrics(lines, Len(series) + 1))
    /\ UNCHANGED <<system, phase, began, doc, collector, stream, observed>>

\* Mutant: Stop waits for a loop it has not canceled.
StopWaits ==
    /\ Len(series) = Cardinality(Node) /\ phase \in Range(Stage) /\ step # "append"
    /\ phase' = "stopping"
    /\ UNCHANGED <<system, began, doc, series, collector, stream, observed>>

\* Stop of defaultTelemetryHandle, after the oracles or on the way out of an error.
StopSampler ==
    /\ Len(series) = Cardinality(Node) \/ "error" \in bounds.kinds
    /\ phase \in Range(Stage) /\ step # "append"
    /\ phase' = "stopping" /\ stopAsked' = TRUE
    /\ UNCHANGED <<system, began, doc, series, step, round, readings, seq, unwritten, stream, observed>>

CloseSink ==
    /\ phase = "stopping" /\ step = "stopped"
    /\ phase' = "DONE" /\ sink' = "closed"
    /\ UNCHANGED <<system, began, doc, series, collector, lines, observed>>

-----------------------------------------------------------------------------
(* no_unbounded_queue and resource_return_to_baseline.                     *)

Read == Len(series) = Cardinality(Node)

InWindow(points) == {p \in points : began["QUIESCE"] - Origin <= p.t /\ p.t < began["ASSERT"] - Origin}

\* k of the points that follow one another, and points of which each is above
\* the one before.
Runs(points, k) ==
    {s \in SUBSET points :
        /\ Cardinality(s) = k
        /\ \A p \in points : (\E a, b \in s : a.at < p.at /\ p.at < b.at) => p \in s}

Rising(s) == \A a, b \in s : a.at < b.at => a.v < b.v

\* longestStrictlyRisingRun is at least this long.
RisesFor(points, k) == \E s \in Runs(points, k) : Rising(s)

QueueVerdict ==
    LET enough == {n \in Node : Cardinality(InWindow(series[n].queue)) >= MinSamples}
    IN  CASE began["QUIESCE"] = began["ASSERT"] -> "inconclusive"
          [] \E n \in enough : RisesFor(InWindow(series[n].queue), MinSamples) -> "violated"
          [] enough = Node -> "ok"
          [] OTHER -> "inconclusive"

\* BaselineFor and LastFrom: the latest at or before DRIVE began, and the
\* latest since QUIESCE did.
Latest(points) == {p.v : p \in {q \in points : \A o \in points : o.t <= q.t}}
Baseline(n) == Latest({p \in series[n].rss : p.t <= 0})
LastFrom(n) == Latest({p \in series[n].rss : p.t >= began["QUIESCE"] - Origin})

ResourceVerdict ==
    CASE \E n \in Node : \E a \in Baseline(n), b \in LastFrom(n) : b - a > Slack -> "violated"
      [] \A n \in Node : Baseline(n) # {} /\ LastFrom(n) # {} -> "ok"
      [] OTHER -> "inconclusive"

-----------------------------------------------------------------------------
(* The spiral classifier, on the document of a finished world.             *)

\* SeriesFrom: a sample without virtual time, or without the metric, is an
\* absence and no point.
SeriesFrom(d, n, field) == PointsOf({s \in d.nodes[n] : s.of.vms # {}}, field)

\* The last k points, if there are so many, and what a gap does to them.
Trailing(points, k) ==
    {s \in SUBSET points : Cardinality(s) = k /\ \A p \in s, q \in points \ s : q.t < p.t}
Stretched(s) == \E a, b \in s : b.t - a.t > Stretch * (Cardinality(s) - 1)

\* regressXY, every sum multiplied by the number of points.
Spread(xs, ys) ==
    Cardinality(DOMAIN xs) * SumFunction([p \in DOMAIN xs |-> xs[p] * ys[p]]) - SumFunction(xs) * SumFunction(ys)
Sxx(s) == Spread([p \in s |-> p.t], [p \in s |-> p.t])
Sxy(s) == Spread([p \in s |-> p.t], [p \in s |-> p.v])
Syy(s) == Spread([p \in s |-> p.v], [p \in s |-> p.v])

\* significant: the slope exceeds Sigma of its standard errors, where the
\* points leave a residual to estimate one.
Significant(s) ==
    \/ Cardinality(s) < 3
    \/ Sxy(s) * Sxy(s) * (Cardinality(s) - 2) > Sigma * Sigma * (Sxx(s) * Syy(s) - Sxy(s) * Sxy(s))

\* quadFit: the sign of the second derivative, by Cramer's rule (the
\* determinant it divides by is positive), the times taken from their mean, so
\* that their sum drops out, and multiplied by the number of points. Its own
\* standard error is left out: an acceleration may or may not count.
Convex(s) ==
    LET n   == Cardinality(s)
        u   == [p \in s |-> n * p.t - SumFunction([q \in s |-> q.t])]
        s2  == SumFunction([p \in s |-> u[p]^2])
        s3  == SumFunction([p \in s |-> u[p]^3])
        y   == SumFunction([p \in s |-> p.v])
        uy  == SumFunction([p \in s |-> u[p] * p.v])
        u2y == SumFunction([p \in s |-> u[p]^2 * p.v])
    IN  n * (s2 * u2y - s3 * uy) - y * s2 * s2 > 0

\* ClassifySignal: what the last points say, and the labels it may give.
Trend(s) ==
    IF Stretched(s) \/ Sxx(s) = 0 THEN "insufficient"
    ELSE IF Sxy(s) > 0 /\ Significant(s) THEN "linear" ELSE "dampen"

ClassifySignal(points) ==
    LET trends == {Trend(s) : s \in Trailing(points, SpiralWindow)}
        wides  == {s \in Trailing(points, SpiralWindow + AccelWindow - 1) : ~Stretched(s) /\ Convex(s)}
    IN  IF trends = {} THEN {"insufficient"}
        ELSE trends \cup {l \in {"accelerating"} : "linear" \in trends /\ wides # {}}

\* Classify: the worst label a metric of the node may get, of those that say
\* anything.
Severity == [insufficient |-> 1, dampen |-> 2, linear |-> 3, accelerating |-> 4]

Classify(d, n) ==
    {IF Severity[q] < Severity[r] THEN r ELSE q :
         q \in ClassifySignal(SeriesFrom(d, n, "queue")), r \in ClassifySignal(SeriesFrom(d, n, "rss"))}

\* queueMonotonicCriterion: a step across a gap breaks the run.
QueueMonotonic(d, n, fault) ==
    LET after == {p \in SeriesFrom(d, n, "queue") : p.t > fault.end}
    IN  \E s \in Runs(after, MinMonotonicRun + 1) :
            /\ Rising(s)
            /\ \A a \in s : (\E b \in s : a.at < b.at) =>
                   \E b \in s : a.at < b.at /\ b.t - a.t <= Stretch

\* roleChanges of the search engine: a sample without a role is passed over.
RoleChanges(d, n) ==
    LET s == {x \in d.nodes[n] : x.of.role # {}}
    IN  UNION {b.of.vms : b \in {y \in s : \E a \in s :
                   /\ a.at < y.at /\ a.of.role # y.of.role
                   /\ \A c \in s : c.at <= a.at \/ y.at <= c.at}}

\* EvaluateCriteria: those that are met. No series of retries or of errors is
\* ever built, so the criteria about them are never known.
Criteria(d, n, fault) ==
    (IF QueueMonotonic(d, n, fault) THEN {"queue_depth_monotonic_after_withdrawal"} ELSE {}) \cup
    (IF \E t \in RoleChanges(d, n) : t \in fault.start .. fault.start + RoleChangeWindow
     THEN {"role_change_within_1s"} ELSE {})

-----------------------------------------------------------------------------
(* Next, and fairness: the collector's calls end, for the round has its    *)
(* deadline and the system answers or does not; the world goes on.         *)

Collect ==
    \/ BeginRound \/ RoundExpires \/ CollectStatus \/ CollectExec
    \/ AppendSample \/ LoopReturns

TelemetryNext ==
    \/ Moves \/ Passes \/ Collect
    \/ NextPhase \/ Materialize \/ ReadNode \/ StopSampler \/ CloseSink

TelemetrySpec ==
    TelInit /\ [][TelemetryNext]_telVars /\ WF_telVars(Collect) /\ WF_telVars(CloseSink)

-----------------------------------------------------------------------------
(* Properties.                                                             *)

\* The document and the oracles' series, read one after the other from a
\* stream that still grows, hold the same points as far as both go: the oracle
\* sees what the document does, and possibly more, although the one goes on
\* after a line that does not parse and the other stops there; and the numbers
\* of the one and the lines of the other are in the order of the times.
InOrder(points) == \A p, q \in points : p.at < q.at <=> p.t < q.t

Extends(longer, points) ==
    \A p \in points :
        /\ \E q \in longer : q.t = p.t /\ q.v = p.v
        /\ \A q \in longer : q.t <= p.t => \E o \in points : o.t = q.t /\ o.v = q.v

ReadersAgree ==
    \A d \in doc, n \in DOMAIN series :
        /\ \A field \in {"queue", "rss"} :
               LET points == PointsOf(d.nodes[n], field)
               IN  /\ InOrder(points) /\ InOrder(series[n][field])
                   /\ Extends(series[n][field], points)
        /\ d.gaps[n] = 0

\* The readings of one metric of one node that are stamped in a stretch of
\* virtual time, whatever became of them in the files.
ReadingsIn(n, field, from, to) ==
    {r \in observed : r.node = n /\ r.metric = field /\ r.at - Origin \in from .. to}

Rise(given, k) == \E s \in SUBSET given : Cardinality(s) = k /\ Rising(s)

\* A verdict about a resource rests on readings that a node gave: an accusation
\* on readings that rise as it says, an acquittal of every node on readings of
\* the times it compares, and no absence ever stands in for a number.
JudgedOnReadings ==
    LET quiesce == began["QUIESCE"] - Origin
        assert  == began["ASSERT"] - Origin
    IN  Read =>
        /\ QueueVerdict = "violated" =>
               \E n \in Node : Rise(ReadingsIn(n, "queue", quiesce, assert - 1), MinSamples)
        /\ QueueVerdict = "ok" =>
               \A n \in Node : Cardinality(ReadingsIn(n, "queue", quiesce, assert - 1)) >= MinSamples
        /\ ResourceVerdict = "violated" =>
               \E n \in Node : \E a \in ReadingsIn(n, "rss", -now, 0),
                                  b \in ReadingsIn(n, "rss", quiesce, now) : b.v - a.v > Slack
        /\ ResourceVerdict = "ok" =>
               \A n \in Node : /\ ReadingsIn(n, "rss", -now, 0) # {}
                               /\ ReadingsIn(n, "rss", quiesce, now) # {}

\* A node is said to reinforce a fault only on a trend's worth of readings, no
\* further apart than the search allows, one of which is above an earlier one;
\* to dampen it only on as many readings; and to have changed its role only
\* where it gave two roles.
LabelsAreEarned ==
    \A d \in doc, n \in Node : phase = "DONE" =>
        LET seen(field) == ReadingsIn(n, field, 0, now)
        IN  /\ Classify(d, n) \cap {"linear", "accelerating"} # {} =>
                   \E field \in {"queue", "rss"} : \E s \in SUBSET seen(field) :
                       /\ Cardinality(s) = SpiralWindow
                       /\ \A a, b \in s : b.at - a.at <= Stretch * (SpiralWindow - 1)
                       /\ \E a, b \in s : a.at < b.at /\ a.v < b.v
            /\ Classify(d, n) # {"insufficient"} =>
                   \E field \in {"queue", "rss"} : Cardinality(seen(field)) >= SpiralWindow
            /\ \A fault \in [start : 0 .. now, end : 0 .. now] :
                   /\ "queue_depth_monotonic_after_withdrawal" \in Criteria(d, n, fault) =>
                          Rise(ReadingsIn(n, "queue", fault.end + 1, now), MinMonotonicRun + 1)
                   /\ "role_change_within_1s" \in Criteria(d, n, fault) =>
                          \E a, b \in ReadingsIn(n, "role", -now, now) :
                              a.v # b.v /\ b.at - Origin >= fault.start

\* What is said of a world from its telemetry is true to what its nodes said.
TelemetryIsHonest == ReadersAgree /\ JudgedOnReadings /\ LabelsAreEarned

\* Stop returns, with the collector's last round over and the stream closed.
SamplerStops == (phase = "stopping") ~> (phase = "DONE")

=============================================================================
