---------------------------- MODULE TargetDrivers ----------------------------
(***************************************************************************)
(* The load generators of targets/: redisload, rqliteload, etcdload and    *)
(* consulload.  Each is one process that checks the cluster it was given,  *)
(* writes one value per key, lets its clients draw operations until the    *)
(* budget or the harness stops them, and records an invoke and a           *)
(* completion of every operation.  What they must get right is what a      *)
(* reply, or the lack of one, says about the operation: `fail` claims that *)
(* it took no effect and never will, `ok` that it did, and everything else *)
(* is `info`.  The cluster is reduced to what a request may come to.       *)
(***************************************************************************)
EXTENDS Integers, Sequences, FiniteSets, SequencesExt

CONSTANTS
    Drivers,      \* the load generators of this instance
    Nodes,        \* how many nodes the cluster has, numbered from 0
    Clients,      \* the plan's clients, numbered from 0
    Keys,         \* how many keys are seeded
    Budget,       \* each generator's operation budget
    DiskFails     \* the generators whose disk may fail

ASSUME TargetDriversAssumption ==
    /\ Drivers \subseteq {"redis", "rqlite", "etcd", "consul"}
    /\ {Nodes, Clients, Keys} \subseteq Nat \ {0}
    /\ Budget \in [Drivers -> Nat \ {0}]
    /\ DiskFails \subseteq Drivers

VARIABLES
    driver, conf,       \* which generator it is, and what it was started with
    stage,              \* start, setup, create, seed, load, exited
    asked,              \* how many start-up questions were answered well
    belief,             \* the node taken for the primary or the leader
    stopped, left,      \* the stop request, and what remains of the budget
    nextId,             \* the last operation id drawn
    op,                 \* the operations, by id
    pc, cur, att,       \* per client: where it is, its operation, how that went
    live, conn,         \* per client: its open connections, the requests on each
    hist, werr,         \* the history, by operation; the error that ended it (or none)
    mismatch, exit      \* a version seen that was not expected; the exit code

driverVars == <<driver, conf, stage, asked, belief, stopped, left, nextId, op, pc, cur,
                att, live, conn, hist, werr, mismatch, exit>>

Node == 0 .. Nodes - 1
Client == 0 .. Clients - 1
Id == 1 .. Budget[driver]
NoOp == [p |-> -1, f |-> "none", node |-> 0, eff |-> "none"]
NoAttempt == [sent |-> FALSE, err |-> "none", kind |-> "none", of |-> 0, ver |-> TRUE,
              to |-> -1]

-----------------------------------------------------------------------------
(* The command line and the plan.                                          *)

\* What a generator may be started with.  `bad` is the operation of a trace
\* whose value is not an integer; 0 is none.
Confs == [args : {TRUE}, plan : {"none", "broken"}, mix : {"known"}, bad : {0}]
         \cup [args : {FALSE}, plan : {"profile"}, mix : {"known"}, bad : {0}]
         \cup [args : {TRUE}, plan : {"profile"}, mix : {"known", "unknown", "empty"}, bad : {0}]
         \cup [args : {TRUE}, plan : {"trace"}, mix : {"known"}, bad : 0 .. 1]

RedisLoadPlan == conf.plan = "profile"
RqliteLoadPlan == conf.plan = "profile"
ConsulLoadPlan == conf.plan = "profile"
\* etcdload has a workload of its own when it is given no plan, and alone
\* executes a trace.
EtcdLoadPlan == conf.plan \in {"none", "profile", "trace"}

RedisMix == conf.mix = "known"
RqliteMix == conf.mix \notin {"unknown", "empty"}
ConsulMix == conf.mix \notin {"unknown", "empty"}
EtcdMix == conf.mix = "known"

RedisRun == IF conf.args /\ RedisLoadPlan /\ RedisMix THEN "setup" ELSE "exited"
RqliteRun == IF conf.args /\ RqliteLoadPlan /\ RqliteMix THEN "setup" ELSE "exited"
EtcdRun == IF conf.args /\ EtcdLoadPlan /\ EtcdMix THEN "create" ELSE "exited"
ConsulRun == IF conf.args /\ ConsulLoadPlan /\ ConsulMix THEN "setup" ELSE "exited"

\* A refusal is exit 2, and no history was made.
Start ==
    /\ stage = "start"
    /\ stage' = CASE driver = "redis" -> RedisRun [] driver = "rqlite" -> RqliteRun
                  [] driver = "etcd" -> EtcdRun [] driver = "consul" -> ConsulRun
    /\ exit' = IF stage' = "exited" THEN 2 ELSE exit
    /\ UNCHANGED <<driver, conf, asked, belief, stopped, left, nextId, op, pc, cur, att,
                   live, conn, hist, werr, mismatch>>

-----------------------------------------------------------------------------
(* The start-up checks.  A server answers as it should, answers something  *)
(* else, or does not answer; only the last is asked again.                 *)

\* redisload asks every node and then every Sentinel, and begins again when one
\* does not answer or has not heard of the primary's run id yet.
RedisQuestions == 2 * Nodes
RedisObserve(answer) ==
    CASE answer = "right" -> asked + 1
      [] answer = "silent" -> 0
      [] OTHER -> asked
RedisSetup(answer) ==
    /\ driver = "redis" /\ asked < RedisQuestions
    /\ asked' = RedisObserve(answer)
    /\ UNCHANGED belief

\* consulload asks each node until it answers.
ConsulSetup(answer) ==
    /\ driver = "consul" /\ asked < Nodes
    /\ asked' = IF answer = "right" THEN asked + 1 ELSE asked
    /\ UNCHANGED belief

\* rqliteload creates its table, following redirects and otherwise trying the
\* next node.
RqliteSetup(answer) ==
    /\ driver = "rqlite" /\ asked < 1
    /\ asked' = IF answer = "right" THEN 1 ELSE 0
    /\ belief' \in IF answer = "silent" THEN Node ELSE {belief}

Setup ==
    /\ stage = "setup"
    /\ \E answer \in {"right", "wrong", "silent"} :
         /\ RedisSetup(answer) \/ ConsulSetup(answer) \/ RqliteSetup(answer)
         /\ stage' = IF answer = "wrong" THEN "exited" ELSE stage
         /\ exit' = IF answer = "wrong" THEN 1 ELSE exit
    /\ UNCHANGED <<driver, conf, stopped, left, nextId, op, pc, cur, att, live, conn, hist,
                   werr, mismatch>>

Questions == CASE driver = "redis" -> RedisQuestions [] driver = "consul" -> Nodes
               [] OTHER -> 1

SetupDone ==
    /\ stage = "setup" /\ asked = Questions /\ stage' = "create"
    /\ UNCHANGED <<driver, conf, asked, belief, stopped, left, nextId, op, pc, cur, att, live,
                   conn, hist, werr, mismatch, exit>>

\* Mutant of SetupDeadline: the deadline is looked at only when no server answers.
SetupDeadlineWhenAllSilent ==
    /\ stage = "setup" /\ asked = 0
    /\ stage' = "exited" /\ exit' = 1
    /\ UNCHANGED <<driver, conf, asked, belief, stopped, left, nextId, op, pc, cur, att, live,
                   conn, hist, werr, mismatch>>

\* --setup-timeout: the last answer was silence and the deadline has passed.
SetupDeadline ==
    /\ stage = "setup" /\ asked < Questions
    /\ stage' = "exited" /\ exit' = 1
    /\ UNCHANGED <<driver, conf, asked, belief, stopped, left, nextId, op, pc, cur, att, live,
                   conn, hist, werr, mismatch>>

Create ==
    /\ stage = "create"
    /\ \/ stage' = (IF conf.plan = "trace" THEN "load" ELSE "seed") /\ UNCHANGED exit
       \/ driver \in DiskFails /\ stage' = "exited" /\ exit' = 1
    /\ UNCHANGED <<driver, conf, asked, belief, stopped, left, nextId, op, pc, cur, att, live,
                   conn, hist, werr, mismatch>>

-----------------------------------------------------------------------------
(* The history.                                                            *)

\* One record, flushed at once.  After the first failure, which may leave part of
\* a line, records are dropped.  The records of different operations never meet
\* in what follows, so the history is kept by operation.
Write(id, r) ==
    \/ werr = "none" /\ hist' = [hist EXCEPT ![id] = Append(@, r)] /\ UNCHANGED werr
    \/ werr = "none" /\ driver \in DiskFails /\ werr' \in {"lost", "torn"} /\ UNCHANGED hist
    \/ werr # "none" /\ UNCHANGED <<hist, werr>>

\* internal/historycheck over the finished file: 1 for a contradiction, 2 for a
\* history that cannot be judged, 0 otherwise.
Completion == {"ok", "fail", "info"}
Contradicts(h) ==
    \/ \E i, j \in DOMAIN h : i < j /\ h[j].type = "invoke"
    \/ h # <<>> /\ h[1].type # "invoke"
    \/ \E i, j \in DOMAIN h : i # j /\ {h[i].type, h[j].type} \subseteq Completion
Unclosed(h) == h # <<>> /\ \A i \in DOMAIN h : h[i].type \notin Completion
HistoryExit ==
    IF werr = "torn" \/ \E id \in Id : Contradicts(hist[id]) THEN 1
    ELSE IF (\E id \in Id : Unclosed(hist[id])) \/ (\A id \in Id : hist[id] = <<>>) THEN 2
    ELSE 0

-----------------------------------------------------------------------------
(* An operation begins: its invoke is recorded before anything is sent.    *)

Issue(p, id, f, n) ==
    /\ op' = [op EXCEPT ![id] = [p |-> p, f |-> f, node |-> n, eff |-> "none"]]
    /\ cur' = [cur EXCEPT ![p] = id]
    /\ pc' = [pc EXCEPT ![p] = "send"]
    /\ Write(id, [type |-> "invoke", of |-> 0, ver |-> TRUE])

RedisDoWrite(p, id) == Issue(p, id, "write", belief)
RedisDoRead(p, id) == Issue(p, id, "read", belief)
RqliteDoWrite(p, id) == Issue(p, id, "write", belief)
RqliteDoRead(p, id) == \E n \in Node : Issue(p, id, "read", n)
EtcdDoWrite(p, id) == \E n \in Node : Issue(p, id, "write", n)
EtcdDoRead(p, id) == \E n \in Node : Issue(p, id, "read", n)
ConsulDoWrite(p, id) == \E n \in Node : Issue(p, id, "write", n)
ConsulDoRead(p, id) == \E n \in Node : Issue(p, id, "read", n)

DoWrite(p, id) ==
    \/ driver = "redis" /\ RedisDoWrite(p, id)
    \/ driver = "rqlite" /\ RqliteDoWrite(p, id)
    \/ driver = "etcd" /\ EtcdDoWrite(p, id)
    \/ driver = "consul" /\ ConsulDoWrite(p, id)
DoRead(p, id) ==
    \/ driver = "redis" /\ RedisDoRead(p, id)
    \/ driver = "rqlite" /\ RqliteDoRead(p, id)
    \/ driver = "etcd" /\ EtcdDoRead(p, id)
    \/ driver = "consul" /\ ConsulDoRead(p, id)

\* Process 0 writes every key once, one after another.
Seed ==
    /\ stage = "seed" /\ pc[0] = "idle" /\ nextId < Keys /\ ~stopped /\ left > 0
    /\ left' = left - 1 /\ nextId' = nextId + 1
    /\ DoWrite(0, nextId + 1)
    /\ UNCHANGED <<driver, conf, stage, asked, belief, stopped, att, live, conn, mismatch, exit>>

\* The seeding client closes its connections and the clients start.
Seeded ==
    /\ stage = "seed" /\ pc[0] = "idle" /\ (nextId = Keys \/ stopped \/ left = 0)
    /\ stage' = "load"
    /\ live' = [live EXCEPT ![0] = {}]
    /\ conn' = [conn EXCEPT ![0] = [n \in Node |-> <<>>]]
    /\ UNCHANGED <<driver, conf, asked, belief, stopped, left, nextId, op, pc, cur, att, hist,
                   werr, mismatch, exit>>

\* One round of a client's loop.
Loop(p) ==
    /\ stage = "load" /\ conf.plan # "trace" /\ pc[p] = "idle"
    /\ ~stopped /\ left > 0
    /\ left' = left - 1 /\ nextId' = nextId + 1
    /\ DoWrite(p, nextId + 1) \/ DoRead(p, nextId + 1)
    /\ UNCHANGED <<driver, conf, stage, asked, belief, stopped, att, live, conn, mismatch, exit>>

LoopEnds(p) ==
    /\ stage = "load" /\ conf.plan # "trace" /\ pc[p] = "idle"
    /\ stopped \/ left = 0
    /\ pc' = [pc EXCEPT ![p] = "done"]
    /\ UNCHANGED <<driver, conf, stage, asked, belief, stopped, left, nextId, op, cur, att, live,
                   conn, hist, werr, mismatch, exit>>

\* A trace's operations, each process its own in the order given, under the ids
\* they were recorded with.
Untried(p) == {id \in Id : id % Clients = p /\ op[id] = NoOp}
RunPlan(p) ==
    /\ stage = "load" /\ conf.plan = "trace" /\ pc[p] = "idle"
    /\ IF stopped \/ Untried(p) = {}
         THEN /\ pc' = [pc EXCEPT ![p] = "done"]
              /\ UNCHANGED <<stopped, op, cur, hist, werr>>
         ELSE LET id == CHOOSE x \in Untried(p) : \A y \in Untried(p) : x <= y IN
              \/ /\ id = conf.bad
                 /\ stopped' = TRUE /\ pc' = [pc EXCEPT ![p] = "done"]
                 /\ UNCHANGED <<op, cur, hist, werr>>
              \/ id # conf.bad /\ (DoWrite(p, id) \/ DoRead(p, id)) /\ UNCHANGED stopped
    /\ UNCHANGED <<driver, conf, stage, asked, belief, left, nextId, att, live, conn, mismatch,
                   exit>>

-----------------------------------------------------------------------------
(* The wire.                                                               *)

Op(p) == op[cur[p]]
SetEff(id, e) == [op EXCEPT ![id].eff = IF op[id].f = "read" THEN "none" ELSE e]
Answered(p, a) ==
    /\ att' = [att EXCEPT ![p] = [NoAttempt EXCEPT !.sent = a.sent, !.err = a.err]]
    /\ pc' = [pc EXCEPT ![p] = "answered"]
Drop(p) ==
    /\ live' = [live EXCEPT ![p] = @ \ {Op(p).node}]
    /\ conn' = [conn EXCEPT ![p][Op(p).node] = <<>>]
Pending(p) ==
    /\ conn' = [conn EXCEPT ![p][Op(p).node] = Append(@, cur[p])]
    /\ op' = SetEff(cur[p], "limbo")
    /\ pc' = [pc EXCEPT ![p] = "wait"]
    /\ UNCHANGED att

\* A client of redisload keeps one connection to each node: it dials when it has
\* none, and the bytes of a command that could not be written may have left.
RedisSend(p) ==
    /\ driver = "redis" /\ pc[p] = "send"
    /\ \/ /\ Op(p).node \notin live[p]
          /\ \E e \in {"refused", "timeout"} : Answered(p, [sent |-> FALSE, err |-> e])
          /\ UNCHANGED <<op, live, conn>>
       \/ /\ Answered(p, [sent |-> TRUE, err |-> "lost"])
          /\ \E e \in {"none", "limbo"} : op' = SetEff(cur[p], e)
          /\ Drop(p)
       \/ Pending(p) /\ live' = [live EXCEPT ![p] = @ \cup {Op(p).node}]

\* net/http dials or reuses a connection; WroteRequest reports a request written
\* in full.
HttpSend(p) ==
    /\ driver # "redis" /\ pc[p] = "send"
    /\ \/ /\ \E e \in {"refused", "timeout"} : Answered(p, [sent |-> FALSE, err |-> e])
          /\ UNCHANGED <<op, conn>>
       \/ /\ Answered(p, [sent |-> FALSE, err |-> "lost"])
          /\ \E e \in {"none", "limbo"} : op' = SetEff(cur[p], e)
          /\ UNCHANGED conn
       \/ Pending(p)
    /\ UNCHANGED live

\* Mutant of RedisGivesUp: the connection is kept after a reply did not come.
RedisGivesUpInStep(p) ==
    /\ driver = "redis"
    /\ Answered(p, [sent |-> TRUE, err |-> "lost"])
    /\ UNCHANGED <<live, conn>>

\* The reply does not come in time, or the connection ends before it.  redisload
\* drops the connection; etcdload reads WroteRequest's flag without a lock.
RedisGivesUp(p) ==
    /\ driver = "redis"
    /\ Answered(p, [sent |-> TRUE, err |-> "lost"])
    /\ Drop(p)
HttpGivesUp(p) ==
    /\ driver \in {"rqlite", "consul"}
    /\ Answered(p, [sent |-> TRUE, err |-> "lost"])
    /\ Drop(p)
EtcdGivesUp(p) ==
    /\ driver = "etcd"
    /\ \E s \in BOOLEAN : Answered(p, [sent |-> s, err |-> "lost"])
    /\ Drop(p)
GiveUp(p) ==
    /\ pc[p] = "wait"
    /\ RedisGivesUp(p) \/ HttpGivesUp(p) \/ EtcdGivesUp(p)
    /\ UNCHANGED op

\* What a server may answer: done; refused before applying (READONLY, a redirect
\* to `to`, "No cluster leader"); another error; or something unexpected.
Replies(id) ==
    [kind : {"ok", "error", "odd"}
            \cup IF op[id].f = "write" /\ driver # "etcd" THEN {"refused"} ELSE {},
     ver : IF driver = "rqlite" THEN BOOLEAN ELSE {TRUE},
     to : IF driver = "rqlite" THEN Node \cup {-1} ELSE {-1}]
Effects(k) == CASE k = "ok" -> {"applied"} [] k = "refused" -> {"refused"}
                [] OTHER -> {"refused", "limbo"}

\* A connection answers its requests in the order they were written.
Reply(p) ==
    /\ pc[p] = "wait"
    /\ LET q == conn[p][Op(p).node] IN
       \E r \in Replies(Head(q)) :
         /\ r.to # -1 => r.kind = "refused"
         /\ \E e \in Effects(r.kind) : op' = SetEff(Head(q), e)
         /\ att' = [att EXCEPT ![p] = [sent |-> TRUE, err |-> "none", kind |-> r.kind,
                                       of |-> Head(q), ver |-> r.ver, to |-> r.to]]
         /\ conn' = [conn EXCEPT ![p][Op(p).node] = Tail(q)]
    /\ pc' = [pc EXCEPT ![p] = "answered"]
    /\ UNCHANGED live

-----------------------------------------------------------------------------
(* What came back, classified.                                             *)

\* A timeout proves nothing; a refused dial proves that nothing was sent.
ProvablyNeverSent(a) == a.err = "refused"
Transport(a) == IF ~a.sent /\ ProvablyNeverSent(a) THEN "fail" ELSE "info"

RedisClassifyWrite(a) ==
    IF a.err # "none" THEN Transport(a)
    ELSE IF a.kind = "ok" THEN "ok"
    ELSE IF a.kind = "refused" THEN "fail"
    ELSE "info"
RedisClassifyRead(a) ==
    IF a.err # "none" THEN Transport(a)
    ELSE IF a.kind = "ok" THEN "ok"
    ELSE "info"

\* rqliteload looks at the version of an answer before anything else in it.
RqliteTransport(a) ==
    IF a.err # "none" THEN Transport(a)
    ELSE IF ~a.ver THEN "info"
    ELSE "none"
RqliteClassifyExecute(a) ==
    IF RqliteTransport(a) # "none" THEN RqliteTransport(a)
    ELSE IF a.kind = "refused" THEN "fail"
    ELSE IF a.kind = "ok" THEN "ok"
    ELSE "info"
RqliteClassifyRead(a) ==
    IF RqliteTransport(a) # "none" THEN RqliteTransport(a)
    ELSE IF a.kind = "ok" THEN "ok"
    ELSE "info"

EtcdClassify(a) ==
    IF a.err # "none" THEN Transport(a)
    ELSE IF a.kind = "ok" THEN "ok"
    ELSE "info"

ConsulClassifyWrite(a) ==
    IF a.err # "none" THEN Transport(a)
    ELSE IF a.kind = "ok" THEN "ok"
    ELSE IF a.kind = "refused" THEN "fail"
    ELSE "info"
ConsulClassifyRead(a) ==
    IF a.err # "none" THEN Transport(a)
    ELSE IF a.kind = "ok" THEN "ok"
    ELSE "info"

Classify(f, a) ==
    CASE driver = "redis" -> IF f = "write" THEN RedisClassifyWrite(a) ELSE RedisClassifyRead(a)
      [] driver = "rqlite" -> IF f = "write" THEN RqliteClassifyExecute(a) ELSE RqliteClassifyRead(a)
      [] driver = "etcd" -> EtcdClassify(a)
      [] driver = "consul" -> IF f = "write" THEN ConsulClassifyWrite(a) ELSE ConsulClassifyRead(a)

\* Where a redirect leads, when it names a node of this world.
TargetForLocation(a) == IF a.ver /\ a.kind = "refused" THEN a.to ELSE -1
\* rqliteload's belief moves only if it is still the node this write was sent to.
NextNode(n) == (n + 1) % Nodes
\* Mutant of RqliteBelief: the answer decides, whoever moved the belief meanwhile.
RqliteBeliefBlind(o, a, out) ==
    IF o.f = "read" THEN belief
    ELSE IF TargetForLocation(a) # -1 THEN TargetForLocation(a)
    ELSE IF out # "ok" THEN NextNode(o.node)
    ELSE belief
RqliteBelief(o, a, out) ==
    IF o.f = "read" \/ belief # o.node THEN belief
    ELSE IF TargetForLocation(a) # -1 THEN TargetForLocation(a)
    ELSE IF out # "ok" THEN NextNode(o.node)
    ELSE belief
NoteMismatch(a) == a.err = "none" /\ ~a.ver

\* The completion is recorded; a redis client that did not get an ok then asks
\* the Sentinels.
Complete(p) ==
    /\ pc[p] = "answered"
    /\ LET a == att[p]
           out == Classify(Op(p).f, a)
       IN /\ Write(cur[p], [type |-> out, of |-> a.of, ver |-> a.ver])
          /\ belief' = IF driver = "rqlite" THEN RqliteBelief(Op(p), a, out) ELSE belief
          /\ mismatch' = (mismatch \/ NoteMismatch(a))
          /\ stopped' = (stopped \/ NoteMismatch(a))
          /\ pc' = [pc EXCEPT ![p] = IF driver = "redis" /\ out # "ok" THEN "ask" ELSE "idle"]
    /\ att' = [att EXCEPT ![p] = NoAttempt] /\ cur' = [cur EXCEPT ![p] = 0]
    /\ UNCHANGED <<driver, conf, stage, asked, left, nextId, op, live, conn, exit>>

\* Under the mutex, at most once in an interval: the first Sentinel that names a
\* node of this world is believed.
Rediscover(p) ==
    /\ pc[p] = "ask"
    /\ belief' \in Node
    /\ pc' = [pc EXCEPT ![p] = "idle"]
    /\ UNCHANGED <<driver, conf, stage, asked, stopped, left, nextId, op, cur, att, live, conn,
                   hist, werr, mismatch, exit>>

-----------------------------------------------------------------------------
(* The end.                                                                *)

\* {"cmd":"stop"}, or the harness closes stdin.
WatchStdin ==
    /\ stage \in {"seed", "load"} /\ ~stopped /\ stopped' = TRUE
    /\ UNCHANGED <<driver, conf, stage, asked, belief, left, nextId, op, pc, cur, att, live, conn,
                   hist, werr, mismatch, exit>>

\* Mutant of Close: exit 0 once the file is closed.
CloseQuietly ==
    /\ stage = "load" /\ \A p \in Client : pc[p] = "done"
    /\ stage' = "exited" /\ exit' = 0
    /\ UNCHANGED <<driver, conf, asked, belief, stopped, left, nextId, op, pc, cur, att, live,
                   conn, hist, werr, mismatch>>

\* The history is closed.  A mismatch of versions ends rqliteload with exit 1
\* even if every record was written.
Close ==
    /\ stage = "load" /\ \A p \in Client : pc[p] = "done"
    /\ stage' = "exited"
    /\ \E e \in {werr # "none"} \cup IF driver \in DiskFails THEN {TRUE} ELSE {} :
         exit' = IF e \/ (driver = "rqlite" /\ mismatch) THEN 1 ELSE 0
    /\ UNCHANGED <<driver, conf, asked, belief, stopped, left, nextId, op, pc, cur, att, live,
                   conn, hist, werr, mismatch>>

\* The supervisor does not wait for ever (DriverHandle).
Killed ==
    /\ stage \in {"setup", "seed", "load"} /\ stage' = "exited" /\ exit' = 9
    /\ UNCHANGED <<driver, conf, asked, belief, stopped, left, nextId, op, pc, cur, att, live,
                   conn, hist, werr, mismatch>>

DriverInit ==
    /\ driver \in Drivers /\ conf \in Confs
    /\ stage = "start" /\ asked = 0 /\ belief = 0
    /\ stopped = FALSE /\ left = Budget[driver] /\ nextId = 0
    /\ op = [id \in Id |-> NoOp]
    /\ pc = [p \in Client |-> "idle"] /\ cur = [p \in Client |-> 0]
    /\ att = [p \in Client |-> NoAttempt]
    /\ live = [p \in Client |-> {}] /\ conn = [p \in Client |-> [n \in Node |-> <<>>]]
    /\ hist = [id \in Id |-> <<>>] /\ werr = "none" /\ mismatch = FALSE /\ exit = -1

OnTheWire(p) ==
    /\ stage \in {"seed", "load"}
    /\ RedisSend(p) \/ HttpSend(p) \/ GiveUp(p) \/ Reply(p)
    /\ UNCHANGED <<driver, conf, stage, asked, belief, stopped, left, nextId, cur, hist, werr,
                   mismatch, exit>>

ClientStep(p) ==
    \/ OnTheWire(p)
    \/ stage # "exited" /\ (Complete(p) \/ Rediscover(p))
    \/ Loop(p) \/ LoopEnds(p) \/ RunPlan(p)

Drive ==
    \/ Start \/ Setup \/ SetupDone \/ Create \/ Seed \/ Seeded \/ Close
    \/ \E p \in Client : ClientStep(p)

DriverNext == Drive \/ SetupDeadline \/ WatchStdin \/ Killed

DriverSpec == DriverInit /\ [][DriverNext]_driverVars

-----------------------------------------------------------------------------
(* Properties.                                                             *)

DriverTypeOK ==
    /\ asked \in 0 .. Questions /\ belief \in Node /\ left \in 0 .. Budget[driver]
    /\ exit \in {-1, 0, 1, 2, 9} /\ nextId \in 0 .. Budget[driver]
    /\ \A p \in Client :
          /\ pc[p] \in {"idle", "send", "wait", "answered", "ask", "done"}
          /\ cur[p] \in 0 .. Budget[driver] /\ live[p] \subseteq Node

\* "fail means it never happened": a write recorded as failed has taken no effect
\* and cannot take one any more; one recorded as ok took effect; and what an
\* operation is recorded as comes from the answer to that operation, though
\* connections are reused after timeouts.
RecordsAreSound ==
    \A id \in Id : \A i \in DOMAIN hist[id] :
      LET r == hist[id][i] IN
      /\ r.type = "fail" => op[id].eff \in {"none", "refused"}
      /\ r.type = "ok" => r.of = id /\ (op[id].f = "write" => op[id].eff = "applied")

\* TARGETS.md: honour the drain, exit non-zero when you could not drive.  A driver
\* that exits 0 leaves a history in which every operation is closed and no answer
\* came from another version; one that was killed leaves at worst open operations,
\* never a contradiction.
HistoryIsWhole ==
    /\ exit = 0 => /\ HistoryExit = IF \E id \in Id : hist[id] # <<>> THEN 0 ELSE 2
                   /\ \A id \in Id : \A i \in DOMAIN hist[id] : hist[id][i].ver
    /\ exit = 9 /\ werr = "none" => HistoryExit # 1

\* Every record of a driver's history is true, and its exit code says whether the
\* history is all of it.
HistoryIsTrue == RecordsAreSound /\ HistoryIsWhole

\* The belief about the leader is moved by a write only away from the node that
\* write was sent to: an answer that comes late does not undo what a redirect
\* taught another client.
BeliefIsNotUndone ==
    [][driver = "rqlite" /\ stage = "load" /\ belief' # belief
         => \E p \in Client : pc[p] = "answered" /\ pc'[p] = "idle" /\ Op(p).node = belief]_driverVars

\* A driver ends whatever its servers do: every request has a timeout, the budget
\* is finite and the start-up checks have a deadline.
DriverEnds == <>(stage = "exited")
=============================================================================
