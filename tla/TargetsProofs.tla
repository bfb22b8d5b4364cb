---------------------------- MODULE TargetsProofs ----------------------------
(***************************************************************************)
(* Theorems about the programs of targets/: the load generators, for any   *)
(* number of nodes, clients, keys and operations, and the probes, for any  *)
(* number of members, elections and attempts.                              *)
(***************************************************************************)
EXTENDS TargetDrivers, ClusterProbes, FiniteSetTheorems, WellFoundedInduction, TLAPS

\* A non-empty set of naturals has a least element.
LEMMA LeastOf ==
    ASSUME NEW S \in SUBSET Nat, S # {}
    PROVE  \E x \in S : \A y \in S : x <= y
<1>1. PICK x \in S : \A y \in S : ~(<<y, x>> \in OpToRel(<, Nat))
    BY NatLessThanWellFounded, WFMin
<1>2. \A y \in S : ~(y < x)
    BY <1>1 DEF OpToRel
<1> QED BY <1>2

------------------------------------------------------------------------------
(* The load generators                                                     *)

OpRecord ==
    [p : Client \cup {-1}, f : {"none", "read", "write"}, node : Node,
     eff : {"none", "limbo", "applied", "refused"}]
AttemptRecord ==
    [sent : BOOLEAN, err : {"none", "refused", "timeout", "lost"},
     kind : {"none", "ok", "error", "odd", "refused"}, of : 0 .. Budget[driver],
     ver : BOOLEAN, to : Node \cup {-1}]
HistRecord ==
    [type : {"invoke", "ok", "fail", "info"}, of : 0 .. Budget[driver], ver : BOOLEAN]

DriverTyped ==
    /\ driver \in Drivers
    /\ stage \in {"start", "setup", "create", "seed", "load", "exited"}
    /\ asked \in Nat /\ belief \in Node /\ stopped \in BOOLEAN /\ mismatch \in BOOLEAN
    /\ left \in Nat /\ nextId \in Nat
    /\ op \in [Id -> OpRecord]
    /\ pc \in [Client -> {"idle", "send", "wait", "answered", "ask", "done"}]
    /\ cur \in [Client -> 0 .. Budget[driver]] /\ att \in [Client -> AttemptRecord]
    /\ live \in [Client -> SUBSET Node] /\ conn \in [Client -> [Node -> Seq(Id)]]
    /\ hist \in [Id -> Seq(HistRecord)]
    /\ werr \in {"none", "lost", "torn"} /\ exit \in {-1, 0, 1, 2, 9}

\* What an answer says of the operation it is the answer to.
AnswerOK(p) ==
    /\ att[p].err = "refused" => Op(p).eff = "none"
    /\ att[p].err = "none" =>
         /\ att[p].of = cur[p]
         /\ att[p].kind = "ok" /\ Op(p).f = "write" => Op(p).eff = "applied"
         /\ att[p].kind = "refused" => Op(p).eff \in {"none", "refused"}
    /\ ~att[p].ver => att[p].err = "none" /\ driver = "rqlite"

\* A client has an operation from its invoke to its completion, and nothing on any
\* connection but the request it waits for the answer of.
ClientOK(p) ==
    /\ pc[p] = "ask" => driver = "redis"
    /\ cur[p] # 0 <=> pc[p] \in {"send", "wait", "answered"}
    /\ cur[p] # 0 => Op(p).p = p
    /\ pc[p] = "send" => Op(p).eff = "none"
    /\ pc[p] = "answered" => AnswerOK(p)
    /\ \A n \in Node :
         conn[p][n] = IF pc[p] = "wait" /\ n = Op(p).node THEN <<cur[p]>> ELSE <<>>

\* An operation is a client's, or nothing has happened of it.
OpOK(id) ==
    /\ op[id] = NoOp \/ (op[id].p \in Client /\ op[id].f \in {"read", "write"})
    /\ op[id].f = "read" => op[id].eff = "none"
    /\ conf.plan # "trace" /\ nextId < id => op[id] = NoOp

\* The history of one operation: nothing, an invoke, or an invoke and a sound
\* completion; and both if no record was lost, once its client has gone on.
CompletionOK(id, r) ==
    /\ r.type \in Completion
    /\ r.type = "fail" => op[id].eff \in {"none", "refused"}
    /\ r.type = "ok" => r.of = id /\ (op[id].f = "write" => op[id].eff = "applied")
    /\ ~r.ver => mismatch /\ driver = "rqlite"
HistOK(id) ==
    /\ hist[id] # <<>> => op[id] # NoOp /\ hist[id][1].type = "invoke" /\ hist[id][1].ver
    /\ Len(hist[id]) <= 2
    /\ Len(hist[id]) = 2 => cur[op[id].p] # id /\ CompletionOK(id, hist[id][2])
    /\ werr = "none" /\ op[id] # NoOp =>
         Len(hist[id]) = IF cur[op[id].p] = id THEN 1 ELSE 2

ExitOK ==
    /\ conf.plan # "trace" => nextId + left = Budget[driver]
    /\ stage = "seed" => conf.plan # "trace"
    /\ stage # "exited" => exit = -1
    /\ exit = 0 => /\ werr = "none" /\ ~(driver = "rqlite" /\ mismatch)
                   /\ \A p \in Client : pc[p] = "done"

DriverInv ==
    /\ DriverTyped /\ ExitOK
    /\ \A p \in Client : ClientOK(p)
    /\ \A id \in Id : OpOK(id) /\ HistOK(id)

LEMMA DriverFacts ==
    ASSUME DriverTyped
    PROVE  /\ driver \in {"redis", "rqlite", "etcd", "consul"}
           /\ Nodes \in Nat \ {0} /\ Clients \in Nat \ {0} /\ Keys \in Nat \ {0}
           /\ Budget[driver] \in Nat \ {0} /\ Id \subseteq Nat \ {0}
           /\ 0 \in Node /\ 0 \in Client /\ Node \subseteq Nat /\ Client \subseteq Nat
           /\ -1 \notin Client
BY TargetDriversAssumption DEF DriverTyped, Id, Node, Client

\* DriverInv holds at the start.
LEMMA DriverInitOK ==
    ASSUME DriverInit
    PROVE  DriverInv
<1>1. /\ driver \in Drivers /\ Budget[driver] \in Nat \ {0} /\ Nodes \in Nat \ {0}
      /\ Clients \in Nat \ {0} /\ -1 \notin Client /\ 0 \in Node
    BY TargetDriversAssumption DEF DriverInit, Client, Node
<1>2. NoOp \in OpRecord /\ NoAttempt \in AttemptRecord
    BY <1>1 DEF NoOp, NoAttempt, OpRecord, AttemptRecord
<1>3. <<>> \in Seq(HistRecord) /\ <<>> \in Seq(Id) /\ Len(<<>>) = 0
    OBVIOUS
<1>4. DriverTyped
    <2>1. /\ op \in [Id -> OpRecord] /\ att \in [Client -> AttemptRecord]
          /\ hist \in [Id -> Seq(HistRecord)] /\ live \in [Client -> SUBSET Node]
          /\ conn \in [Client -> [Node -> Seq(Id)]]
        BY <1>2, <1>3 DEF DriverInit
    <2>2. cur \in [Client -> 0 .. Budget[driver]]
        BY <1>1 DEF DriverInit
    <2> QED BY <1>1, <2>1, <2>2 DEF DriverInit, DriverTyped
<1>5. ExitOK
    BY <1>1 DEF DriverInit, ExitOK, Id
<1>6. \A p \in Client : ClientOK(p)
    BY <1>1 DEF DriverInit, ClientOK
<1>7. \A id \in Id : OpOK(id) /\ HistOK(id)
    BY <1>1, <1>3 DEF DriverInit, OpOK, HistOK, NoOp
<1> QED BY <1>4, <1>5, <1>6, <1>7 DEF DriverInv

LEMMA UpToTwo ==
    ASSUME NEW n \in Nat, n <= 2
    PROVE  \A i \in 1 .. n : i = 1 \/ (i = 2 /\ n = 2)
OBVIOUS

LEMMA EmptyDomain == \A i : i \notin DOMAIN <<>>
<1>1. DOMAIN <<>> = 1 .. 0
    OBVIOUS
<1> QED BY <1>1

\* A history that DriverInv allows does not contradict itself.
LEMMA NoContradiction ==
    ASSUME DriverInv, NEW id \in Id
    PROVE  ~Contradicts(hist[id])
<1> DEFINE h == hist[id]
<1>1. h \in Seq(HistRecord) /\ HistOK(id)
    BY DEF DriverInv, DriverTyped
<1>2. DOMAIN h = 1 .. Len(h) /\ Len(h) \in Nat /\ Len(h) <= 2
    BY <1>1 DEF HistOK
<1>3. Len(h) = 2 => h[2].type \in Completion
    BY <1>1 DEF HistOK, CompletionOK
<1>4. h # <<>> => h[1].type = "invoke"
    BY <1>1 DEF HistOK
<1>5. \A i \in DOMAIN h : h # <<>> /\ (i = 1 \/ (i = 2 /\ Len(h) = 2))
    <2>1. \A i \in 1 .. Len(h) : i = 1 \/ (i = 2 /\ Len(h) = 2)
        BY <1>2, UpToTwo
    <2>2. \A i \in DOMAIN h : h # <<>>
        BY EmptyDomain, Zenon
    <2> QED BY <1>2, <2>1, <2>2
<1>6. \A i \in DOMAIN h : i = 1 <=> h[i].type \notin Completion
    BY <1>3, <1>4, <1>5 DEF Completion
<1>7. \A i \in DOMAIN h : i = 1 <=> h[i].type = "invoke"
    BY <1>3, <1>4, <1>5 DEF Completion
<1>8. ~\E i, j \in DOMAIN h : i < j /\ h[j].type = "invoke"
    BY <1>2, <1>7
<1>9. ~\E i, j \in DOMAIN h : i # j /\ {h[i].type, h[j].type} \subseteq Completion
    BY <1>2, <1>5, <1>6
<1> QED BY <1>4, <1>8, <1>9 DEF Contradicts

\* DriverInv is strong enough.
LEMMA DriverInvSuffices ==
    ASSUME DriverInv
    PROVE  HistoryIsTrue
<1>1. \A id \in Id : hist[id] \in Seq(HistRecord) /\ HistOK(id)
    BY DEF DriverInv, DriverTyped
<1>2. ASSUME NEW id \in Id, NEW i \in DOMAIN hist[id]
      PROVE  /\ i \in {1, 2} /\ (i = 2 => Len(hist[id]) = 2)
             /\ i = 1 => hist[id][i].type = "invoke" /\ hist[id][i].ver
             /\ i = 2 => CompletionOK(id, hist[id][2])
    <2>1. i \in 1 .. Len(hist[id]) /\ Len(hist[id]) \in Nat /\ Len(hist[id]) <= 2
        BY <1>1 DEF HistOK
    <2>2. i = 1 \/ (i = 2 /\ Len(hist[id]) = 2)
        BY <2>1, UpToTwo, Zenon
    <2>3. hist[id] # <<>>
        BY EmptyDomain, Zenon
    <2> QED BY <1>1, <2>2, <2>3 DEF HistOK
<1>3. RecordsAreSound
    <2> SUFFICES ASSUME NEW id \in Id, NEW i \in DOMAIN hist[id]
                 PROVE  /\ hist[id][i].type = "fail" => op[id].eff \in {"none", "refused"}
                        /\ hist[id][i].type = "ok" =>
                             hist[id][i].of = id /\ (op[id].f = "write" => op[id].eff = "applied")
        BY DEF RecordsAreSound
    <2>1. CASE i = 1
        BY <1>2, <2>1
    <2>2. CASE i = 2
        BY <1>2, <2>2 DEF CompletionOK
    <2> QED BY <1>2, <2>1, <2>2
<1>4. \A id \in Id : ~Contradicts(hist[id])
    BY NoContradiction
<1>5. ASSUME exit = 0
      PROVE  /\ HistoryExit = IF \E id \in Id : hist[id] # <<>> THEN 0 ELSE 2
             /\ \A id \in Id : \A i \in DOMAIN hist[id] : hist[id][i].ver
    <2>1. werr = "none" /\ ~(driver = "rqlite" /\ mismatch) /\ \A p \in Client : pc[p] = "done"
        BY <1>5 DEF DriverInv, ExitOK
    <2>2. \A p \in Client : cur[p] = 0
        BY <2>1 DEF DriverInv, ClientOK
    <2>3. ASSUME NEW id \in Id, hist[id] # <<>>
          PROVE  Len(hist[id]) = 2 /\ ~Unclosed(hist[id])
        <3>1. op[id] # NoOp
            BY <1>1, <2>3 DEF HistOK
        <3>2. op[id].p \in Client
            BY <3>1 DEF DriverInv, OpOK
        <3>3. cur[op[id].p] # id
            BY <2>2, <3>2, DriverFacts DEF DriverInv
        <3>4. Len(hist[id]) = 2
            BY <1>1, <2>1, <3>1, <3>3 DEF HistOK
        <3>5. 2 \in DOMAIN hist[id] /\ hist[id][2].type \in Completion
            BY <1>1, <3>4 DEF HistOK, CompletionOK
        <3> QED BY <3>4, <3>5 DEF Unclosed
    <2>4. \A id \in Id : ~Unclosed(hist[id])
        BY <2>3 DEF Unclosed
    <2>5. HistoryExit = IF \E id \in Id : hist[id] # <<>> THEN 0 ELSE 2
        BY <1>4, <2>1, <2>4 DEF HistoryExit
    <2>6. \A id \in Id : \A i \in DOMAIN hist[id] : hist[id][i].ver
        <3> SUFFICES ASSUME NEW id \in Id, NEW i \in DOMAIN hist[id]
                     PROVE  hist[id][i].ver
            OBVIOUS
        <3>1. CASE i = 1
            BY <1>2, <3>1
        <3>2. CASE i = 2
            BY <1>2, <2>1, <3>2 DEF CompletionOK
        <3> QED BY <1>2, <3>1, <3>2
    <2> QED BY <2>5, <2>6
<1>6. werr = "none" => HistoryExit # 1
    BY <1>4 DEF HistoryExit
<1> QED BY <1>3, <1>5, <1>6 DEF HistoryIsTrue, HistoryIsWhole

\* What the generators leave alone keeps its type.
LEMMA SameDriver ==
    ASSUME driver' = driver
    PROVE  Id' = Id /\ OpRecord' = OpRecord /\ AttemptRecord' = AttemptRecord /\ HistRecord' = HistRecord
BY DEF Id, OpRecord, AttemptRecord, HistRecord

\* What Write does to the history.
LEMMA WriteDoes ==
    ASSUME DriverTyped, NEW id \in Id, NEW r \in HistRecord, Write(id, r)
    PROVE  /\ hist' \in [Id -> Seq(HistRecord)] /\ werr' \in {"none", "lost", "torn"}
           /\ \A j \in Id \ {id} : hist'[j] = hist[j]
           /\ \/ werr = "none" /\ werr' = "none" /\ hist'[id] = Append(hist[id], r)
              \/ werr' # "none" /\ hist'[id] = hist[id]
<1>1. hist \in [Id -> Seq(HistRecord)] /\ Append(hist[id], r) \in Seq(HistRecord)
    BY DEF DriverTyped
<1> QED BY <1>1 DEF DriverTyped, Write

\* A client takes an operation and records its invoke.
LEMMA IssueKeeps ==
    ASSUME DriverInv, NEW p \in Client, NEW id \in Id, NEW n \in Node,
           NEW f \in {"read", "write"}, op[id] = NoOp, pc[p] = "idle", stage # "exited",
           Issue(p, id, f, n),
           UNCHANGED <<driver, conf, stage, asked, belief, att, live, conn, mismatch, exit>>,
           stopped' \in BOOLEAN, left' \in Nat, nextId' \in Nat,
           conf.plan # "trace" =>
             nextId' + left' = Budget[driver] /\ id <= nextId' /\ nextId <= nextId'
    PROVE  DriverInv'
<1>0. DriverTyped /\ ExitOK /\ (\A q \in Client : ClientOK(q)) /\ (\A j \in Id : OpOK(j) /\ HistOK(j))
    BY DEF DriverInv
<1>1. /\ driver' = driver /\ Id' = Id /\ OpRecord' = OpRecord
      /\ AttemptRecord' = AttemptRecord /\ HistRecord' = HistRecord
    BY SameDriver
<1> DEFINE new == [p |-> p, f |-> f, node |-> n, eff |-> "none"]
           inv == [type |-> "invoke", of |-> 0, ver |-> TRUE]
<1>2. new \in OpRecord /\ new # NoOp /\ inv \in HistRecord /\ id \in Nat \ {0}
    BY <1>0, DriverFacts DEF OpRecord, HistRecord, NoOp
<1>3. /\ op' \in [Id -> OpRecord] /\ op'[id] = new /\ \A j \in Id \ {id} : op'[j] = op[j]
      /\ cur' \in [Client -> 0 .. Budget[driver]] /\ cur'[p] = id
      /\ \A q \in Client \ {p} : cur'[q] = cur[q]
      /\ pc' \in [Client -> {"idle", "send", "wait", "answered", "ask", "done"}]
      /\ pc'[p] = "send" /\ \A q \in Client \ {p} : pc'[q] = pc[q]
    <2>1. op' = [op EXCEPT ![id] = new]
        BY DEF Issue
    <2>2. id \in 0 .. Budget[driver]
        BY <1>0, DriverFacts DEF Id
    <2>3. cur' = [cur EXCEPT ![p] = id] /\ pc' = [pc EXCEPT ![p] = "send"]
        BY DEF Issue
    <2> QED BY <1>0, <1>2, <2>1, <2>2, <2>3 DEF DriverTyped
<1>4. \A q \in Client : cur[q] # id
    <2> SUFFICES ASSUME NEW q \in Client, cur[q] = id PROVE FALSE
        OBVIOUS
    <2>1. op[id].p = q
        BY <1>0, <1>2 DEF ClientOK, Op
    <2> QED BY <1>0, <2>1, DriverFacts DEF NoOp
<1>5. hist[id] = <<>> /\ hist[id] \in Seq(HistRecord)
    BY <1>0 DEF HistOK, DriverTyped
<1>6. /\ hist' \in [Id -> Seq(HistRecord)] /\ werr' \in {"none", "lost", "torn"}
      /\ \A j \in Id \ {id} : hist'[j] = hist[j]
      /\ \/ werr = "none" /\ werr' = "none" /\ hist'[id] = Append(hist[id], inv)
         \/ werr' # "none" /\ hist'[id] = hist[id]
    BY <1>0, <1>2, WriteDoes DEF Issue
<1>7. DriverTyped'
    BY <1>0, <1>1, <1>3, <1>6 DEF DriverTyped
<1>8. ExitOK'
    BY <1>0, <1>1 DEF ExitOK
<1>9. ASSUME NEW q \in Client
      PROVE  ClientOK(q)'
    <2>1. CASE q = p
        <3>1. \A m \in Node : conn[p][m] = <<>>
            BY <1>0 DEF ClientOK
        <3> QED BY <1>2, <1>3, <2>1, <3>1 DEF ClientOK, Op
    <2>2. CASE q # p /\ cur[q] # 0
        <3>1. cur[q] \in Id \ {id}
            BY <1>0, <1>4, <2>2, DriverFacts DEF DriverTyped, Id
        <3>2. Op(q)' = Op(q)
            BY <1>3, <2>2, <3>1 DEF Op
        <3> QED BY <1>0, <1>1, <1>3, <2>2, <3>2 DEF ClientOK, AnswerOK
    <2>3. CASE q # p /\ cur[q] = 0
        <3>1. pc[q] \notin {"send", "wait", "answered"} /\ \A m \in Node : conn[q][m] = <<>>
            BY <1>0, <2>3 DEF ClientOK
        <3>2. pc'[q] = pc[q] /\ cur'[q] = 0 /\ conn' = conn
            BY <1>3, <2>3
        <3>3. pc[q] = "ask" => driver' = "redis"
            BY <1>0, <1>1 DEF ClientOK
        <3> QED BY <3>1, <3>2, <3>3 DEF ClientOK
    <2> QED BY <2>1, <2>2, <2>3
<1>10. ASSUME NEW j \in Id
       PROVE  OpOK(j)' /\ HistOK(j)'
    <2>1. CASE j = id
        <3>1. OpOK(id)'
            BY <1>0, <1>2, <1>3 DEF OpOK
        <3>2. CASE werr' # "none" /\ hist'[id] = hist[id]
            <4>1. Len(hist'[id]) <= 2 /\ Len(hist'[id]) # 2 /\ hist'[id] = <<>>
                BY <1>5, <3>2
            <4> QED BY <2>1, <3>1, <3>2, <4>1 DEF HistOK
        <3>3. CASE werr' = "none" /\ hist'[id] = Append(hist[id], inv)
            <4>1. /\ Len(hist'[id]) <= 2 /\ Len(hist'[id]) # 2 /\ Len(hist'[id]) = 1
                  /\ hist'[id][1] = inv
                BY <1>5, <3>3
            <4>2. inv.type = "invoke" /\ inv.ver /\ op'[id] # NoOp /\ cur'[op'[id].p] = id
                BY <1>2, <1>3
            <4> QED BY <2>1, <3>1, <4>1, <4>2 DEF HistOK
        <3> QED BY <1>6, <2>1, <3>1, <3>2, <3>3
    <2>2. CASE j # id
        <3>1. OpOK(j)'
            <4>1. op'[j] = op[j] /\ j \in Nat
                BY <1>0, <1>3, <2>2, DriverFacts
            <4>2. conf.plan # "trace" /\ nextId' < j => nextId < j
                BY <1>0, <4>1 DEF DriverTyped
            <4> QED BY <1>0, <4>1, <4>2 DEF OpOK
        <3>2. op[j] # NoOp => op[j].p \in Client
            BY <1>0 DEF OpOK
        <3>3. \A q \in Client : cur'[q] = j <=> cur[q] = j
            <4>1. cur[p] = 0 /\ j # 0
                BY <1>0, DriverFacts DEF ClientOK
            <4> QED BY <1>3, <2>2, <4>1
        <3>4. op'[j] = op[j] /\ hist'[j] = hist[j] /\ (werr' = "none" => werr = "none")
            BY <1>3, <1>6, <2>2
        <3>5. hist[j] = <<>> => Len(hist[j]) = 0
            OBVIOUS
        <3> QED BY <1>0, <1>1, <3>1, <3>2, <3>3, <3>4, <3>5 DEF HistOK, CompletionOK
    <2> QED BY <2>1, <2>2
<1> QED BY <1>1, <1>7, <1>8, <1>9, <1>10 DEF DriverInv

\* A request goes out, or its answer, or the end of its connection, comes in.
LEMMA WireKeeps ==
    ASSUME DriverInv, NEW p \in Client, pc[p] \in {"send", "wait"}, stage # "exited",
           NEW e \in {"none", "limbo", "applied", "refused"}, op' = SetEff(cur[p], e),
           NEW a \in AttemptRecord, att' = [att EXCEPT ![p] = a],
           NEW x \in {"wait", "answered"}, pc' = [pc EXCEPT ![p] = x],
           conn' = [conn EXCEPT ![p][Op(p).node] = IF x = "wait" THEN <<cur[p]>> ELSE <<>>],
           live' \in [Client -> SUBSET Node],
           UNCHANGED <<driver, conf, stage, asked, belief, stopped, left, nextId, cur, hist,
                       werr, mismatch, exit>>,
           x = "answered" =>
             /\ a.err = "refused" => e = "none"
             /\ a.err = "none" => /\ a.of = cur[p] /\ (a.kind = "ok" => e = "applied")
                                  /\ a.kind = "refused" => e = "refused"
             /\ ~a.ver => a.err = "none" /\ driver = "rqlite"
    PROVE  DriverInv'
<1>0. DriverTyped /\ ExitOK /\ (\A q \in Client : ClientOK(q)) /\ (\A j \in Id : OpOK(j) /\ HistOK(j))
    BY DEF DriverInv
<1>1. /\ driver' = driver /\ Id' = Id /\ OpRecord' = OpRecord
      /\ AttemptRecord' = AttemptRecord /\ HistRecord' = HistRecord
    BY SameDriver
<1> DEFINE id == cur[p]
           g == IF op[id].f = "read" THEN "none" ELSE e
<1>2. /\ id \in Id /\ id # 0 /\ op[id] \in OpRecord /\ op[id].p = p /\ op[id] # NoOp
      /\ Op(p).node \in Node
    <2>1. id # 0 /\ op[id].p = p
        BY <1>0 DEF ClientOK, Op
    <2>2. id \in Id /\ op[id] \in OpRecord
        BY <1>0, <2>1, DriverFacts DEF DriverTyped, Id
    <2>3. op[id] # NoOp
        BY <1>0, <2>1, DriverFacts DEF NoOp
    <2> QED BY <2>1, <2>2, <2>3 DEF Op, OpRecord
<1>3. /\ op' \in [Id -> OpRecord] /\ op'[id] = [op[id] EXCEPT !.eff = g]
      /\ \A j \in Id \ {id} : op'[j] = op[j]
    BY <1>0, <1>2 DEF SetEff, DriverTyped, OpRecord
<1>4. /\ op'[id].p = p /\ op'[id].f = op[id].f /\ op'[id].node = op[id].node
      /\ op'[id].eff = g
    BY <1>2, <1>3 DEF OpRecord
<1>5. /\ pc' \in [Client -> {"idle", "send", "wait", "answered", "ask", "done"}]
      /\ pc'[p] = x /\ \A q \in Client \ {p} : pc'[q] = pc[q]
      /\ att' \in [Client -> AttemptRecord] /\ att'[p] = a
      /\ \A q \in Client \ {p} : att'[q] = att[q]
    BY <1>0 DEF DriverTyped
<1>6. /\ conn' \in [Client -> [Node -> Seq(Id)]] /\ \A q \in Client \ {p} : conn'[q] = conn[q]
      /\ conn'[p] = [conn[p] EXCEPT ![Op(p).node] = IF x = "wait" THEN <<id>> ELSE <<>>]
    <2>1. <<id>> \in Seq(Id) /\ <<>> \in Seq(Id)
        BY <1>2
    <2> QED BY <1>0, <1>2, <2>1 DEF DriverTyped
<1>7. \A j \in Id : /\ op'[j].p = op[j].p /\ op'[j].f = op[j].f
                    /\ op'[j] = NoOp <=> op[j] = NoOp
    <2>1. op'[id] # NoOp
        BY <1>2, <1>4, DriverFacts, <1>0 DEF NoOp
    <2> QED BY <1>2, <1>3, <1>4, <2>1
<1>8. DriverTyped'
    BY <1>0, <1>1, <1>3, <1>5, <1>6 DEF DriverTyped
<1>9. ExitOK'
    BY <1>0, <1>1 DEF ExitOK
<1>10. ASSUME NEW q \in Client
       PROVE  ClientOK(q)'
    <2>1. CASE q = p
        <3>1. Op(p)' = op'[id] /\ Op(p) = op[id] /\ cur'[p] = id
            BY DEF Op
        <3>2. x = "answered" => AnswerOK(p)'
            BY <1>1, <1>4, <1>5, <3>1 DEF AnswerOK
        <3>3. \A m \in Node : conn'[p][m] = IF x = "wait" /\ m = Op(p).node THEN <<id>> ELSE <<>>
            <4>1. \A m \in Node \ {Op(p).node} : conn[p][m] = <<>>
                BY <1>0 DEF ClientOK
            <4> QED BY <1>0, <1>2, <1>6, <4>1 DEF DriverTyped
        <3> QED BY <1>2, <1>4, <1>5, <2>1, <3>1, <3>2, <3>3 DEF ClientOK
    <2>2. CASE q # p /\ cur[q] # 0
        <3>1. cur[q] \in Id \ {id}
            <4>1. op[cur[q]].p = q
                BY <1>0, <2>2 DEF ClientOK, Op
            <4>2. cur[q] \in Id
                BY <1>0, <2>2, DriverFacts DEF DriverTyped, Id
            <4> QED BY <1>2, <2>2, <4>1, <4>2
        <3>2. Op(q)' = Op(q)
            BY <1>3, <3>1 DEF Op
        <3> QED BY <1>0, <1>1, <1>5, <1>6, <2>2, <3>2 DEF ClientOK, AnswerOK
    <2>3. CASE q # p /\ cur[q] = 0
        <3>1. pc[q] \notin {"send", "wait", "answered"} /\ \A m \in Node : conn[q][m] = <<>>
            BY <1>0, <2>3 DEF ClientOK
        <3>2. pc'[q] = pc[q] /\ cur'[q] = 0 /\ conn'[q] = conn[q]
            BY <1>5, <1>6, <2>3
        <3>3. pc[q] = "ask" => driver' = "redis"
            BY <1>0, <1>1 DEF ClientOK
        <3> QED BY <3>1, <3>2, <3>3 DEF ClientOK
    <2> QED BY <2>1, <2>2, <2>3
<1>11. ASSUME NEW j \in Id
       PROVE  OpOK(j)' /\ HistOK(j)'
    <2>1. OpOK(j)'
        <3>1. op'[j].f = "read" => op'[j].eff = "none"
            <4>1. CASE j = id
                BY <1>4, <4>1
            <4>2. CASE j # id
                BY <1>0, <1>3, <4>2 DEF OpOK
            <4> QED BY <4>1, <4>2
        <3> QED BY <1>0, <1>1, <1>7, <3>1 DEF OpOK
    <2>2. Len(hist[j]) = 2 => op'[j] = op[j]
        BY <1>0, <1>2, <1>3 DEF HistOK
    <2> QED BY <1>0, <1>1, <1>7, <2>1, <2>2 DEF HistOK, CompletionOK
<1> QED BY <1>1, <1>8, <1>9, <1>10, <1>11 DEF DriverInv

\* What an operation is recorded as is true of it, whichever driver judges.
LEMMA ClassifySound ==
    ASSUME DriverInv, NEW p \in Client, pc[p] = "answered"
    PROVE  LET out == Classify(Op(p).f, att[p]) IN
           /\ out \in Completion
           /\ out = "fail" => Op(p).eff \in {"none", "refused"}
           /\ out = "ok" => att[p].of = cur[p] /\ (Op(p).f = "write" => Op(p).eff = "applied")
<1> DEFINE a == att[p]
           Sound == {out \in Completion :
             /\ out = "fail" => Op(p).eff \in {"none", "refused"}
             /\ out = "ok" => a.of = cur[p] /\ (Op(p).f = "write" => Op(p).eff = "applied")}
<1>1. AnswerOK(p) /\ driver \in {"redis", "rqlite", "etcd", "consul"}
    BY DriverFacts DEF DriverInv, ClientOK
<1>2. "info" \in Sound
    BY DEF Completion
<1>3. a.err # "none" => Transport(a) \in Sound
    BY <1>1, <1>2 DEF AnswerOK, Transport, ProvablyNeverSent, Completion
<1>4. a.err = "none" /\ a.kind = "ok" => "ok" \in Sound
    BY <1>1 DEF AnswerOK, Completion
<1>5. a.err = "none" /\ a.kind = "refused" => "fail" \in Sound
    BY <1>1 DEF AnswerOK, Completion
<1> HIDE DEF Sound
<1>6. RedisClassifyWrite(a) \in Sound /\ RedisClassifyRead(a) \in Sound
    BY <1>2, <1>3, <1>4, <1>5 DEF RedisClassifyWrite, RedisClassifyRead
<1>7. /\ RqliteTransport(a) # "none" => RqliteTransport(a) \in Sound
      /\ RqliteTransport(a) = "none" => a.err = "none"
    BY <1>2, <1>3 DEF RqliteTransport, Transport
<1>8. RqliteClassifyExecute(a) \in Sound /\ RqliteClassifyRead(a) \in Sound
    BY <1>2, <1>4, <1>5, <1>7 DEF RqliteClassifyExecute, RqliteClassifyRead
<1>9. EtcdClassify(a) \in Sound
    BY <1>2, <1>3, <1>4 DEF EtcdClassify
<1>10. ConsulClassifyWrite(a) \in Sound /\ ConsulClassifyRead(a) \in Sound
    BY <1>2, <1>3, <1>4, <1>5 DEF ConsulClassifyWrite, ConsulClassifyRead
<1>11. Classify(Op(p).f, a) \in Sound
    BY <1>1, <1>6, <1>8, <1>9, <1>10 DEF Classify
<1> QED BY <1>11 DEF Sound

\* Where rqliteload looks for the leader next is a node.
LEMMA BeliefIsANode ==
    ASSUME DriverInv, NEW p \in Client, pc[p] = "answered", NEW out
    PROVE  RqliteBelief(Op(p), att[p], out) \in Node
<1>1. DriverTyped /\ cur[p] \in Id /\ Nodes \in Nat \ {0}
    <2>1. DriverTyped /\ cur[p] # 0
        BY DEF DriverInv, ClientOK
    <2> QED BY <2>1, DriverFacts DEF DriverTyped, Id
<1>2. Op(p).node \in 0 .. Nodes - 1 /\ att[p].to \in Node \cup {-1} /\ belief \in Node
    BY <1>1 DEF DriverTyped, Op, OpRecord, AttemptRecord, Node
<1>3. NextNode(Op(p).node) \in Node
    <2>1. \A m \in 0 .. Nodes - 1 : (m + 1) % Nodes \in 0 .. Nodes - 1
        BY <1>1
    <2> QED BY <1>2, <2>1 DEF NextNode, Node
<1>4. TargetForLocation(att[p]) \in Node \cup {-1}
    BY <1>2 DEF TargetForLocation
<1> QED BY <1>2, <1>3, <1>4 DEF RqliteBelief

\* An operation is completed and its completion recorded.
LEMMA CompleteKeeps ==
    ASSUME DriverInv, NEW p \in Client, Complete(p), stage # "exited"
    PROVE  DriverInv'
<1>0. DriverTyped /\ ExitOK /\ (\A q \in Client : ClientOK(q)) /\ (\A j \in Id : OpOK(j) /\ HistOK(j))
    BY DEF DriverInv
<1>1. /\ driver' = driver /\ Id' = Id /\ OpRecord' = OpRecord
      /\ AttemptRecord' = AttemptRecord /\ HistRecord' = HistRecord
    BY SameDriver DEF Complete
<1> DEFINE id == cur[p]
           a == att[p]
           out == Classify(Op(p).f, a)
           r == [type |-> out, of |-> a.of, ver |-> a.ver]
<1>2. /\ pc[p] = "answered" /\ id # 0 /\ id \in Id /\ op[id].p = p /\ op[id] # NoOp
      /\ AnswerOK(p) /\ a \in AttemptRecord
    <2>1. pc[p] = "answered"
        BY DEF Complete
    <2>2. id # 0 /\ op[id].p = p /\ AnswerOK(p)
        BY <1>0, <2>1 DEF ClientOK, Op
    <2>3. id \in Id /\ a \in AttemptRecord
        BY <1>0, <2>2, DriverFacts DEF DriverTyped, Id
    <2> QED BY <1>0, <2>1, <2>2, <2>3, DriverFacts DEF NoOp
<1>3. /\ out \in Completion /\ (out = "fail" => op[id].eff \in {"none", "refused"})
      /\ out = "ok" => a.of = id /\ (op[id].f = "write" => op[id].eff = "applied")
    BY <1>2, ClassifySound DEF Op
<1> HIDE DEF out
<1>4. r \in HistRecord
    BY <1>2, <1>3 DEF HistRecord, AttemptRecord, Completion
<1>5. /\ Write(id, r)
      /\ belief' = IF driver = "rqlite" THEN RqliteBelief(Op(p), a, out) ELSE belief
      /\ mismatch' = (mismatch \/ NoteMismatch(a)) /\ stopped' = (stopped \/ NoteMismatch(a))
      /\ pc' = [pc EXCEPT ![p] = IF driver = "redis" /\ out # "ok" THEN "ask" ELSE "idle"]
      /\ att' = [att EXCEPT ![p] = NoAttempt] /\ cur' = [cur EXCEPT ![p] = 0]
      /\ UNCHANGED <<driver, conf, stage, asked, left, nextId, op, live, conn, exit>>
    BY DEF Complete, out
<1>6. /\ hist' \in [Id -> Seq(HistRecord)] /\ werr' \in {"none", "lost", "torn"}
      /\ \A j \in Id \ {id} : hist'[j] = hist[j]
      /\ \/ werr = "none" /\ werr' = "none" /\ hist'[id] = Append(hist[id], r)
         \/ werr' # "none" /\ hist'[id] = hist[id]
    BY <1>0, <1>2, <1>4, <1>5, WriteDoes
<1>7. belief' \in Node
    BY <1>0, <1>2, <1>5, BeliefIsANode DEF DriverTyped
<1>8. NoAttempt \in AttemptRecord
    BY <1>0, DriverFacts DEF NoAttempt, AttemptRecord
<1>9. /\ cur' \in [Client -> 0 .. Budget[driver]] /\ cur'[p] = 0
      /\ \A q \in Client \ {p} : cur'[q] = cur[q]
      /\ pc' \in [Client -> {"idle", "send", "wait", "answered", "ask", "done"}]
      /\ pc'[p] \in {"idle", "ask"} /\ (pc'[p] = "ask" => driver = "redis")
      /\ \A q \in Client \ {p} : pc'[q] = pc[q]
      /\ att' \in [Client -> AttemptRecord] /\ \A q \in Client \ {p} : att'[q] = att[q]
    <2>1. 0 \in 0 .. Budget[driver]
        BY <1>0, DriverFacts
    <2> QED BY <1>0, <1>5, <1>8, <2>1 DEF DriverTyped
<1>10. DriverTyped'
    BY <1>0, <1>1, <1>5, <1>6, <1>7, <1>9 DEF DriverTyped, NoteMismatch
<1>11. ExitOK'
    BY <1>0, <1>5 DEF ExitOK
<1>12. ASSUME NEW q \in Client
       PROVE  ClientOK(q)'
    <2>1. CASE q = p
        <3>1. \A n \in Node : conn[p][n] = <<>>
            BY <1>0, <1>2 DEF ClientOK
        <3> QED BY <1>5, <1>9, <2>1, <3>1 DEF ClientOK
    <2>2. CASE q # p
        <3>1. Op(q)' = Op(q) /\ cur'[q] = cur[q] /\ pc'[q] = pc[q] /\ att'[q] = att[q]
            BY <1>5, <1>9, <2>2 DEF Op
        <3> QED BY <1>0, <1>5, <3>1 DEF ClientOK, AnswerOK
    <2> QED BY <2>1, <2>2
<1>13. \A j \in Id : OpOK(j)'
    BY <1>0, <1>5 DEF OpOK
<1>14. ASSUME NEW j \in Id, j = id
       PROVE  HistOK(j)'
    <2>1. hist[j] \in Seq(HistRecord) /\ Len(hist[j]) \in Nat /\ Len(hist[j]) <= 2
        BY <1>0 DEF DriverTyped, HistOK
    <2>2. Len(hist[j]) # 2 /\ (werr = "none" => Len(hist[j]) = 1)
        BY <1>0, <1>2, <1>14 DEF HistOK
    <2>3. op'[j] = op[j] /\ op[j].p = p /\ op[j] # NoOp /\ cur'[p] # j /\ driver' = driver
        BY <1>2, <1>5, <1>9, <1>14
    <2>4. CASE werr' # "none" /\ hist'[j] = hist[j]
        BY <1>0, <2>1, <2>2, <2>3, <2>4 DEF HistOK
    <2>5. CASE werr = "none" /\ werr' = "none" /\ hist'[j] = Append(hist[j], r)
        <3>1. Len(hist'[j]) = 2 /\ hist'[j][1] = hist[j][1] /\ hist'[j][2] = r
            BY <1>4, <2>1, <2>2, <2>5
        <3>2. hist[j] # <<>>
            BY <2>2, <2>5
        <3>3. ~a.ver => mismatch' /\ driver' = "rqlite"
            BY <1>2, <1>5 DEF AnswerOK, NoteMismatch
        <3>4. CompletionOK(j, hist[j][2])'
            BY <1>3, <1>14, <2>3, <3>1, <3>3 DEF CompletionOK
        <3>5. hist'[j][1].type = "invoke" /\ hist'[j][1].ver
            BY <1>0, <3>1, <3>2 DEF HistOK
        <3> QED BY <2>3, <3>1, <3>4, <3>5 DEF HistOK
    <2> QED BY <1>6, <1>14, <2>4, <2>5
<1>15. ASSUME NEW j \in Id, j # id
       PROVE  HistOK(j)'
    <2>1. /\ hist'[j] = hist[j] /\ op'[j] = op[j] /\ driver' = driver
          /\ (werr' = "none" => werr = "none") /\ (mismatch => mismatch')
        BY <1>5, <1>6, <1>15
    <2>2. \A q \in Client : cur'[q] = j <=> cur[q] = j
        BY <1>0, <1>9, <1>15, DriverFacts
    <2>3. op[j] # NoOp => op[j].p \in Client
        BY <1>0 DEF OpOK
    <2>4. hist[j] = <<>> => Len(hist[j]) = 0
        OBVIOUS
    <2>5. Len(hist[j]) = 2 => op[j] # NoOp
        BY <1>0, <2>4 DEF HistOK
    <2>6. op[j] # NoOp => (cur'[op'[j].p] = j <=> cur[op[j].p] = j)
        BY <2>1, <2>2, <2>3
    <2> QED BY <1>0, <2>1, <2>5, <2>6 DEF HistOK, CompletionOK
<1> QED BY <1>1, <1>10, <1>11, <1>12, <1>13, <1>14, <1>15 DEF DriverInv

\* Everything else leaves the operations, the connections and the history alone.
LEMMA RestKeeps ==
    ASSUME DriverInv,
           UNCHANGED <<driver, conf, left, nextId, op, cur, att, hist, werr, mismatch>>,
           conn' = conn, live' \in [Client -> SUBSET Node],
           stage' \in {"start", "setup", "create", "seed", "load", "exited"},
           asked' \in Nat, belief' \in Node, stopped' \in BOOLEAN,
           exit' \in {-1, 0, 1, 2, 9},
           pc' \in [Client -> {"idle", "send", "wait", "answered", "ask", "done"}],
           \A p \in Client :
             \/ pc'[p] = pc[p]
             \/ pc[p] \in {"idle", "ask"} /\ pc'[p] \in {"idle", "done"},
           ExitOK'
    PROVE  DriverInv'
<1>0. DriverTyped /\ (\A q \in Client : ClientOK(q)) /\ (\A j \in Id : OpOK(j) /\ HistOK(j))
    BY DEF DriverInv
<1>1. /\ driver' = driver /\ Id' = Id /\ OpRecord' = OpRecord
      /\ AttemptRecord' = AttemptRecord /\ HistRecord' = HistRecord
    BY SameDriver
<1>2. DriverTyped'
    BY <1>0, <1>1 DEF DriverTyped
<1>3. ASSUME NEW q \in Client PROVE ClientOK(q)'
    <2>1. Op(q)' = Op(q)
        BY DEF Op
    <2>2. CASE pc'[q] = pc[q]
        BY <1>0, <2>1, <2>2 DEF ClientOK, AnswerOK
    <2>3. CASE pc[q] \in {"idle", "ask"} /\ pc'[q] \in {"idle", "done"}
        BY <1>0, <2>1, <2>3 DEF ClientOK
    <2> QED BY <2>2, <2>3
<1>4. \A j \in Id : OpOK(j)' /\ HistOK(j)'
    BY <1>0 DEF OpOK, HistOK, CompletionOK
<1> QED BY <1>1, <1>2, <1>3, <1>4 DEF DriverInv

\* Every driver begins an operation in the same way.
LEMMA DoIssues ==
    ASSUME DriverTyped, NEW p \in Client, NEW id \in Id, DoWrite(p, id) \/ DoRead(p, id)
    PROVE  \E n \in Node, f \in {"read", "write"} : Issue(p, id, f, n)
BY DEF DriverTyped, DoWrite, DoRead, RedisDoWrite, RedisDoRead, RqliteDoWrite, RqliteDoRead,
       EtcdDoWrite, EtcdDoRead, ConsulDoWrite, ConsulDoRead

\* Nothing comes of a request, or the answer to it does not come.
LEMMA AnsweredKeeps ==
    ASSUME DriverInv, NEW p \in Client, pc[p] \in {"send", "wait"}, stage # "exited",
           NEW s \in BOOLEAN, NEW err \in {"refused", "timeout", "lost"},
           Answered(p, [sent |-> s, err |-> err]),
           NEW e \in {"none", "limbo", "applied", "refused"}, op' = SetEff(cur[p], e),
           err = "refused" => e = "none",
           conn' = [conn EXCEPT ![p][Op(p).node] = <<>>], live' \in [Client -> SUBSET Node],
           UNCHANGED <<driver, conf, stage, asked, belief, stopped, left, nextId, cur, hist,
                       werr, mismatch, exit>>
    PROVE  DriverInv'
<1> DEFINE a == [NoAttempt EXCEPT !.sent = s, !.err = err]
<1>1. a \in AttemptRecord /\ a.err = err /\ a.ver
    BY DriverFacts DEF DriverInv, AttemptRecord, NoAttempt
<1>2. att' = [att EXCEPT ![p] = a] /\ pc' = [pc EXCEPT ![p] = "answered"]
    BY DEF Answered
<1>3. conn' = [conn EXCEPT ![p][Op(p).node] = IF "answered" = "wait" THEN <<cur[p]>> ELSE <<>>]
    OBVIOUS
<1> HIDE DEF a
<1> QED BY <1>1, <1>2, <1>3, WireKeeps

\* A request is written, and its answer is waited for.
LEMMA PendingKeeps ==
    ASSUME DriverInv, NEW p \in Client, pc[p] = "send", stage # "exited", Pending(p),
           live' \in [Client -> SUBSET Node],
           UNCHANGED <<driver, conf, stage, asked, belief, stopped, left, nextId, cur, hist,
                       werr, mismatch, exit>>
    PROVE  DriverInv'
<1>1. /\ DriverTyped /\ cur[p] \in Id /\ Op(p).node \in Node /\ conn[p][Op(p).node] = <<>>
    <2>1. DriverTyped /\ ClientOK(p) /\ cur[p] # 0
        BY DEF DriverInv, ClientOK
    <2>2. cur[p] \in Id
        BY <2>1, DriverFacts DEF DriverTyped, Id
    <2>3. Op(p).node \in Node
        BY <2>1, <2>2 DEF DriverTyped, Op, OpRecord
    <2> QED BY <2>1, <2>2, <2>3 DEF ClientOK
<1>2. conn' = [conn EXCEPT ![p][Op(p).node] = <<cur[p]>>]
    <2>1. Append(conn[p][Op(p).node], cur[p]) = <<cur[p]>>
        BY <1>1
    <2> QED BY <2>1 DEF Pending
<1>3. /\ op' = SetEff(cur[p], "limbo") /\ pc' = [pc EXCEPT ![p] = "wait"]
      /\ att' = [att EXCEPT ![p] = att[p]] /\ att[p] \in AttemptRecord
    BY <1>1 DEF Pending, DriverTyped
<1>4. conn' = [conn EXCEPT ![p][Op(p).node] = IF "wait" = "wait" THEN <<cur[p]>> ELSE <<>>]
    BY <1>2
<1> QED BY <1>3, <1>4, WireKeeps

\* The wire, and what comes of a request.
LEMMA OnTheWireKeeps ==
    ASSUME DriverInv, NEW p \in Client, OnTheWire(p)
    PROVE  DriverInv'
<1> DEFINE Frame == UNCHANGED <<driver, conf, stage, asked, belief, stopped, left, nextId, cur,
                                hist, werr, mismatch, exit>>
<1>0. DriverTyped /\ ClientOK(p) /\ stage # "exited" /\ Frame
    BY DEF DriverInv, OnTheWire
<1>1. pc[p] \in {"send", "wait"}
    BY DEF OnTheWire, RedisSend, HttpSend, GiveUp, Reply
<1>2. cur[p] \in Id /\ Op(p).node \in Node /\ OpOK(cur[p]) /\ op[cur[p]] \in OpRecord
    <2>1. cur[p] # 0
        BY <1>0, <1>1 DEF ClientOK
    <2>2. cur[p] \in Id
        BY <1>0, <2>1, DriverFacts DEF DriverTyped, Id
    <2> QED BY <1>0, <2>2 DEF DriverInv, DriverTyped, Op, OpRecord
<1>3. /\ live \in [Client -> SUBSET Node]
      /\ [live EXCEPT ![p] = @ \ {Op(p).node}] \in [Client -> SUBSET Node]
      /\ [live EXCEPT ![p] = @ \cup {Op(p).node}] \in [Client -> SUBSET Node]
    BY <1>0, <1>2 DEF DriverTyped
<1>4. op = SetEff(cur[p], op[cur[p]].eff) /\ op[cur[p]].eff \in {"none", "limbo", "applied", "refused"}
    <2>1. op = [op EXCEPT ![cur[p]].eff = op[cur[p]].eff]
        BY <1>0, <1>2 DEF DriverTyped, OpRecord
    <2>2. op[cur[p]].f = "read" => op[cur[p]].eff = "none"
        BY <1>2 DEF OpOK
    <2> QED BY <1>2, <2>1, <2>2 DEF SetEff, OpRecord
<1>5. pc[p] = "send" => /\ op[cur[p]].eff = "none"
                        /\ conn = [conn EXCEPT ![p][Op(p).node] = <<>>]
    <2>1. pc[p] = "send" => conn[p][Op(p).node] = <<>> /\ op[cur[p]].eff = "none"
        BY <1>0, <1>2 DEF ClientOK, Op
    <2> QED BY <1>0, <1>2, <2>1 DEF DriverTyped
<1>6. CASE RedisSend(p)
    <2>1. CASE /\ \E err \in {"refused", "timeout"} : Answered(p, [sent |-> FALSE, err |-> err])
               /\ UNCHANGED <<op, live, conn>>
        BY <1>0, <1>1, <1>3, <1>4, <1>5, <1>6, <2>1, AnsweredKeeps DEF RedisSend
    <2>2. CASE /\ Answered(p, [sent |-> TRUE, err |-> "lost"])
               /\ \E e \in {"none", "limbo"} : op' = SetEff(cur[p], e)
               /\ Drop(p)
        BY <1>0, <1>1, <1>3, <2>2, AnsweredKeeps DEF Drop
    <2>3. CASE Pending(p) /\ live' = [live EXCEPT ![p] = @ \cup {Op(p).node}]
        BY <1>0, <1>3, <1>6, <2>3, PendingKeeps DEF RedisSend
    <2> QED BY <1>6, <2>1, <2>2, <2>3 DEF RedisSend
<1>7. CASE HttpSend(p)
    <2>1. CASE /\ \E err \in {"refused", "timeout"} : Answered(p, [sent |-> FALSE, err |-> err])
               /\ UNCHANGED <<op, conn>> /\ UNCHANGED live
        BY <1>0, <1>1, <1>3, <1>4, <1>5, <1>7, <2>1, AnsweredKeeps DEF HttpSend
    <2>2. CASE /\ Answered(p, [sent |-> FALSE, err |-> "lost"])
               /\ \E e \in {"none", "limbo"} : op' = SetEff(cur[p], e)
               /\ UNCHANGED conn /\ UNCHANGED live
        BY <1>0, <1>1, <1>3, <1>5, <1>7, <2>2, AnsweredKeeps DEF HttpSend
    <2>3. CASE Pending(p) /\ UNCHANGED live
        BY <1>0, <1>3, <1>7, <2>3, PendingKeeps DEF HttpSend
    <2> QED BY <1>7, <2>1, <2>2, <2>3 DEF HttpSend
<1>8. CASE GiveUp(p)
    <2>1. \E s \in BOOLEAN : Answered(p, [sent |-> s, err |-> "lost"])
        BY <1>8 DEF GiveUp, RedisGivesUp, HttpGivesUp, EtcdGivesUp
    <2>2. Drop(p) /\ op' = op
        BY <1>8 DEF GiveUp, RedisGivesUp, HttpGivesUp, EtcdGivesUp
    <2> QED BY <1>0, <1>1, <1>3, <1>4, <2>1, <2>2, AnsweredKeeps DEF Drop
<1>9. CASE Reply(p)
    <2>1. pc[p] = "wait" /\ conn[p][Op(p).node] = <<cur[p]>>
        BY <1>0, <1>2, <1>9 DEF ClientOK, Reply
    <2>2. Head(conn[p][Op(p).node]) = cur[p] /\ Tail(conn[p][Op(p).node]) = <<>>
        BY <2>1
    <2>3. PICK r \in Replies(cur[p]) :
            /\ \E e \in Effects(r.kind) : op' = SetEff(cur[p], e)
            /\ att' = [att EXCEPT ![p] = [sent |-> TRUE, err |-> "none", kind |-> r.kind,
                                          of |-> cur[p], ver |-> r.ver, to |-> r.to]]
            /\ conn' = [conn EXCEPT ![p][Op(p).node] = <<>>]
        BY <1>9, <2>2, Zenon DEF Reply
    <2>4. pc' = [pc EXCEPT ![p] = "answered"] /\ live' = live
        BY <1>9 DEF Reply
    <2>5. PICK e \in Effects(r.kind) : op' = SetEff(cur[p], e)
        BY <2>3
    <2> DEFINE a == [sent |-> TRUE, err |-> "none", kind |-> r.kind, of |-> cur[p],
                     ver |-> r.ver, to |-> r.to]
    <2>6. /\ r.kind \in {"ok", "error", "odd", "refused"} /\ r.ver \in BOOLEAN
          /\ r.to \in Node \cup {-1} /\ (~r.ver => driver = "rqlite")
        BY DEF Replies
    <2>7. /\ e \in {"none", "limbo", "applied", "refused"}
          /\ r.kind = "ok" => e = "applied"
          /\ r.kind = "refused" => e = "refused"
        BY <2>6 DEF Effects
    <2>8. /\ a \in AttemptRecord /\ a.err = "none" /\ a.of = cur[p] /\ a.kind = r.kind
          /\ a.ver = r.ver
        BY <1>2, <2>6 DEF AttemptRecord, Id
    <2>9. att' = [att EXCEPT ![p] = a]
        BY <2>3
    <2>10. conn' = [conn EXCEPT ![p][Op(p).node] = IF "answered" = "wait" THEN <<cur[p]>> ELSE <<>>]
        BY <2>3
    <2> HIDE DEF a
    <2> QED BY <1>0, <1>1, <1>3, <2>4, <2>5, <2>6, <2>7, <2>8, <2>9, <2>10, WireKeeps
<1> QED BY <1>6, <1>7, <1>8, <1>9 DEF OnTheWire

\* The next operation of a driver's own workload is new.
LEMMA NextIsNew ==
    ASSUME DriverInv, conf.plan # "trace", left > 0
    PROVE  /\ nextId + 1 \in Id /\ op[nextId + 1] = NoOp /\ left - 1 \in Nat
           /\ (nextId + 1) + (left - 1) = Budget[driver]
<1>1. /\ nextId \in Nat /\ left \in Nat /\ nextId + left = Budget[driver] /\ Budget[driver] \in Nat
    BY DriverFacts DEF DriverInv, DriverTyped, ExitOK
<1>2. nextId + 1 \in 1 .. Budget[driver] /\ left - 1 \in Nat
    BY <1>1
<1>3. nextId + 1 \in Id
    BY <1>2 DEF Id
<1>4. op[nextId + 1] = NoOp
    BY <1>1, <1>3 DEF DriverInv, OpOK
<1> QED BY <1>1, <1>2, <1>3, <1>4

\* DriverInv is inductive.
LEMMA DriverInvInductive ==
    ASSUME DriverInv, [DriverNext]_driverVars
    PROVE  DriverInv'
<1>0. DriverTyped /\ ExitOK
    BY DEF DriverInv
<1>1. \A p \in Client : pc[p] = pc[p] /\ live[p] \in SUBSET Node
    BY <1>0 DEF DriverTyped
<1>2. CASE Start
    <2>1. stage' \in {"setup", "create", "exited"}
        BY <1>0, <1>2, DriverFacts DEF Start, RedisRun, RqliteRun, EtcdRun, ConsulRun
    <2>2. /\ exit' = IF stage' = "exited" THEN 2 ELSE exit
          /\ UNCHANGED <<driver, conf, left, nextId>> /\ stage = "start"
        BY <1>2 DEF Start
    <2>3. ExitOK'
        BY <1>0, <2>1, <2>2 DEF ExitOK
    <2> QED BY <1>0, <1>2, <2>1, <2>3, RestKeeps DEF Start, DriverTyped
<1>3. CASE Setup
    <2>1. PICK answer \in {"right", "wrong", "silent"} :
            /\ RedisSetup(answer) \/ ConsulSetup(answer) \/ RqliteSetup(answer)
            /\ stage' = IF answer = "wrong" THEN "exited" ELSE stage
            /\ exit' = IF answer = "wrong" THEN 1 ELSE exit
        BY <1>3 DEF Setup
    <2>2. asked' \in Nat /\ belief' \in Node
        BY <1>0, <2>1, DriverFacts
           DEF RedisSetup, RedisObserve, ConsulSetup, RqliteSetup, DriverTyped
    <2>3. stage' \in {"setup", "exited"} /\ exit' \in {-1, 0, 1, 2, 9}
        BY <1>0, <1>3, <2>1 DEF Setup, DriverTyped
    <2>4. ExitOK'
        BY <1>0, <1>3, <2>1, <2>3 DEF Setup, ExitOK
    <2> QED BY <1>0, <1>3, <2>2, <2>3, <2>4, RestKeeps DEF Setup, DriverTyped
<1>4. CASE SetupDone
    <2>1. ExitOK'
        BY <1>0, <1>4 DEF SetupDone, ExitOK
    <2> QED BY <1>0, <1>4, <2>1, RestKeeps DEF SetupDone, DriverTyped
<1>5. CASE SetupDeadline
    <2>1. ExitOK'
        BY <1>0, <1>5 DEF SetupDeadline, ExitOK
    <2> QED BY <1>0, <1>5, <2>1, RestKeeps DEF SetupDeadline, DriverTyped
<1>6. CASE Create
    <2>1. stage' \in {"load", "seed", "exited"} /\ exit' \in {-1, 0, 1, 2, 9}
        BY <1>0, <1>6 DEF Create, DriverTyped
    <2>2. ExitOK'
        BY <1>0, <1>6, <2>1 DEF Create, ExitOK
    <2> QED BY <1>0, <1>6, <2>1, <2>2, RestKeeps DEF Create, DriverTyped
<1>7. CASE Seed
    <2>1. conf.plan # "trace" /\ left > 0 /\ 0 \in Client /\ pc[0] = "idle" /\ stage # "exited"
        BY <1>0, <1>7, DriverFacts DEF Seed, ExitOK
    <2>2. /\ nextId + 1 \in Id /\ op[nextId + 1] = NoOp /\ left - 1 \in Nat
          /\ (nextId + 1) + (left - 1) = Budget[driver]
        BY <2>1, NextIsNew
    <2>3. PICK n \in Node, f \in {"read", "write"} : Issue(0, nextId + 1, f, n)
        BY <1>0, <1>7, <2>1, <2>2, DoIssues DEF Seed
    <2>4. nextId' = nextId + 1 /\ left' = left - 1 /\ nextId' \in Nat /\ nextId <= nextId'
        BY <1>0, <1>7 DEF Seed, DriverTyped
    <2>5. UNCHANGED <<driver, conf, stage, asked, belief, stopped, att, live, conn, mismatch, exit>>
        BY <1>7 DEF Seed
    <2> QED BY <1>0, <2>1, <2>2, <2>3, <2>4, <2>5, IssueKeeps DEF DriverTyped
<1>8. CASE Seeded
    <2>1. 0 \in Client /\ pc[0] = "idle"
        BY <1>0, <1>8, DriverFacts DEF Seeded
    <2>2. \A n \in Node : conn[0][n] = <<>>
        BY <2>1 DEF DriverInv, ClientOK
    <2>3. conn' = conn
        BY <1>0, <1>8, <2>1, <2>2 DEF Seeded, DriverTyped
    <2>4. live' \in [Client -> SUBSET Node]
        BY <1>0, <1>8 DEF Seeded, DriverTyped
    <2>5. ExitOK'
        BY <1>0, <1>8 DEF Seeded, ExitOK
    <2> QED BY <1>0, <1>8, <2>3, <2>4, <2>5, RestKeeps DEF Seeded, DriverTyped
<1>9. CASE Close
    <2>1. stage' = "exited" /\ exit' \in {0, 1}
        BY <1>9 DEF Close
    <2>2. exit' = 0 => werr = "none" /\ ~(driver = "rqlite" /\ mismatch)
        <3>1. PICK e \in {werr # "none"} \cup IF driver \in DiskFails THEN {TRUE} ELSE {} :
                exit' = IF e \/ (driver = "rqlite" /\ mismatch) THEN 1 ELSE 0
            BY <1>9 DEF Close
        <3>2. e = (werr # "none") \/ e = TRUE
            BY <3>1
        <3>3. exit' = 0 => ~e /\ ~(driver = "rqlite" /\ mismatch)
            BY <3>1
        <3> QED BY <3>2, <3>3
    <2>3. ExitOK'
        BY <1>0, <1>9, <2>1, <2>2 DEF Close, ExitOK
    <2> QED BY <1>0, <1>9, <2>1, <2>3, RestKeeps DEF Close, DriverTyped
<1>10. CASE WatchStdin
    <2>1. ExitOK'
        BY <1>0, <1>10 DEF WatchStdin, ExitOK
    <2> QED BY <1>0, <1>10, <2>1, RestKeeps DEF WatchStdin, DriverTyped
<1>11. CASE Killed
    <2>1. ExitOK'
        BY <1>0, <1>11 DEF Killed, ExitOK
    <2> QED BY <1>0, <1>11, <2>1, RestKeeps DEF Killed, DriverTyped
<1>12. ASSUME NEW p \in Client, ClientStep(p)
       PROVE  DriverInv'
    <2>1. CASE OnTheWire(p)
        BY <2>1, OnTheWireKeeps
    <2>2. CASE stage # "exited" /\ Complete(p)
        BY <2>2, CompleteKeeps
    <2>3. CASE stage # "exited" /\ Rediscover(p)
        <3>1. /\ pc' \in [Client -> {"idle", "send", "wait", "answered", "ask", "done"}]
              /\ pc[p] = "ask" /\ pc'[p] = "idle" /\ \A q \in Client \ {p} : pc'[q] = pc[q]
            BY <1>0, <2>3 DEF Rediscover, DriverTyped
        <3>2. ExitOK'
            BY <1>0, <2>3, <3>1 DEF Rediscover, ExitOK
        <3> QED BY <1>0, <2>3, <3>1, <3>2, RestKeeps DEF Rediscover, DriverTyped
    <2>4. CASE Loop(p)
        <3>1. conf.plan # "trace" /\ left > 0 /\ pc[p] = "idle" /\ stage # "exited"
            BY <2>4 DEF Loop
        <3>2. /\ nextId + 1 \in Id /\ op[nextId + 1] = NoOp /\ left - 1 \in Nat
              /\ (nextId + 1) + (left - 1) = Budget[driver]
            BY <3>1, NextIsNew
        <3>3. PICK n \in Node, f \in {"read", "write"} : Issue(p, nextId + 1, f, n)
            BY <1>0, <2>4, <3>2, DoIssues DEF Loop
        <3>4. nextId' = nextId + 1 /\ left' = left - 1 /\ nextId' \in Nat /\ nextId <= nextId'
            BY <1>0, <2>4 DEF Loop, DriverTyped
        <3>5. UNCHANGED <<driver, conf, stage, asked, belief, stopped, att, live, conn, mismatch, exit>>
            BY <2>4 DEF Loop
        <3> QED BY <1>0, <3>1, <3>2, <3>3, <3>4, <3>5, IssueKeeps DEF DriverTyped
    <2>5. CASE LoopEnds(p)
        <3>1. /\ pc' \in [Client -> {"idle", "send", "wait", "answered", "ask", "done"}]
              /\ pc[p] = "idle" /\ pc'[p] = "done" /\ \A q \in Client \ {p} : pc'[q] = pc[q]
            BY <1>0, <2>5 DEF LoopEnds, DriverTyped
        <3>2. ExitOK'
            BY <1>0, <2>5 DEF LoopEnds, ExitOK
        <3> QED BY <1>0, <2>5, <3>1, <3>2, RestKeeps DEF LoopEnds, DriverTyped
    <2>6. CASE RunPlan(p)
        <3>1. /\ stage = "load" /\ conf.plan = "trace" /\ pc[p] = "idle"
              /\ UNCHANGED <<driver, conf, stage, asked, belief, left, nextId, att, live, conn,
                             mismatch, exit>>
            BY <2>6 DEF RunPlan
        <3>2. CASE pc' = [pc EXCEPT ![p] = "done"] /\ UNCHANGED <<op, cur, hist, werr>>
                   /\ stopped' \in BOOLEAN
            <4>1. /\ pc' \in [Client -> {"idle", "send", "wait", "answered", "ask", "done"}]
                  /\ pc[p] = "idle" /\ pc'[p] = "done" /\ \A q \in Client \ {p} : pc'[q] = pc[q]
                BY <1>0, <3>1, <3>2 DEF DriverTyped
            <4>2. ExitOK'
                BY <1>0, <3>1, <3>2 DEF ExitOK
            <4> QED BY <1>0, <3>1, <3>2, <4>1, <4>2, RestKeeps DEF DriverTyped
        <3>3. CASE ~(stopped \/ Untried(p) = {})
            <4> DEFINE id == CHOOSE x \in Untried(p) : \A y \in Untried(p) : x <= y
            <4>1. Untried(p) \in SUBSET Nat /\ Untried(p) \subseteq Id
                BY <1>0, DriverFacts DEF Untried
            <4>2. id \in Untried(p)
                BY <3>3, <4>1, LeastOf
            <4>3. id \in Id /\ op[id] = NoOp
                BY <4>1, <4>2 DEF Untried
            <4>4. \/ /\ stopped' = TRUE /\ pc' = [pc EXCEPT ![p] = "done"]
                     /\ UNCHANGED <<op, cur, hist, werr>>
                  \/ (DoWrite(p, id) \/ DoRead(p, id)) /\ UNCHANGED stopped
                BY <2>6, <3>3 DEF RunPlan
            <4> HIDE DEF id
            <4>5. CASE (DoWrite(p, id) \/ DoRead(p, id)) /\ UNCHANGED stopped
                <5>1. PICK n \in Node, f \in {"read", "write"} : Issue(p, id, f, n)
                    BY <1>0, <4>3, <4>5, DoIssues
                <5>2. stopped' \in BOOLEAN /\ left' \in Nat /\ nextId' \in Nat /\ stage # "exited"
                    BY <1>0, <3>1, <4>5 DEF DriverTyped
                <5> QED BY <3>1, <4>3, <5>1, <5>2, IssueKeeps
            <4> QED BY <3>2, <4>4, <4>5
        <3>4. CASE stopped \/ Untried(p) = {}
            BY <1>0, <2>6, <3>2, <3>4 DEF RunPlan, DriverTyped
        <3> QED BY <3>3, <3>4
    <2> QED BY <1>12, <2>1, <2>2, <2>3, <2>4, <2>5, <2>6 DEF ClientStep
<1>13. CASE UNCHANGED driverVars
    <2>1. ExitOK'
        BY <1>0, <1>13 DEF driverVars, ExitOK
    <2> QED BY <1>0, <1>13, <2>1, RestKeeps DEF driverVars, DriverTyped
<1> QED BY <1>2, <1>3, <1>4, <1>5, <1>6, <1>7, <1>8, <1>9, <1>10, <1>11, <1>12, <1>13
       DEF DriverNext, Drive

\* A load generator is always in a state in which what it has recorded can still be
\* made whole: TargetDrivers with any number of nodes, clients, keys and operations.
THEOREM DriverIsInductive == DriverSpec => []DriverInv
<1>1. DriverInit => DriverInv
    BY DriverInitOK
<1>2. DriverInv /\ [DriverNext]_driverVars => DriverInv'
    BY DriverInvInductive
<1> QED BY <1>1, <1>2, PTL DEF DriverSpec

\* Every record of a driver's history is true, and its exit code says whether the
\* history is all of it.
THEOREM HistoryIsAlwaysTrue == DriverSpec => []HistoryIsTrue
<1>1. DriverInv => HistoryIsTrue
    BY DriverInvSuffices
<1> QED BY <1>1, DriverIsInductive, PTL

\* Only an answer from the node that is believed in moves the belief.
THEOREM BeliefMovesOnlyFromItself == DriverSpec => BeliefIsNotUndone
<1> DEFINE Moves == driver = "rqlite" /\ stage = "load" /\ belief' # belief
                    => \E p \in Client : pc[p] = "answered" /\ pc'[p] = "idle" /\ Op(p).node = belief
<1>1. DriverInv /\ [DriverNext]_driverVars => [Moves]_driverVars
    <2> SUFFICES ASSUME DriverInv, DriverNext, driver = "rqlite", stage = "load", belief' # belief
                 PROVE  \E p \in Client : pc[p] = "answered" /\ pc'[p] = "idle" /\ Op(p).node = belief
        BY DEF driverVars
    <2>1. ~(Start \/ Setup \/ SetupDone \/ Create \/ Seed \/ Seeded \/ Close \/ SetupDeadline
            \/ WatchStdin \/ Killed)
        BY DEF Start, Setup, SetupDone, Create, Seed, Seeded, Close, SetupDeadline, WatchStdin,
               Killed
    <2>2. PICK p \in Client : ClientStep(p)
        BY <2>1 DEF DriverNext, Drive
    <2>3. ~Rediscover(p)
        BY DEF Rediscover, DriverInv, ClientOK
    <2>4. Complete(p)
        BY <2>2, <2>3 DEF ClientStep, OnTheWire, Loop, LoopEnds, RunPlan
    <2>5. pc[p] = "answered" /\ pc' = [pc EXCEPT ![p] = "idle"]
        BY <2>4 DEF Complete
    <2>6. pc'[p] = "idle"
        BY <2>5 DEF DriverInv, DriverTyped
    <2>7. Op(p).node = belief
        BY <2>4 DEF Complete, RqliteBelief
    <2> QED BY <2>5, <2>6, <2>7
<1> QED BY <1>1, DriverIsInductive, PTL DEF DriverSpec, BeliefIsNotUndone

------------------------------------------------------------------------------
(* The probes                                                              *)

ViewRecord ==
    [ok : {"yes", "silent", "odd"}, leads : BOOLEAN, names : Member \cup {Nobody}, term : Nat]

ProbeTyped ==
    /\ probe \in Probes
    /\ want \in {"leader", "follower", "steady", "named", "minority", "majority", "any"}
    /\ want \notin {"leader", "follower"} => (want = "steady" <=> probe # "status")
    /\ group \in SUBSET Member /\ bound \in SUBSET Member
    /\ winner \in Seq(Member) /\ Latest > 0 /\ since \in 1 .. Latest
    /\ term \in [Member -> 1 .. Latest] /\ names \in [Member -> Member \cup {Nobody}]
    /\ master \in [Member -> BOOLEAN]
    /\ view \in [DOMAIN view -> ViewRecord] /\ DOMAIN view \subseteq Question
    /\ phase \in {"start", "asking", "done"}
    /\ outcome \in {"none", "bound", "refused", "steady", "unsteady"}

\* A member that names a leader names the winner of its own term, and the winner of a
\* term is never behind it; the latest redis master knows, and so does some Sentinel.
ClusterOK ==
    /\ \A x \in Member : names[x] # Nobody => names[x] = winner[term[x]]
    /\ probe # "redis" => \A k \in 1 .. Latest : term[winner[k]] >= k
    /\ probe = "redis" => /\ master[winner[Latest]] /\ \E x \in Member : term[x] = Latest
                          /\ \A x \in Member : names[x] # Nobody

\* Who was in office since an attempt began.
ReignsOK == reigns = {winner[k] : k \in since .. Latest}

\* Who knew that the leader of `since` was deposed was asked after it, or said so.
Knows(x) ==
    /\ term[x] > since
    /\ Said(x + Members) => view[x + Members].term > since

\* What was answered was true of the member that was asked, and still says who led.
ViewOK ==
    /\ \A q \in Question : Said(q) =>
         /\ view[q].term \in 1 .. term[Of(q)]
         /\ view[q].names # Nobody => view[q].names = winner[view[q].term]
         /\ IF probe = "redis" THEN view[q].names # Nobody
              ELSE /\ view[q].leads <=> view[q].names = q
                   /\ q = winner[since] => view[q].term >= since
    /\ probe = "redis" =>
         /\ \A q \in DOMAIN view : \A r \in Question : r < q => r \in DOMAIN view
         /\ \A q \in DOMAIN view : q \in Member => view[q].ok # "odd"
         /\ Said(winner[since]) /\ ~view[winner[since]].leads => \E x \in Member : Knows(x)

ProbeInv ==
    /\ ProbeTyped /\ ClusterOK
    /\ phase = "start" => outcome = "none" /\ bound = {}
    /\ phase = "asking" => outcome = "none" /\ bound = {} /\ ReignsOK /\ ViewOK
    /\ phase = "asking" => want \in Live
    /\ TargetsAreAsNamed

LEMMA ModMembers ==
    ASSUME NEW M \in Nat \ {0}, NEW q \in 0 .. M - 1
    PROVE  q % M = q /\ (q + M) % M = q
OBVIOUS

\* Which question is put to whom.
LEMMA ProbeFacts ==
    /\ Members \in Nat \ {0} /\ Member \subseteq Nat /\ Nobody \notin Member /\ Servers = Member
    /\ \A q \in Question : Of(q) \in Member /\ q \in Nat
    /\ \A x \in Member : x \in Question /\ Of(x) = x
    /\ probe # "redis" => Question = Member
    /\ probe = "redis" => \A x \in Member : /\ x + Members \in Question \ Servers
                                            /\ Of(x + Members) = x
<1>1. Members \in Nat \ {0}
    BY ClusterProbesAssumption
<1>2. Member \subseteq Nat /\ Nobody \notin Member /\ Servers = Member
    BY <1>1 DEF Member, Nobody, Servers
<1>3. \A x \in Member : Of(x) = x /\ Of(x + Members) = x
    BY <1>1, ModMembers DEF Of, Member
<1>4. CASE probe = "redis"
    <2>1. Question = 0 .. 2 * Members - 1
        BY <1>4 DEF Question
    <2>2. \A q \in Question : q \in Member \/ \E x \in Member : q = x + Members
        <3> SUFFICES ASSUME NEW q \in Question, q \notin Member
                     PROVE  \E x \in Member : q = x + Members
            OBVIOUS
        <3>1. q \in Int /\ q >= Members /\ q <= 2 * Members - 1
            BY <1>1, <2>1 DEF Member
        <3>2. q - Members \in Member /\ q = (q - Members) + Members
            BY <1>1, <3>1 DEF Member
        <3> QED BY <3>2
    <2>3. \A q \in Question : Of(q) \in Member /\ q \in Nat
        BY <1>3, <2>1, <2>2
    <2>4. \A x \in Member : x \in Question /\ x + Members \in Question \ Servers
        BY <1>1, <2>1 DEF Member, Servers
    <2> QED BY <1>1, <1>2, <1>3, <1>4, <2>3, <2>4
<1>5. CASE probe # "redis"
    <2>1. Question = Member
        BY <1>5 DEF Question, Member
    <2> QED BY <1>1, <1>2, <1>3, <1>5, <2>1
<1> QED BY <1>4, <1>5

\* ProbeInv holds at the start.
LEMMA ProbeInitOK ==
    ASSUME ProbeInit
    PROVE  ProbeInv
<1>1. 0 \in Member /\ Nobody \notin Member
    BY ProbeFacts DEF Member
<1>2. winner = <<0>> /\ Latest = 1 /\ winner[1] = 0 /\ winner \in Seq(Member)
    BY <1>1 DEF ProbeInit, Latest
<1>3. DOMAIN view = {}
    BY EmptyDomain DEF ProbeInit
<1>4. ProbeTyped
    <2>1. term \in [Member -> 1 .. Latest] /\ since \in 1 .. Latest
        BY <1>2 DEF ProbeInit
    <2>2. view \in [DOMAIN view -> ViewRecord] /\ DOMAIN view \subseteq Question
        BY <1>3 DEF ProbeInit
    <2>3. want \notin {"leader", "follower"} => (want = "steady" <=> probe # "status")
        BY DEF ProbeInit
    <2>4. want \in {"leader", "follower", "steady", "named", "minority", "majority", "any"}
        BY DEF ProbeInit
    <2>5. group \in SUBSET Member
        BY DEF ProbeInit
    <2> QED BY <1>1, <1>2, <2>1, <2>2, <2>3, <2>4, <2>5 DEF ProbeInit, ProbeTyped
<1>5. ClusterOK
    <2>1. \A x \in Member : term[x] = 1 /\ names[x] = 0 /\ winner[1] = 0 /\ (master[x] <=> x = 0)
        BY <1>2 DEF ProbeInit
    <2>2. \A k \in 1 .. Latest : k = 1
        BY <1>2
    <2>3. \A x \in Member : names[x] # Nobody /\ names[x] = winner[term[x]]
        BY <1>1, <2>1
    <2>4. \A k \in 1 .. Latest : term[winner[k]] >= k
        BY <1>1, <2>1, <2>2
    <2> QED BY <1>1, <1>2, <2>1, <2>3, <2>4 DEF ClusterOK
<1>6. TargetsAreAsNamed
    BY DEF ProbeInit, TargetsAreAsNamed
<1> QED BY <1>4, <1>5, <1>6 DEF ProbeInit, ProbeInv

\* The cluster moves: terms only grow and who won them stands.
LEMMA MovesKeep ==
    ASSUME ProbeTyped, ClusterOK, ClusterMoves
    PROVE  /\ ProbeTyped' /\ ClusterOK'
           /\ \A x \in Member : term'[x] >= term[x]
           /\ Latest' >= Latest /\ \A k \in 1 .. Latest : winner'[k] = winner[k]
           /\ reigns' = reigns \cup {winner'[k] : k \in Latest + 1 .. Latest'}
           /\ UNCHANGED <<probe, want, group, phase, attempt, view, since, bound, outcome>>
<1>0. /\ UNCHANGED <<probe, want, group, phase, attempt, view, since, bound, outcome>>
      /\ Question' = Question
    BY DEF ClusterMoves, Question
<1>1. PICK m \in Member : Elect(m) \/ ((Hears(m) \/ StepsDown(m)) /\ UNCHANGED <<winner, reigns>>)
    BY DEF ClusterMoves
<1>2. /\ winner \in Seq(Member) /\ Latest \in Nat /\ Latest > 0 /\ since \in 1 .. Latest
      /\ term \in [Member -> 1 .. Latest] /\ names \in [Member -> Member \cup {Nobody}]
      /\ master \in [Member -> BOOLEAN]
      /\ \A k \in 1 .. Latest : winner[k] \in Member
      /\ \A x \in Member : term[x] \in Nat /\ 1 <= term[x] /\ term[x] <= Latest
    <2>1. /\ winner \in Seq(Member) /\ Latest \in Nat /\ Latest > 0 /\ since \in 1 .. Latest
          /\ term \in [Member -> 1 .. Latest] /\ names \in [Member -> Member \cup {Nobody}]
          /\ master \in [Member -> BOOLEAN]
        BY DEF ProbeTyped, Latest
    <2>2. \A x \in Member : term[x] \in 1 .. Latest
        BY <2>1
    <2> QED BY <2>1, <2>2 DEF Latest
<1>3. CASE Elect(m)
    <2>1. /\ winner' \in Seq(Member) /\ Latest' = Latest + 1 /\ winner'[Latest + 1] = m
          /\ \A k \in 1 .. Latest : winner'[k] = winner[k]
        BY <1>2, <1>3 DEF Elect, Latest
    <2>2. reigns' = reigns \cup {winner'[k] : k \in Latest + 1 .. Latest'}
        <3>1. reigns' = reigns \cup {m}
            BY <1>3 DEF Elect
        <3>2. Latest + 1 .. Latest' = {Latest + 1}
            BY <1>2, <2>1
        <3>3. {winner'[k] : k \in {Latest + 1}} = {m}
            BY <2>1
        <3> QED BY <3>1, <3>2, <3>3
    <2>3. since' \in 1 .. Latest' /\ Latest' > 0
        BY <1>0, <1>2, <2>1
    <2>4. CASE probe = "redis"
        <3>1. PICK s \in Member : /\ names' = [names EXCEPT ![s] = m]
                                  /\ term' = [term EXCEPT ![s] = Latest + 1]
            BY <1>3, <2>4 DEF Elect
        <3>2. master' = [master EXCEPT ![m] = TRUE]
            BY <1>3, <2>4 DEF Elect
        <3>3. /\ names' \in [Member -> Member \cup {Nobody}] /\ names'[s] = m
              /\ \A x \in Member \ {s} : names'[x] = names[x]
              /\ term'[s] = Latest + 1 /\ \A x \in Member \ {s} : term'[x] = term[x]
              /\ master' \in [Member -> BOOLEAN] /\ master'[m]
            BY <1>2, <3>1, <3>2
        <3>4. term' \in [Member -> 1 .. Latest']
            BY <1>2, <2>1, <3>1
        <3>5. ProbeTyped'
            BY <1>0, <2>1, <2>3, <3>3, <3>4 DEF ProbeTyped
        <3>6. \A x \in Member : names'[x] # Nobody /\ names'[x] = winner'[term'[x]]
            <4> SUFFICES ASSUME NEW x \in Member
                         PROVE  names'[x] # Nobody /\ names'[x] = winner'[term'[x]]
                OBVIOUS
            <4>1. CASE x = s
                BY <2>1, <3>3, <4>1, ProbeFacts
            <4>2. CASE x # s
                <5>1. names[x] # Nobody /\ names[x] = winner[term[x]] /\ term[x] \in 1 .. Latest
                    BY <1>2, <2>4 DEF ClusterOK
                <5> QED BY <2>1, <3>3, <4>2, <5>1
            <4> QED BY <4>1, <4>2
        <3>7. ClusterOK'
            BY <1>0, <2>1, <2>4, <3>3, <3>6 DEF ClusterOK
        <3>8. \A x \in Member : term'[x] >= term[x]
            <4> SUFFICES ASSUME NEW x \in Member PROVE term'[x] >= term[x]
                OBVIOUS
            <4>1. CASE x = s
                BY <1>2, <3>3, <4>1
            <4>2. CASE x # s
                BY <1>2, <3>3, <4>2
            <4> QED BY <4>1, <4>2
        <3> QED BY <1>0, <1>2, <2>1, <2>2, <3>5, <3>7, <3>8
    <2>5. CASE probe # "redis"
        <3>1. PICK S \in SUBSET Member :
                /\ m \in S
                /\ term' = [x \in Member |-> IF x \in S THEN Latest + 1 ELSE term[x]]
                /\ names' = [x \in Member |-> CASE x = m -> m [] x \in S \ {m} -> Nobody
                                                [] OTHER -> names[x]]
            BY <1>3, <2>5 DEF Elect
        <3>2. master' = master
            BY <1>3, <2>5 DEF Elect
        <3>3. \A x \in Member : /\ x = m => names'[x] = m
                                /\ x \in S \ {m} => names'[x] = Nobody
                                /\ x \notin S => names'[x] = names[x]
                                /\ term'[x] = IF x \in S THEN Latest + 1 ELSE term[x]
            BY <3>1
        <3>4. names' \in [Member -> Member \cup {Nobody}] /\ term' \in [Member -> 1 .. Latest']
            BY <1>2, <2>1, <3>1
        <3>5. ProbeTyped'
            BY <1>0, <1>2, <2>1, <2>3, <3>2, <3>4 DEF ProbeTyped
        <3>6. \A x \in Member : term'[x] >= term[x]
            BY <1>2, <3>3
        <3>7. \A x \in Member : names'[x] # Nobody => names'[x] = winner'[term'[x]]
            <4> SUFFICES ASSUME NEW x \in Member, names'[x] # Nobody
                         PROVE  names'[x] = winner'[term'[x]]
                OBVIOUS
            <4>1. CASE x = m
                BY <2>1, <3>1, <3>3, <4>1
            <4>2. CASE x # m
                <5>1. x \notin S /\ names'[x] = names[x] /\ term'[x] = term[x]
                    BY <3>3, <4>2
                <5>2. names[x] = winner[term[x]] /\ term[x] \in 1 .. Latest
                    BY <1>2, <5>1 DEF ClusterOK
                <5> QED BY <2>1, <5>1, <5>2
            <4> QED BY <4>1, <4>2
        <3>8. \A k \in 1 .. Latest' : term'[winner'[k]] >= k
            <4> SUFFICES ASSUME NEW k \in 1 .. Latest' PROVE term'[winner'[k]] >= k
                OBVIOUS
            <4>1. CASE k \in 1 .. Latest
                <5>1. term[winner[k]] >= k /\ winner'[k] = winner[k] /\ winner[k] \in Member
                    BY <1>2, <2>1, <2>5, <4>1 DEF ClusterOK
                <5>2. term[winner[k]] \in Nat /\ term'[winner[k]] \in Nat /\ k \in Nat
                    BY <1>2, <2>1, <3>4, <5>1
                <5> QED BY <3>6, <5>1, <5>2
            <4>2. CASE k = Latest + 1
                BY <1>2, <2>1, <3>1, <3>3, <4>2
            <4> QED BY <1>2, <2>1, <4>1, <4>2
        <3>9. ClusterOK'
            BY <1>0, <2>5, <3>7, <3>8 DEF ClusterOK
        <3> QED BY <1>0, <1>2, <2>1, <2>2, <3>5, <3>6, <3>9
    <2> QED BY <2>4, <2>5
<1>4. ASSUME UNCHANGED <<winner, reigns>>
      PROVE  /\ Latest' = Latest /\ since' \in 1 .. Latest'
             /\ reigns' = reigns \cup {winner'[k] : k \in Latest + 1 .. Latest'}
    <2>1. Latest' = Latest
        BY <1>4 DEF Latest
    <2>2. Latest + 1 .. Latest' = {}
        BY <1>2, <2>1
    <2> QED BY <1>0, <1>2, <1>4, <2>1, <2>2
<1>5. CASE Hears(m) /\ UNCHANGED <<winner, reigns>>
    <2>1. CASE /\ master' = master
               /\ \E t \in term[m] .. Latest :
                    /\ term' = [term EXCEPT ![m] = t]
                    /\ names' = [names EXCEPT ![m] = winner[t]]
        <3>1. PICK t \in term[m] .. Latest : /\ term' = [term EXCEPT ![m] = t]
                                             /\ names' = [names EXCEPT ![m] = winner[t]]
            BY <2>1
        <3>2. t \in 1 .. Latest /\ t >= term[m] /\ winner[t] \in Member
            BY <1>2
        <3>3. /\ term' \in [Member -> 1 .. Latest] /\ names' \in [Member -> Member \cup {Nobody}]
              /\ term'[m] = t /\ names'[m] = winner[t]
              /\ \A x \in Member \ {m} : term'[x] = term[x] /\ names'[x] = names[x]
            BY <1>2, <3>1, <3>2
        <3>4. \A x \in Member : term'[x] >= term[x] /\ term[x] \in Nat /\ term'[x] \in Nat
            <4> SUFFICES ASSUME NEW x \in Member
                         PROVE  term'[x] >= term[x] /\ term[x] \in Nat /\ term'[x] \in Nat
                OBVIOUS
            <4>1. CASE x = m
                BY <1>2, <3>2, <3>3, <4>1
            <4>2. CASE x # m
                BY <1>2, <3>3, <4>2
            <4> QED BY <4>1, <4>2
        <3>5. ProbeTyped'
            BY <1>0, <1>4, <1>5, <2>1, <3>3 DEF ProbeTyped
        <3>6. \A x \in Member : names'[x] # Nobody => names'[x] = winner'[term'[x]]
            BY <1>5, <3>3 DEF ClusterOK
        <3>7. probe # "redis" => \A k \in 1 .. Latest : term'[winner[k]] >= k
            <4> SUFFICES ASSUME probe # "redis", NEW k \in 1 .. Latest
                         PROVE  term'[winner[k]] >= k
                OBVIOUS
            <4>1. term[winner[k]] >= k /\ winner[k] \in Member /\ k \in Nat
                BY <1>2 DEF ClusterOK
            <4> QED BY <3>4, <4>1
        <3>8. probe = "redis" => /\ master[winner[Latest]] /\ \E x \in Member : term'[x] = Latest
                                 /\ \A x \in Member : names'[x] # Nobody
            <4> SUFFICES ASSUME probe = "redis"
                         PROVE  /\ master[winner[Latest]] /\ \E x \in Member : term'[x] = Latest
                                /\ \A x \in Member : names'[x] # Nobody
                OBVIOUS
            <4>1. PICK x \in Member : term[x] = Latest
                BY DEF ClusterOK
            <4>2. term'[x] = Latest
                BY <1>2, <3>3, <3>4, <4>1
            <4> QED BY <3>2, <3>3, <4>2, ProbeFacts DEF ClusterOK
        <3>9. ClusterOK'
            BY <1>0, <1>4, <1>5, <2>1, <3>6, <3>7, <3>8 DEF ClusterOK
        <3> QED BY <1>0, <1>2, <1>4, <1>5, <3>4, <3>5, <3>9
    <2>2. CASE /\ probe = "redis" /\ winner[Latest] # m
               /\ master' = [master EXCEPT ![m] = FALSE] /\ UNCHANGED <<term, names>>
        <3>1. master' \in [Member -> BOOLEAN] /\ \A x \in Member \ {m} : master'[x] = master[x]
            BY <1>2, <2>2
        <3>2. winner[Latest] \in Member
            BY <1>2
        <3>3. ProbeTyped'
            BY <1>0, <1>2, <1>4, <1>5, <2>2, <3>1 DEF ProbeTyped
        <3>4. ClusterOK'
            BY <1>0, <1>4, <1>5, <2>2, <3>1, <3>2 DEF ClusterOK
        <3>5. \A x \in Member : term'[x] >= term[x]
            BY <1>2, <2>2
        <3> QED BY <1>0, <1>2, <1>4, <1>5, <3>3, <3>4, <3>5
    <2> QED BY <1>5, <2>1, <2>2 DEF Hears
<1>6. CASE StepsDown(m) /\ UNCHANGED <<winner, reigns>>
    <2>1. /\ probe # "redis" /\ UNCHANGED <<term, master>>
          /\ names' \in [Member -> Member \cup {Nobody}] /\ names'[m] = Nobody
          /\ \A x \in Member \ {m} : names'[x] = names[x]
        BY <1>2, <1>6 DEF StepsDown
    <2>2. ProbeTyped'
        BY <1>0, <1>2, <1>4, <1>6, <2>1 DEF ProbeTyped
    <2>3. ClusterOK'
        BY <1>0, <1>4, <1>6, <2>1 DEF ClusterOK
    <2>4. \A x \in Member : term'[x] >= term[x]
        BY <1>2, <2>1
    <2> QED BY <1>0, <1>2, <1>4, <1>6, <2>2, <2>3, <2>4
<1> QED BY <1>1, <1>3, <1>5, <1>6

\* What was answered stays true while the cluster moves.
LEMMA MovesKeepView ==
    ASSUME ProbeTyped, ClusterOK, ClusterMoves, ReignsOK, ViewOK
    PROVE  ReignsOK' /\ ViewOK'
<1>1. /\ \A x \in Member : term'[x] >= term[x]
      /\ Latest' >= Latest /\ \A k \in 1 .. Latest : winner'[k] = winner[k]
      /\ reigns' = reigns \cup {winner'[k] : k \in Latest + 1 .. Latest'}
      /\ UNCHANGED <<probe, want, group, phase, attempt, view, since, bound, outcome>>
      /\ ProbeTyped'
    BY MovesKeep
<1>2. /\ Latest \in Nat /\ Latest' \in Nat /\ since \in 1 .. Latest
      /\ \A x \in Member : term[x] \in 1 .. Latest /\ term'[x] \in 1 .. Latest'
    <2>1. /\ Latest \in Nat /\ Latest' \in Nat /\ since \in 1 .. Latest
          /\ term \in [Member -> 1 .. Latest] /\ term' \in [Member -> 1 .. Latest']
        <3>1. winner \in Seq(Member) /\ winner' \in Seq(Member)
            BY <1>1 DEF ProbeTyped
        <3>2. Latest \in Nat /\ Latest' \in Nat
            BY <3>1 DEF Latest
        <3> QED BY <1>1, <3>2 DEF ProbeTyped
    <2> QED BY <2>1
<1>3. Question' = Question /\ (\A q \in Question : Said(q)' <=> Said(q)) /\ view' = view
    BY <1>1 DEF Question, Said
<1>4. ReignsOK'
    <2>1. since .. Latest' = (since .. Latest) \cup (Latest + 1 .. Latest')
        BY <1>1, <1>2
    <2>2. {winner'[k] : k \in since .. Latest} = {winner[k] : k \in since .. Latest}
        <3>1. \A k \in since .. Latest : winner'[k] = winner[k]
            BY <1>1, <1>2
        <3> QED BY <3>1
    <2>3. {winner'[k] : k \in since .. Latest'}
            = {winner'[k] : k \in since .. Latest} \cup {winner'[k] : k \in Latest + 1 .. Latest'}
        BY <2>1
    <2>4. reigns' = {winner'[k] : k \in since .. Latest'}
        BY <1>1, <2>2, <2>3 DEF ReignsOK
    <2> QED BY <1>1, <2>4 DEF ReignsOK
<1>5. winner'[since] = winner[since]
    BY <1>1, <1>2
<1>6. ASSUME NEW q \in Question, Said(q)
      PROVE  /\ view[q].term \in 1 .. term'[Of(q)]
             /\ view[q].names # Nobody => view[q].names = winner'[view[q].term]
             /\ IF probe = "redis" THEN view[q].names # Nobody
                  ELSE /\ view[q].leads <=> view[q].names = q
                       /\ q = winner'[since] => view[q].term >= since
    <2>1. /\ view[q].term \in 1 .. term[Of(q)]
          /\ view[q].names # Nobody => view[q].names = winner[view[q].term]
          /\ IF probe = "redis" THEN view[q].names # Nobody
               ELSE /\ view[q].leads <=> view[q].names = q
                    /\ q = winner[since] => view[q].term >= since
        BY <1>6 DEF ViewOK
    <2>2. Of(q) \in Member
        BY ProbeFacts
    <2>3. view[q].term \in 1 .. Latest /\ view[q].term \in 1 .. term'[Of(q)]
        BY <1>1, <1>2, <2>1, <2>2
    <2> QED BY <1>1, <1>5, <2>1, <2>3
<1>7. ASSUME probe = "redis"
      PROVE  /\ \A q \in DOMAIN view : \A r \in Question : r < q => r \in DOMAIN view
             /\ \A q \in DOMAIN view : q \in Member => view[q].ok # "odd"
             /\ Said(winner[since]) /\ ~view[winner[since]].leads => \E x \in Member : Knows(x)'
    <2>1. ASSUME NEW x \in Member, Knows(x) PROVE Knows(x)'
        <3>1. x + Members \in Question
            BY <1>7, ProbeFacts
        <3>2. term'[x] > since
            BY <1>1, <1>2, <2>1 DEF Knows
        <3> QED BY <1>1, <1>3, <2>1, <3>1, <3>2 DEF Knows
    <2> QED BY <1>7, <2>1 DEF ViewOK
<1>8. winner[since] \in Question
    <2>1. winner[since] \in Member
        BY <1>2 DEF ProbeTyped, Latest
    <2> QED BY <2>1, ProbeFacts
<1>9. Of(0)' = Of(0) /\ \A q : Of(q)' = Of(q)
    BY DEF Of
<1> QED BY <1>1, <1>3, <1>4, <1>5, <1>6, <1>7, <1>8, <1>9 DEF ViewOK

\* The lowest question not asked.
LEMMA LeastUnasked ==
    ASSUME Unasked # {}
    PROVE  Min(Unasked) \in Unasked /\ \A r \in Unasked : Min(Unasked) <= r
<1>1. Unasked \in SUBSET Nat
    BY ProbeFacts DEF Unasked
<1> QED BY <1>1, LeastOf DEF Min

\* One more member is asked.
LEMMA AskKeeps ==
    ASSUME ProbeTyped, ClusterOK, ViewOK, Ask
    PROVE  ProbeTyped' /\ ViewOK'
<1>0. /\ UNCHANGED <<probe, want, group, term, names, master, winner, phase, attempt, since,
                     reigns, bound, outcome>>
      /\ Question' = Question /\ Latest' = Latest
    BY DEF Ask, Question, Latest
<1>1. PICK q \in NextAsked : \E a \in Answers(q) :
        view' = [i \in DOMAIN view \cup {q} |-> IF i = q THEN a ELSE view[i]]
    BY DEF Ask
<1>2. PICK a \in Answers(q) : view' = [i \in DOMAIN view \cup {q} |-> IF i = q THEN a ELSE view[i]]
    BY <1>1
<1>3. /\ q \in Question /\ q \notin DOMAIN view
      /\ probe = "redis" => \A r \in Question : r < q => r \in DOMAIN view
    <2>1. Unasked # {}
        BY DEF Ask
    <2>2. q \in Unasked /\ (probe = "redis" => q = Min(Unasked))
        BY <2>1, LeastUnasked DEF NextAsked
    <2>3. \A r \in Unasked : r \in Nat /\ q \in Nat
        BY <2>2, ProbeFacts DEF Unasked
    <2>4. probe = "redis" => \A r \in Unasked : ~(r < q)
        BY <2>1, <2>2, <2>3, LeastUnasked
    <2> QED BY <2>2, <2>4 DEF Unasked
<1> DEFINE x == Of(q)
           said == [ok |-> "yes", leads |-> IF probe = "redis" THEN master[x] ELSE names[x] = x,
                    names |-> names[x], term |-> term[x]]
<1>4. /\ x \in Member /\ Latest \in Nat /\ term[x] \in 1 .. Latest /\ since \in 1 .. Latest
      /\ names[x] \in Member \cup {Nobody} /\ master[x] \in BOOLEAN
      /\ \A k \in 1 .. Latest : winner[k] \in Member
    <2>1. x \in Member
        BY <1>3, ProbeFacts
    <2>2. /\ Latest \in Nat /\ since \in 1 .. Latest /\ winner \in Seq(Member)
          /\ term \in [Member -> 1 .. Latest] /\ names \in [Member -> Member \cup {Nobody}]
          /\ master \in [Member -> BOOLEAN]
        BY DEF ProbeTyped, Latest
    <2>3. \A k \in 1 .. Latest : winner[k] \in Member
        BY <2>2 DEF Latest
    <2> HIDE DEF x
    <2> QED BY <2>1, <2>2, <2>3
<1>5. a \in ViewRecord /\ (a.ok = "yes" => a = said)
    <2>1. Silent \in ViewRecord /\ Silent.ok # "yes" /\ Odd \in ViewRecord /\ Odd.ok # "yes"
        BY DEF Silent, Odd, ViewRecord
    <2>2. said \in ViewRecord
        <3>1. term[x] \in Nat
            BY <1>4
        <3>2. CASE probe = "redis"
            <4>1. said = [ok |-> "yes", leads |-> master[x], names |-> names[x], term |-> term[x]]
                BY <3>2
            <4> QED BY <1>4, <3>1, <4>1 DEF ViewRecord
        <3>3. CASE probe # "redis"
            <4>1. said = [ok |-> "yes", leads |-> names[x] = x, names |-> names[x], term |-> term[x]]
                BY <3>3
            <4> QED BY <1>4, <3>1, <4>1 DEF ViewRecord
        <3> QED BY <3>2, <3>3
    <2>3. a \in {Silent, said, Odd}
        BY <1>2 DEF Answers
    <2> QED BY <2>1, <2>2, <2>3
<1>6. /\ DOMAIN view' = DOMAIN view \cup {q} /\ view'[q] = a
      /\ \A i \in DOMAIN view : view'[i] = view[i]
    BY <1>2, <1>3
<1>7. ProbeTyped'
    <2>1. view' \in [DOMAIN view' -> ViewRecord]
        BY <1>2, <1>5, <1>6 DEF ProbeTyped
    <2>2. DOMAIN view' \subseteq Question'
        BY <1>0, <1>3, <1>6 DEF ProbeTyped
    <2> QED BY <1>0, <2>1, <2>2 DEF ProbeTyped, ViewRecord
<1>8. \A r \in Question : r # q => (Said(r)' <=> Said(r)) /\ (Said(r) => view'[r] = view[r])
    BY <1>6 DEF Said
<1>9. Said(q)' => a = said /\ view'[q] = said
    BY <1>5, <1>6 DEF Said
<1>10. winner[since] \in Member /\ winner[since] \in Question
    BY <1>4, ProbeFacts
<1>11. ASSUME NEW r \in Question, Said(r)'
       PROVE  /\ view'[r].term \in 1 .. term[Of(r)]
              /\ view'[r].names # Nobody => view'[r].names = winner[view'[r].term]
              /\ IF probe = "redis" THEN view'[r].names # Nobody
                   ELSE /\ view'[r].leads <=> view'[r].names = r
                        /\ r = winner[since] => view'[r].term >= since
    <2>1. CASE r = q
        <3>1. view'[r] = said
            BY <1>9, <1>11, <2>1
        <3>5. view'[r].term = term[x] /\ view'[r].names = names[x]
            BY <3>1
        <3>6. probe # "redis" => (view'[r].leads <=> names[x] = x)
            <4>1. view'[r].leads = IF probe = "redis" THEN master[x] ELSE names[x] = x
                <5>1. said.leads = IF probe = "redis" THEN master[x] ELSE names[x] = x
                    BY Zenon
                <5> HIDE DEF said
                <5> QED BY <3>1, <5>1, Zenon
            <4> QED BY <4>1
        <3>2. term[x] \in 1 .. term[Of(r)]
            BY <1>4, <2>1
        <3>3. probe # "redis" => x = r
            BY <2>1, ProbeFacts
        <3>4. probe # "redis" /\ r = winner[since] => term[x] >= since
            BY <1>4, <3>3 DEF ClusterOK
        <3> QED BY <1>4, <3>2, <3>3, <3>4, <3>5, <3>6 DEF ClusterOK
    <2>2. CASE r # q
        BY <1>8, <1>11, <2>2 DEF ViewOK
    <2> QED BY <2>1, <2>2
<1>12. ASSUME probe = "redis"
       PROVE  \A i \in DOMAIN view' : \A r \in Question : r < i => r \in DOMAIN view'
    BY <1>3, <1>6, <1>12 DEF ViewOK
<1>16. ASSUME probe = "redis", NEW i \in DOMAIN view', i \in Member
       PROVE  view'[i].ok # "odd"
    <2>1. CASE i = q
        <3>1. ~(q >= Members)
            BY <1>16, <2>1, ProbeFacts DEF Member
        <3>2. a \in {Silent, said}
            BY <1>2, <1>16, <3>1 DEF Answers
        <3>3. Silent.ok # "odd" /\ said.ok # "odd"
            BY DEF Silent
        <3> HIDE DEF said
        <3> QED BY <1>6, <2>1, <3>2, <3>3
    <2>2. CASE i # q
        BY <1>6, <1>16, <2>2 DEF ViewOK
    <2> QED BY <2>1, <2>2
<1>13. ASSUME probe = "redis", NEW w \in Member, w = winner[since], Said(w)', ~view'[w].leads
       PROVE  \E y \in Member : Knows(y)'
    <2>1. CASE w = q
        <3>1. ~master[w]
            BY <1>9, <1>10, <1>13, <2>1, ProbeFacts
        <3>2. since < Latest
            BY <1>4, <1>13, <3>1 DEF ClusterOK
        <3>3. PICK y \in Member : term[y] = Latest
            BY <1>13 DEF ClusterOK
        <3>4. y + Members \in Question /\ q < y + Members
            BY <1>10, <1>13, <2>1, ProbeFacts DEF Member
        <3>5. y + Members \notin DOMAIN view /\ y + Members # q
            <4>1. y + Members \in DOMAIN view => q \in DOMAIN view
                BY <1>3, <1>13, <3>4 DEF ViewOK
            <4>2. y + Members # q
                BY <3>4, <1>3, ProbeFacts
            <4> QED BY <1>3, <4>1, <4>2
        <3>6. ~Said(y + Members)'
            BY <1>6, <3>5 DEF Said
        <3>7. term'[y] > since'
            BY <1>0, <1>4, <3>2, <3>3
        <3> QED BY <3>6, <3>7 DEF Knows
    <2>2. CASE w # q
        <3>1. Said(w) /\ ~view[w].leads
            BY <1>8, <1>10, <1>13, <2>2
        <3>2. PICK y \in Member : Knows(y)
            BY <1>13, <3>1 DEF ViewOK
        <3>3. y + Members \in Question /\ Of(y + Members) = y
            BY <1>13, ProbeFacts
        <3>4. Said(y + Members)' => view'[y + Members].term > since
            <4>1. CASE y + Members = q
                BY <1>9, <3>2, <3>3, <4>1 DEF Knows
            <4>2. CASE y + Members # q
                BY <1>8, <3>2, <3>3, <4>2 DEF Knows
            <4> QED BY <4>1, <4>2
        <3>5. Knows(y)'
            BY <1>0, <3>2, <3>4 DEF Knows
        <3> QED BY <3>5
    <2> QED BY <2>1, <2>2
<1>14. \A r : Of(r)' = Of(r)
    BY DEF Of
<1>15. /\ probe = "redis" /\ Said(winner[since])' /\ ~view'[winner[since]].leads
         => \E y \in Member : Knows(y)'
    BY <1>0, <1>10, <1>13 DEF Said
<1> QED BY <1>0, <1>7, <1>11, <1>12, <1>14, <1>15, <1>16 DEF ViewOK

LEMMA LineMeans ==
    ASSUME NEW x, NEW l
    PROVE  /\ Line(x, l).role = "leader" => Said(x) /\ x = l
           /\ Line(x, l).role = "follower" => Said(x) /\ x # l
<1>1. CASE ~Said(x)
    BY <1>1 DEF Line, Unobserved
<1>2. CASE Said(x) /\ x = l
    BY <1>2 DEF Line
<1>3. CASE Said(x) /\ x # l
    BY <1>3 DEF Line
<1> QED BY <1>1, <1>2, <1>3

LEMMA OneNamed ==
    ASSUME NEW S \in SUBSET (Member \cup {Nobody}), Cardinality(S) = 1
    PROVE  \E l \in Member \cup {Nobody} : S = {l} /\ (CHOOSE x \in S : TRUE) = l
<1>1. IsFiniteSet(-1 .. Members - 1) /\ Member \cup {Nobody} \subseteq -1 .. Members - 1
    <2>1. Members \in Nat /\ -1 \in Int /\ Members - 1 \in Int
        BY ProbeFacts
    <2>2. IsFiniteSet(-1 .. Members - 1)
        BY <2>1, FS_Interval
    <2> QED BY <2>1, <2>2 DEF Member, Nobody
<1>2. IsFiniteSet(S)
    BY <1>1, FS_Subset
<1>3. PICK l : S = {l}
    BY <1>2, FS_Singleton
<1> QED BY <1>3

\* What it means that those who answered agree.
LEMMA AgreeMeans ==
    ASSUME ProbeTyped, Agree # Nobody
    PROVE  /\ Agree \in Member /\ \E q \in Question : Said(q)
           /\ \A q \in Question : view[q].ok # "odd" /\ (Said(q) => view[q].names = Agree)
<1> DEFINE heard == {view[q].names : q \in {r \in Question : Said(r)}}
<1>1. /\ ~\E q \in Question : view[q].ok = "odd"
      /\ Cardinality(heard) = 1 /\ Agree = CHOOSE l \in heard : TRUE
    BY DEF Agree
<1>2. heard \in SUBSET (Member \cup {Nobody})
    BY DEF Said, ProbeTyped, ViewRecord
<1> HIDE DEF heard
<1>3. PICK l \in Member \cup {Nobody} : heard = {l} /\ Agree = l
    BY <1>1, <1>2, OneNamed
<1>4. \A q \in Question : Said(q) => view[q].names = l
    BY <1>3 DEF heard
<1>5. \E q \in Question : Said(q)
    BY <1>3 DEF heard
<1> QED BY <1>1, <1>3, <1>4, <1>5

\* What it means that the Sentinels agree, and the servers with them.
LEMMA RedisAgreeMeans ==
    ASSUME ProbeTyped, RedisAgree # Nobody
    PROVE  /\ RedisAgree \in Member
           /\ \A q \in Sentinels : view[q].ok # "odd" /\ (Said(q) => view[q].names = RedisAgree)
           /\ \A x \in Member : Said(x) /\ view[x].leads <=> x = RedisAgree
<1> DEFINE named == {view[q].names : q \in {r \in Sentinels : Said(r)}}
           masters == {x \in Servers : Said(x) /\ view[x].leads}
<1>1. /\ ~\E q \in Sentinels : view[q].ok = "odd"
      /\ Cardinality(named) = 1 /\ masters = named /\ RedisAgree = CHOOSE l \in named : TRUE
    BY DEF RedisAgree
<1>2. named \in SUBSET (Member \cup {Nobody})
    BY DEF Said, ProbeTyped, ViewRecord
<1> HIDE DEF named, masters
<1>3. PICK l \in Member \cup {Nobody} : named = {l} /\ RedisAgree = l
    BY <1>1, <1>2, OneNamed
<1>4. \A q \in Sentinels : Said(q) => view[q].names = l
    BY <1>3 DEF named
<1>5. \A x \in Member : Said(x) /\ view[x].leads <=> x = l
    BY <1>1, <1>3, ProbeFacts DEF masters
<1>6. l \in Member
    BY <1>3
<1> QED BY <1>1, <1>3, <1>4, <1>5, <1>6

\* A member that says it leads was the leader of its term.
LEMMA LeadersWon ==
    ASSUME ProbeTyped, ReignsOK, ViewOK, probe # "redis", NEW q \in Question, Said(q),
           NEW l \in Member, view[q].names = l
    PROVE  /\ view[q].term \in Nat /\ l = winner[view[q].term]
           /\ view[q].term >= since => l \in reigns
<1>1. /\ Of(q) \in Member /\ l # Nobody /\ since \in Nat
    BY ProbeFacts DEF ProbeTyped
<1>2. view[q].term \in 1 .. term[Of(q)] /\ l = winner[view[q].term]
    BY <1>1 DEF ViewOK
<1>3. term \in [Member -> 1 .. Latest] /\ Latest \in Nat
    BY DEF ProbeTyped, Latest
<1>4. term[Of(q)] \in 1 .. Latest
    BY <1>1, <1>3
<1>5. view[q].term \in 1 .. Latest
    BY <1>2, <1>3, <1>4
<1>6. view[q].term >= since => view[q].term \in since .. Latest
    BY <1>1, <1>3, <1>5
<1> QED BY <1>2, <1>5, <1>6 DEF ReignsOK

\* Whom `role:` targets are bound to.
LEMMA RolesAreTrue ==
    ASSUME ProbeTyped, ReignsOK, ViewOK, want \in {"leader", "follower"}, ~Refuses,
           NEW B, B = MatchRole(ObserveRoles), B # {}
    PROVE  /\ B \in SUBSET Member
           /\ \A b \in B : Said(b) /\ (view[b].leads <=> want = "leader")
           /\ want = "leader" =>
                /\ \E b \in B : B = {b}
                /\ \A b \in B : \/ b \in reigns
                                \/ ~Said(winner[since]) \/ ~view[winner[since]].leads
<1> DEFINE obs == ObserveRoles
           w == winner[since]
<1>1. /\ B = {x \in Member : /\ obs[x].role = want
                             /\ \A y \in Member : obs[y].role = want => obs[y].term <= obs[x].term}
    BY DEF MatchRole
<1>2. probe \in {"status", "etcd", "rqlite", "consul", "redis"}
    BY ClusterProbesAssumption DEF ProbeTyped
<1>3. w \in Member /\ since \in Nat /\ Member \subseteq Question
    <2>1. winner \in Seq(Member) /\ since \in 1 .. Len(winner)
        BY DEF ProbeTyped, Latest
    <2> QED BY <2>1, ProbeFacts
<1>4. CASE probe \in {"status", "etcd"}
    <2>1. \A x \in Member : Said(x) => (view[x].leads <=> view[x].names = x)
        BY <1>3, <1>4 DEF ViewOK
    <2>2. ASSUME NEW x \in Member
          PROVE  /\ obs[x].role = "leader" => Said(x) /\ view[x].leads
                 /\ obs[x].role = "follower" => Said(x) /\ ~view[x].leads
                 /\ Said(x) => obs[x].term = view[x].term \/ ~view[x].leads
                 /\ Said(x) /\ view[x].leads => obs[x].role = "leader"
        <3>0. Said(x) => (view[x].leads <=> view[x].names = x) /\ view[x].leads \in BOOLEAN
            BY <1>3, <2>1 DEF ProbeTyped, ViewRecord, Said
        <3>1. CASE probe = "status"
            <4>1. obs[x] = StatusRole(x)
                BY <3>1 DEF ObserveRoles
            <4>2. ~Said(x) => obs[x].role = "unobserved"
                BY <4>1 DEF StatusRole, Unobserved
            <4>3. Said(x) => obs[x].term = view[x].term
                BY <4>1 DEF StatusRole
            <4>4. Said(x) /\ view[x].leads => obs[x].role = "leader"
                BY <3>0, <4>1, ProbeFacts DEF StatusRole
            <4>5. Said(x) /\ ~view[x].leads => obs[x].role \in {"candidate", "follower"}
                BY <3>0, <4>1 DEF StatusRole
            <4> QED BY <4>2, <4>3, <4>4, <4>5
        <3>2. CASE probe = "etcd"
            <4>1. obs[x] = EtcdRole(x)
                BY <3>2 DEF ObserveRoles
            <4>2. ~Said(x) \/ view[x].names = Nobody => obs[x].role = "unobserved"
                BY <4>1 DEF EtcdRole, Unobserved
            <4>3. Said(x) /\ view[x].names # Nobody =>
                    /\ obs[x].term = view[x].term
                    /\ obs[x].role = IF view[x].leads THEN "leader" ELSE "follower"
                BY <4>1 DEF EtcdRole
            <4> QED BY <3>0, <4>2, <4>3, ProbeFacts
        <3> QED BY <1>4, <3>1, <3>2
    <2>3. \A b \in B : Said(b) /\ (view[b].leads <=> want = "leader")
        BY <1>1, <2>2
    <2>4. ASSUME want = "leader", NEW b \in B
          PROVE  /\ B = {b}
                 /\ b \in reigns \/ ~Said(w) \/ ~view[w].leads
        <3>1. \A c \in B : /\ Said(c) /\ view[c].names = c /\ c \in Member
                           /\ obs[c].term = view[c].term
                           /\ \A y \in Member : obs[y].role = "leader" => obs[y].term <= obs[c].term
            BY <1>1, <2>1, <2>2, <2>4
        <3>2. \A c \in B : /\ view[c].term \in Nat /\ c = winner[view[c].term]
                           /\ view[c].term >= since => c \in reigns
            BY <1>3, <1>4, <3>1, LeadersWon
        <3>3. \A c \in B : obs[c].role = "leader"
            BY <1>1, <2>4
        <3>4. ASSUME NEW c \in B PROVE c = b
            <4>1. view[c].term <= view[b].term /\ view[b].term <= view[c].term
                BY <3>1, <3>3
            <4>2. view[c].term = view[b].term
                BY <3>2, <4>1
            <4> QED BY <3>2, <4>2
        <3>5. ASSUME Said(w), view[w].leads PROVE view[b].term >= since
            <4>1. obs[w].role = "leader" /\ obs[w].term = view[w].term /\ view[w].names = w
                BY <1>3, <2>1, <2>2, <3>5
            <4>2. view[w].term >= since
                BY <1>3, <1>4, <3>5 DEF ViewOK
            <4>3. view[w].term <= view[b].term
                BY <1>3, <3>1, <4>1
            <4>4. view[w].term \in Nat
                BY <1>3, <1>4, <3>5, <4>1, LeadersWon
            <4> QED BY <1>3, <3>2, <4>2, <4>3, <4>4
        <3> QED BY <2>4, <3>2, <3>4, <3>5
    <2> QED BY <1>1, <2>3, <2>4
<1>5. CASE probe \in {"rqlite", "consul"}
    <2> DEFINE l == Agree
    <2>1. l # Nobody
        BY <1>5 DEF Refuses
    <2>2. l \in Member /\ \A q \in Question : Said(q) => view[q].names = l
        BY <2>1, AgreeMeans
    <2>3. \A x \in Member : obs[x] = Line(x, l)
        BY <1>5 DEF ObserveRoles, RqliteRole, ConsulRole
    <2> HIDE DEF l
    <2>4. \A x \in Member : Said(x) => (view[x].leads <=> x = l)
        BY <1>3, <1>5, <2>2 DEF ViewOK
    <2>5. \A x \in Member : /\ obs[x].role = "leader" => Said(x) /\ x = l
                            /\ obs[x].role = "follower" => Said(x) /\ x # l
        BY <2>3, LineMeans
    <2>6. \A b \in B : Said(b) /\ (view[b].leads <=> want = "leader")
        BY <1>1, <2>4, <2>5
    <2>7. want = "leader" => \A b \in B : b = l
        BY <1>1, <2>5
    <2>8. Said(w) /\ view[w].leads => w = l
        BY <1>3, <2>4
    <2>9. w \in reigns
        <3>1. winner \in Seq(Member) /\ since \in since .. Latest
            BY DEF ProbeTyped, Latest
        <3> QED BY <3>1 DEF ReignsOK
    <2> QED BY <1>1, <2>6, <2>7, <2>8, <2>9
<1>6. CASE probe = "redis"
    <2> DEFINE l == RedisAgree
    <2>1. l # Nobody
        BY <1>6 DEF Refuses
    <2>2. l \in Member /\ \A x \in Member : Said(x) /\ view[x].leads <=> x = l
        BY <2>1, RedisAgreeMeans
    <2>3. \A x \in Member : obs[x] = Line(x, l)
        BY <1>6 DEF ObserveRoles, RedisRole
    <2> HIDE DEF l
    <2>5. \A x \in Member : /\ obs[x].role = "leader" => Said(x) /\ x = l
                            /\ obs[x].role = "follower" => Said(x) /\ x # l
        BY <2>3, LineMeans
    <2>6. \A b \in B : Said(b) /\ (view[b].leads <=> want = "leader")
        BY <1>1, <2>2, <2>5
    <2>7. want = "leader" => \A b \in B : b = l
        BY <1>1, <2>5
    <2>8. Said(w) /\ view[w].leads => w = l
        BY <1>3, <2>2
    <2>9. w \in reigns
        <3>1. winner \in Seq(Member) /\ since \in since .. Latest
            BY DEF ProbeTyped, Latest
        <3> QED BY <3>1 DEF ReignsOK
    <2> QED BY <1>1, <2>6, <2>7, <2>8, <2>9
<1> QED BY <1>2, <1>4, <1>5, <1>6

\* What a minority and a majority of a group are.
LEMMA QuorumsAreTrue ==
    ASSUME ProbeTyped, NEW arg, NEW B,
           LET k == QuorumSize(Cardinality(group), arg)
           IN k \in 1 .. Cardinality(group) /\ B \in kSubset(k, group)
    PROVE  /\ B \in SUBSET Member /\ B # {}
           /\ want = "minority" => 2 * Cardinality(B) < Cardinality(group)
           /\ want = "majority" =>
                Cardinality(B) = Min({n \in 1 .. Members : 2 * n > Cardinality(group)})
<1> DEFINE n == Cardinality(group)
           k == QuorumSize(n, arg)
<1>1. Members \in Nat \ {0} /\ group \in SUBSET (0 .. Members - 1)
    BY ProbeFacts DEF ProbeTyped, Member
<1>2. IsFiniteSet(0 .. Members - 1) /\ Cardinality(0 .. Members - 1) = Members
    BY <1>1, FS_Interval
<1>3. IsFiniteSet(group) /\ n \in Nat /\ n <= Members
    BY <1>1, <1>2, FS_Subset, FS_CardinalityType
<1>4. /\ k \in 1 .. n /\ B \in SUBSET group /\ Cardinality(B) = k
    BY DEF kSubset
<1>5. B # {}
    BY <1>3, <1>4, FS_EmptySet
<1> HIDE DEF n
<1>6. want = "minority" => 2 * k < n
    BY <1>3, <1>4 DEF QuorumSize
<1>7. want = "majority" => k = Min({i \in 1 .. Members : 2 * i > n})
    <2> SUFFICES ASSUME want = "majority"
                 PROVE  k = Min({i \in 1 .. Members : 2 * i > n})
        OBVIOUS
    <2> DEFINE S == {i \in 1 .. Members : 2 * i > n}
    <2>1. k = n \div 2 + 1
        BY DEF QuorumSize
    <2>2. k \in S /\ \A i \in S : k <= i
        BY <1>1, <1>3, <1>4, <2>1
    <2>3. \A i \in S : (\A j \in S : i <= j) => i = k
        <3>1. \A i \in S : i \in Nat
            OBVIOUS
        <3> HIDE DEF S
        <3> QED BY <2>2, <3>1
    <2> HIDE DEF S
    <2>4. Min(S) = k
        BY <2>2, <2>3 DEF Min
    <2> QED BY <2>4 DEF S
<1> QED BY <1>1, <1>4, <1>5, <1>6, <1>7 DEF ProbeTyped, n

\* The leader of a steady cluster was in office during the attempt.
LEMMA SteadyIsTrue ==
    ASSUME ProbeTyped, ReignsOK, ViewOK, want = "steady", Unasked = {}, Check
    PROVE  Leader \in reigns /\ Leader \in Member /\ \A q \in Question : Said(q)
<1> DEFINE w == winner[since]
<1>1. probe \in {"etcd", "rqlite", "consul", "redis"}
    BY ClusterProbesAssumption DEF ProbeTyped
<1>2. /\ DOMAIN view = Question /\ \A q \in Question : view[q] \in ViewRecord
      /\ \A q \in Question : view[q].ok \in {"yes", "silent", "odd"}
    BY DEF Unasked, ProbeTyped, ViewRecord
<1>3. w \in Member /\ w \in Question /\ w \in reigns /\ since \in Nat
    <2>1. winner \in Seq(Member) /\ since \in 1 .. Len(winner) /\ since \in since .. Latest
        BY DEF ProbeTyped, Latest
    <2>2. w \in Member /\ since \in Nat
        BY <2>1
    <2>3. w \in reigns
        BY <2>1 DEF ReignsOK
    <2> QED BY <2>2, <2>3, ProbeFacts
<1>4. CASE probe = "etcd"
    <2>1. PICK l \in Member, t \in 1 .. MaxTerm :
            \A q \in Question : Said(q) /\ view[q].names = l /\ view[q].term = t
        BY <1>4 DEF Check, EtcdCheck
    <2>2. view[w].term >= since
        BY <1>3, <1>4, <2>1 DEF ViewOK
    <2>3. l \in reigns
        BY <1>3, <1>4, <2>1, <2>2, LeadersWon
    <2>4. Leader = l
        <3>1. 0 \in Question
            BY ProbeFacts DEF Member
        <3> QED BY <1>4, <2>1, <3>1 DEF Leader
    <2> QED BY <2>1, <2>3, <2>4
<1>5. CASE probe \in {"rqlite", "consul"}
    <2>1. ~Missing(Question) /\ Agree # Nobody
        BY <1>5 DEF Check, RqliteCheck, ConsulCheck
    <2>2. /\ Agree \in Member
          /\ \A q \in Question : view[q].ok # "odd" /\ (Said(q) => view[q].names = Agree)
        BY <2>1, AgreeMeans
    <2>3. \A q \in Question : Said(q)
        BY <1>2, <2>1, <2>2 DEF Missing, Said
    <2>4. view[w].term >= since
        BY <1>3, <1>5, <2>3 DEF ViewOK
    <2>5. Agree \in reigns
        BY <1>3, <1>5, <2>2, <2>3, <2>4, LeadersWon
    <2>6. Leader = Agree
        BY <1>5 DEF Leader
    <2> QED BY <2>2, <2>3, <2>5, <2>6
<1>6. CASE probe = "redis"
    <2> DEFINE l == RedisAgree
    <2>1. ~Missing(Question) /\ l # Nobody
        BY <1>6 DEF Check, RedisCheck
    <2>2. /\ l \in Member
          /\ \A q \in Sentinels : view[q].ok # "odd" /\ (Said(q) => view[q].names = l)
          /\ \A x \in Member : Said(x) /\ view[x].leads <=> x = l
        BY <2>1, RedisAgreeMeans
    <2>3. Leader = l
        BY <1>6 DEF Leader
    <2> HIDE DEF l
    <2>4. ASSUME NEW q \in Question PROVE Said(q)
        <3>1. CASE q \in Sentinels
            BY <1>2, <2>1, <2>2, <3>1 DEF Missing, Said
        <3>2. CASE q \notin Sentinels
            <4>1. q \in Member /\ q \in DOMAIN view
                BY <1>2, <3>2, ProbeFacts DEF Sentinels
            <4>2. view[q].ok # "silent"
                BY <2>1, <4>1 DEF Missing
            <4>3. view[q].ok # "odd"
                BY <1>6, <4>1 DEF ViewOK
            <4> QED BY <1>2, <4>1, <4>2, <4>3 DEF Said
        <3> QED BY <3>1, <3>2
    <2>5. CASE view[w].leads
        BY <1>3, <2>2, <2>3, <2>4, <2>5
    <2>6. CASE ~view[w].leads
        <3>1. PICK x \in Member : Knows(x)
            BY <1>3, <1>6, <2>4, <2>6 DEF ViewOK
        <3>2. x + Members \in Question /\ x + Members \in Sentinels
            BY <1>6, ProbeFacts DEF Sentinels
        <3> DEFINE q == x + Members
        <3> HIDE DEF q
        <3>3. view[q].names = l /\ view[q].term > since /\ q \in Question
            BY <2>2, <2>4, <3>1, <3>2 DEF Knows, q
        <3>4. l = winner[view[q].term] /\ view[q].term \in 1 .. term[Of(q)] /\ Of(q) \in Member
            BY <1>6, <2>4, <3>3, ProbeFacts DEF ViewOK
        <3>5. term \in [Member -> 1 .. Latest] /\ Latest \in Nat
            BY DEF ProbeTyped, Latest
        <3>6. term[Of(q)] \in 1 .. Latest
            BY <3>4, <3>5
        <3>7. view[q].term \in since .. Latest
            BY <1>3, <3>3, <3>4, <3>5, <3>6
        <3>8. l \in reigns
            BY <3>4, <3>7 DEF ReignsOK
        <3> QED BY <2>2, <2>3, <2>4, <3>8
    <2> QED BY <2>5, <2>6
<1> QED BY <1>1, <1>4, <1>5, <1>6

\* How a resolution or a wait ends.
LEMMA DoneKeeps ==
    ASSUME ProbeInv, phase' = "done", bound' \in SUBSET Member,
           outcome' \in {"bound", "refused", "steady", "unsteady"},
           UNCHANGED <<probe, want, group, term, names, master, winner, view, since, reigns>>,
           TargetsAreAsNamed'
    PROVE  ProbeInv'
<1>1. ProbeTyped'
    BY DEF ProbeInv, ProbeTyped, Latest, Question, ViewRecord
<1>2. ClusterOK'
    BY DEF ProbeInv, ClusterOK, Latest
<1> QED BY <1>1, <1>2 DEF ProbeInv

\* One more attempt, or the end of them.
LEMMA RetryKeeps ==
    ASSUME ProbeInv, phase # "done", Retry,
           UNCHANGED <<probe, want, group, term, names, master, winner, view, since, reigns>>
    PROVE  ProbeInv'
<1>0. ProbeTyped /\ ClusterOK /\ outcome = "none" /\ bound = {}
    BY DEF ProbeInv, ProbeTyped
<1>1. CASE phase' = "done"
    <2>1. outcome' = "unsteady" /\ bound' = {}
        BY <1>0, <1>1 DEF Retry
    <2>2. TargetsAreAsNamed'
        BY <2>1 DEF TargetsAreAsNamed
    <2> QED BY <1>1, <2>1, <2>2, DoneKeeps
<1>2. CASE phase' = "start"
    <2>1. outcome' = "none" /\ bound' = {}
        BY <1>0, <1>2 DEF Retry
    <2>2. ProbeTyped'
        BY <1>0, <1>2, <2>1 DEF ProbeTyped, Latest, Question, ViewRecord
    <2>3. ClusterOK'
        BY <1>0 DEF ClusterOK, Latest
    <2>4. TargetsAreAsNamed'
        BY <2>1 DEF TargetsAreAsNamed
    <2> QED BY <1>2, <2>1, <2>2, <2>3, <2>4 DEF ProbeInv
<1> QED BY <1>1, <1>2 DEF Retry

\* ProbeInv is inductive.
LEMMA ProbeInvInductive ==
    ASSUME ProbeInv, [ProbeNext]_probeVars
    PROVE  ProbeInv'
<1>0. ProbeTyped /\ ClusterOK
    BY DEF ProbeInv
<1>1. CASE Begin
    <2>1. /\ UNCHANGED <<probe, want, group, term, names, master, winner, attempt, bound, outcome>>
          /\ want \in Live /\ phase' = "asking" /\ view' = <<>> /\ since' = Latest
          /\ reigns' = {winner[Latest]} /\ phase = "start"
        BY <1>1 DEF Begin
    <2>2. DOMAIN view' = {}
        BY <2>1, EmptyDomain
    <2>3. winner \in Seq(Member) /\ Latest \in Nat /\ Latest > 0 /\ Latest' = Latest
        BY <1>0, <2>1 DEF ProbeTyped, Latest
    <2>4. ProbeTyped'
        <3>1. view' \in [DOMAIN view' -> ViewRecord] /\ DOMAIN view' \subseteq Question'
            BY <2>2
        <3>2. since' \in 1 .. Latest'
            BY <2>1, <2>3
        <3> QED BY <1>0, <2>1, <2>3, <3>1, <3>2 DEF ProbeTyped, ViewRecord
    <2>5. ClusterOK'
        BY <1>0, <2>1, <2>3 DEF ClusterOK
    <2>6. ReignsOK'
        <3>1. Latest .. Latest = {Latest}
            BY <2>3
        <3>2. {winner[k] : k \in Latest .. Latest} = {winner[Latest]}
            BY <3>1
        <3> QED BY <2>1, <2>3, <3>2 DEF ReignsOK
    <2>7. ViewOK'
        BY <2>2 DEF ViewOK, Said
    <2>8. outcome' = "none" /\ bound' = {} /\ want' \in Live
        BY <2>1 DEF ProbeInv, Live
    <2>9. TargetsAreAsNamed'
        BY <2>8 DEF TargetsAreAsNamed
    <2> QED BY <2>1, <2>4, <2>5, <2>6, <2>7, <2>8, <2>9 DEF ProbeInv
<1>2. CASE Ask
    <2>1. phase = "asking" /\ outcome = "none" /\ bound = {} /\ ReignsOK /\ ViewOK /\ want \in Live
        BY <1>2 DEF ProbeInv, Ask
    <2>2. /\ UNCHANGED <<probe, want, group, term, names, master, winner, phase, attempt, since,
                         reigns, bound, outcome>>
        BY <1>2 DEF Ask
    <2>3. ProbeTyped' /\ ViewOK'
        BY <1>0, <1>2, <2>1, AskKeeps
    <2>4. ClusterOK' /\ ReignsOK'
        BY <1>0, <2>1, <2>2 DEF ClusterOK, ReignsOK, Latest
    <2>5. TargetsAreAsNamed'
        BY <2>1, <2>2 DEF TargetsAreAsNamed
    <2> QED BY <2>1, <2>2, <2>3, <2>4, <2>5 DEF ProbeInv, Live
<1>3. CASE ResolveRole
    <2> DEFINE B == IF Refuses THEN {} ELSE MatchRole(ObserveRoles)
    <2>1. /\ phase = "asking" /\ want \in {"leader", "follower"} /\ Conclude(B)
          /\ ReignsOK /\ ViewOK
        BY <1>3 DEF ResolveRole, ProbeInv
    <2>2. B # {} => /\ B \in SUBSET Member
                    /\ \A b \in B : Said(b) /\ (view[b].leads <=> want = "leader")
                    /\ want = "leader" =>
                         /\ \E b \in B : B = {b}
                         /\ \A b \in B : \/ b \in reigns
                                         \/ ~Said(winner[since]) \/ ~view[winner[since]].leads
        BY <1>0, <2>1, RolesAreTrue
    <2> HIDE DEF B
    <2>3. /\ phase' = "done" /\ bound' = B /\ outcome' = IF B = {} THEN "refused" ELSE "bound"
          /\ UNCHANGED <<probe, want, group, term, names, master, winner, attempt, view, since,
                         reigns>>
        BY <2>1 DEF Conclude
    <2>4. (\A q : Said(q)' <=> Said(q)) /\ Question' = Question
        BY <2>3 DEF Said, Question
    <2>5. want = "leader" /\ B # {} => Cardinality(B) = 1
        BY <2>2, FS_Singleton
    <2>6. TargetsAreAsNamed'
        BY <2>1, <2>2, <2>3, <2>4, <2>5 DEF TargetsAreAsNamed
    <2>7. bound' \in SUBSET Member /\ outcome' \in {"bound", "refused"}
        BY <2>2, <2>3
    <2> QED BY <2>3, <2>6, <2>7, DoneKeeps
<1>4. CASE ResolveStatic
    <2>1. /\ phase = "start" /\ want \in {"named", "minority", "majority", "any"}
        BY <1>0, <1>4 DEF ResolveStatic, Live, ProbeTyped
    <2>2. PICK B : /\ Conclude(B)
                   /\ \/ B = {} \/ (want = "named" /\ B = group)
                      \/ \E arg : LET k == QuorumSize(Cardinality(group), arg)
                                  IN k \in 1 .. Cardinality(group) /\ B \in kSubset(k, group)
        <3>1. CASE want = "named"
            BY <1>4, <3>1 DEF ResolveStatic
        <3>2. CASE want # "named"
            <4>1. PICK arg \in 1 .. Members :
                    LET k == QuorumSize(Cardinality(group), arg) IN
                    IF k \in 1 .. Cardinality(group)
                      THEN \E picked \in kSubset(k, group) : Conclude(picked)
                      ELSE Conclude({})
                BY <1>4, <3>2 DEF ResolveStatic
            <4> DEFINE k == QuorumSize(Cardinality(group), arg)
            <4>2. CASE k \in 1 .. Cardinality(group)
                <5>1. PICK picked \in kSubset(k, group) : Conclude(picked)
                    BY <4>1, <4>2
                <5> QED BY <4>2, <5>1
            <4>3. CASE k \notin 1 .. Cardinality(group)
                BY <4>1, <4>3
            <4> QED BY <4>2, <4>3
        <3> QED BY <3>1, <3>2
    <2>3. /\ phase' = "done" /\ bound' = B /\ outcome' = IF B = {} THEN "refused" ELSE "bound"
          /\ UNCHANGED <<probe, want, group, term, names, master, winner, attempt, view, since,
                         reigns>>
        BY <2>2 DEF Conclude
    <2>4. /\ B \in SUBSET Member
          /\ B # {} => /\ want = "minority" => 2 * Cardinality(B) < Cardinality(group)
                       /\ want = "majority" =>
                            Cardinality(B) = Min({n \in 1 .. Members : 2 * n > Cardinality(group)})
        <3>1. CASE B = {} \/ (want = "named" /\ B = group)
            BY <1>0, <3>1 DEF ProbeTyped
        <3>2. CASE \E arg : LET k == QuorumSize(Cardinality(group), arg)
                            IN k \in 1 .. Cardinality(group) /\ B \in kSubset(k, group)
            BY <1>0, <3>2, QuorumsAreTrue
        <3> QED BY <2>2, <3>1, <3>2
    <2>5. TargetsAreAsNamed'
        BY <2>1, <2>3, <2>4 DEF TargetsAreAsNamed
    <2>6. outcome' \in {"bound", "refused"}
        BY <2>3
    <2> QED BY <2>3, <2>4, <2>5, <2>6, DoneKeeps
<1>5. CASE JudgeSteady
    <2>1. /\ phase = "asking" /\ want = "steady" /\ Unasked = {} /\ ReignsOK /\ ViewOK
          /\ UNCHANGED <<probe, want, group, term, names, master, winner, view, since, reigns>>
        BY <1>5 DEF JudgeSteady, ProbeInv
    <2>2. CASE Check /\ phase' = "done" /\ outcome' = "steady" /\ bound' = {Leader}
        <3>1. Leader \in reigns /\ Leader \in Member /\ \A q \in Question : Said(q)
            BY <1>0, <2>1, <2>2, SteadyIsTrue
        <3> DEFINE l == Leader
        <3>2. bound' = {l} /\ l \in reigns /\ l \in Member
            BY <2>2, <3>1
        <3> HIDE DEF l
        <3>3. (\A q : Said(q)' <=> Said(q)) /\ Question' = Question /\ reigns' = reigns
            BY <2>1 DEF Said, Question
        <3>4. TargetsAreAsNamed'
            BY <2>2, <3>1, <3>2, <3>3 DEF TargetsAreAsNamed
        <3>5. bound' \in SUBSET Member
            BY <3>2
        <3> QED BY <2>1, <2>2, <3>4, <3>5, DoneKeeps
    <2>3. CASE Retry
        BY <2>1, <2>3, RetryKeeps
    <2> QED BY <1>5, <2>2, <2>3 DEF JudgeSteady
<1>6. CASE NotSteady
    <2>1. phase # "done" /\ Retry
          /\ UNCHANGED <<probe, want, group, term, names, master, winner, view, since, reigns>>
        BY <1>6 DEF NotSteady
    <2> QED BY <2>1, RetryKeeps
<1>7. CASE Deadline
    <2>1. /\ phase # "done" /\ phase' = "done" /\ outcome' \in {"unsteady", "refused"}
          /\ UNCHANGED <<probe, want, group, term, names, master, winner, view, since, reigns, bound>>
        BY <1>7 DEF Deadline
    <2>2. TargetsAreAsNamed'
        BY <2>1 DEF TargetsAreAsNamed
    <2> QED BY <1>0, <2>1, <2>2, DoneKeeps DEF ProbeTyped
<1>8. CASE ClusterMoves
    <2>1. phase # "done"
        BY <1>8 DEF ClusterMoves
    <2>2. /\ ProbeTyped' /\ ClusterOK'
          /\ UNCHANGED <<probe, want, group, phase, attempt, view, since, bound, outcome>>
        BY <1>0, <1>8, MovesKeep
    <2>3. outcome = "none" /\ bound = {}
        BY <1>0, <2>1 DEF ProbeInv, ProbeTyped
    <2>4. phase = "asking" => ReignsOK' /\ ViewOK' /\ want \in Live
        BY <1>8, MovesKeepView DEF ProbeInv
    <2>5. TargetsAreAsNamed'
        BY <2>2, <2>3 DEF TargetsAreAsNamed
    <2> QED BY <2>2, <2>3, <2>4, <2>5 DEF ProbeInv, Live
<1>9. CASE UNCHANGED probeVars
    <2>1. /\ UNCHANGED <<probe, want, group, term, names, master, winner, phase, attempt, view,
                         since, reigns, bound, outcome>>
          /\ Question' = Question /\ Latest' = Latest /\ \A q : Said(q)' <=> Said(q)
        BY <1>9 DEF probeVars, Question, Latest, Said
    <2>2. ProbeTyped' /\ ClusterOK'
        BY <1>0, <2>1 DEF ProbeTyped, ViewRecord, ClusterOK
    <2>3. TargetsAreAsNamed'
        BY <2>1 DEF ProbeInv, TargetsAreAsNamed
    <2>4. (ReignsOK => ReignsOK') /\ (ViewOK => ViewOK')
        <3>1. \A q : Of(q)' = Of(q)
            BY DEF Of
        <3>2. \A x : Knows(x)' <=> Knows(x)
            BY <2>1 DEF Knows, Said
        <3>3. Said(winner[since])' <=> Said(winner[since])
            BY <2>1 DEF Said
        <3> QED BY <2>1, <3>1, <3>2, <3>3 DEF ReignsOK, ViewOK
    <2> QED BY <2>1, <2>2, <2>3, <2>4 DEF ProbeInv, Live
<1> QED BY <1>1, <1>2, <1>3, <1>4, <1>5, <1>6, <1>7, <1>8, <1>9 DEF ProbeNext, ProbeStep

\* What a probe has been told stays true of the terms it was told of: ClusterProbes
\* with any number of members, elections and attempts.
THEOREM ProbeIsInductive == ProbeSpec => []ProbeInv
<1>1. ProbeInit => ProbeInv
    BY ProbeInitOK
<1>2. ProbeInv /\ [ProbeNext]_probeVars => ProbeInv'
    BY ProbeInvInductive
<1> QED BY <1>1, <1>2, PTL DEF ProbeSpec

\* A fault hits whom its target says, and a steady cluster is reported with a leader
\* that was in office, whatever the cluster does while it is asked.
THEOREM TargetsAreAlwaysAsNamed == ProbeSpec => []TargetsAreAsNamed
<1>1. ProbeInv => TargetsAreAsNamed
    BY DEF ProbeInv
<1> QED BY <1>1, ProbeIsInductive, PTL

==============================================================================
