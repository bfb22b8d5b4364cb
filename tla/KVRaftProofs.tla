---------------------------- MODULE KVRaftProofs ----------------------------
(***************************************************************************)
(* Theorems about KVRaft, for any number of nodes and any bounds.  The     *)
(* inductive invariant says that there is a history h, of what the nodes   *)
(* themselves forget, to which everything is true:                         *)
(*                                                                         *)
(*   h.log[t]       the longest log of the leader of term t                *)
(*   h.leader[t]    that leader, or Nobody                                 *)
(*   h.vote[t][m]   whom m voted for in t                                  *)
(*   h.cand[t][m]   the log with which m stood for election in t           *)
(*   h.ack[t][m]    how much of h.log[t] m has acknowledged in t           *)
(*                                                                         *)
(* The history is not a variable: every step of the model is shown to have *)
(* one that extends the history before it.                                 *)
(*                                                                         *)
(* That refusals are true needs a second invariant, OnceInv: a command is  *)
(* in one entry, wherever that entry is.                                   *)
(*                                                                         *)
(* A crash may tear the log it interrupts. The theorems assume, as a       *)
(* condition on the behaviour, that a node whose log is torn does not      *)
(* crash again before the log is rewritten (RestartsWhole).                *)
(***************************************************************************)
EXTENDS KVRaft, FiniteSetTheorems, SequenceTheorems, WellFoundedInduction, TLAPS

Entry == [index : Nat, term : Nat, cmd : Cmd \cup {Noop}]

History ==
    [log : [Nat -> Seq(Entry)], leader : [Nat -> Node \cup {Nobody}],
     vote : [Nat -> [Node -> Node \cup {Nobody}]], cand : [Nat -> [Node -> Seq(Entry)]],
     ack : [Nat -> [Node -> Nat]]]

\* l and m are the same up to i; they differ somewhere up to i.
Shares(l, m, i) == i <= Len(l) /\ i <= Len(m) /\ \A k \in 1 .. i : l[k] = m[k]
Differs(l, m, i) == \E k \in 1 .. i : k <= Len(l) /\ k <= Len(m) /\ l[k] # m[k]

\* Log matching: up to each of its entries, l is the log of the leader of the entry's term.
Grown(h, l) ==
    /\ l \in Seq(Entry)
    /\ \A i \in 1 .. Len(l) : l[i].index = i /\ l[i].term >= 1 /\ Shares(l, h.log[l[i].term], i)

\* Entry i of the leader of t is of its term, and a quorum has acknowledged it.
Chosen(h, t, i) ==
    /\ i \in 1 .. Len(h.log[t]) /\ h.log[t][i].term = t
    /\ Quorum({p \in Node : h.ack[t][p] >= i})

\* Of every term before u, l has what m acknowledged, or m has given it up for a leader's
\* log that differs.
Carries(h, l, u, m) ==
    \A t \in Nat : t < u =>
        \A i \in 1 .. h.ack[t][m] : h.log[t][i].term = t =>
            \/ Shares(l, h.log[t], i)
            \/ \E v \in Nat : t < v /\ v < u /\ Differs(h.log[v], h.log[t], i)

\* The voters of the leader of u, and what its log carries of theirs.
Supported(h, u, Q) ==
    Quorum(Q) /\ \A m \in Q : h.vote[u][m] = h.leader[u] /\ Carries(h, h.log[u], u, m)

\* The core, of the terms tm and the logs lg of the nodes.
CoreTypes(h, tm, lg) == h \in History /\ tm \in [Node -> Nat] /\ lg \in [Node -> Seq(Entry)]

LeadersLogs(h) ==
    \A t \in Nat :
        /\ Grown(h, h.log[t]) /\ \A i \in 1 .. Len(h.log[t]) : h.log[t][i].term <= t
        /\ h.log[t] # <<>> => h.log[t][Len(h.log[t])].term = t

NodesLogs(h, tm, lg) ==
    \A n \in Node : Grown(h, lg[n]) /\ \A i \in 1 .. Len(lg[n]) : lg[n][i].term <= tm[n]

CandidatesLogs(h) ==
    \A u \in Nat, c \in Node :
        Grown(h, h.cand[u][c]) /\ \A i \in 1 .. Len(h.cand[u][c]) : h.cand[u][c][i].term < u

VotesInv(h, tm) ==
    \A u \in Nat, m \in Node :
        h.vote[u][m] # Nobody => u <= tm[m] /\ u <= tm[h.vote[u][m]]

AcksInv(h, tm) ==
    \A t \in Nat, m \in Node :
        h.ack[t][m] <= Len(h.log[t]) /\ (h.ack[t][m] > 0 => t <= tm[m])

AckedStays(h, tm, lg) ==
    \A t \in Nat, m \in Node : \A i \in 1 .. h.ack[t][m] :
        h.log[t][i].term = t =>
            \/ Shares(lg[m], h.log[t], i)
            \/ \E v \in Nat : t < v /\ v <= tm[m] /\ Differs(h.log[v], h.log[t], i)

VotersCarry(h) ==
    \A u \in Nat, m \in Node :
        h.vote[u][m] # Nobody /\ h.log[u] = <<>> => Carries(h, h.cand[u][h.vote[u][m]], u, m)

LeadersElected(h, tm) ==
    \A u \in Nat :
        /\ h.log[u] = <<>> => h.leader[u] = Nobody
        /\ h.log[u] # <<>> =>
              h.leader[u] \in Node /\ u <= tm[h.leader[u]] /\ \E Q \in SUBSET Node : Supported(h, u, Q)

Core(h, tm, lg) ==
    /\ CoreTypes(h, tm, lg)
    /\ LeadersLogs(h) /\ NodesLogs(h, tm, lg) /\ CandidatesLogs(h)
    /\ VotesInv(h, tm) /\ AcksInv(h, tm) /\ AckedStays(h, tm, lg)
    /\ VotersCarry(h) /\ LeadersElected(h, tm)

\* The first c entries of l were chosen, in a term up to u.
Settled(h, u, l, c) ==
    \/ c = 0
    \/ \E t \in Nat : \E i \in Nat :
          t <= u /\ Chosen(h, t, i) /\ c <= i /\ Shares(l, h.log[t], c)

Terms(nd) == [n \in Node |-> nd[n].term]
Logs(nd) == [n \in Node |-> nd[n].log]

Waiter == [index : Nat, term : Nat, cmd : Cmd]
Raft ==
    [term : Nat, voted : Node \cup {Nobody}, log : Seq(Entry),
     role : {"follower", "candidate", "leader"}, commit : Nat, applied : Seq(Entry),
     votes : SUBSET Node, next : [Node -> Nat \ {0}], match : [Node -> Nat],
     waiters : SUBSET Waiter]

\* What is true of a leader, a candidate, and any node n in state s.
Leads(h, n, s) ==
    /\ h.leader[s.term] = n /\ s.log = h.log[s.term] /\ s.log # <<>>
    /\ h.ack[s.term][n] = Len(s.log)
    /\ \A p \in Node : s.match[p] <= h.ack[s.term][p]

Campaigns(h, n, s) ==
    /\ s.term >= 1 /\ h.leader[s.term] # n /\ h.cand[s.term][n] = s.log
    /\ \A m \in s.votes : h.vote[s.term][m] = n

Applies(h, s) ==
    /\ s.commit <= Len(s.log) /\ Settled(h, s.term, s.log, s.commit)
    /\ Shares(s.applied, s.log, Len(s.applied)) /\ Settled(h, s.term, s.applied, Len(s.applied))

Waits(h, n, s) ==
    \A w \in s.waiters :
        /\ w.index \in 1 .. Len(s.log) /\ s.log[w.index].term = w.term
        /\ s.log[w.index].cmd = w.cmd /\ h.leader[w.term] = n

NodeOK(h, n, s) ==
    /\ s \in Raft /\ s.voted = h.vote[s.term][n]
    /\ s.role = "leader" => Leads(h, n, s)
    /\ s.role = "candidate" => Campaigns(h, n, s)
    /\ Applies(h, s) /\ Waits(h, n, s)

NodesOK(h, nd) == nd \in [Node -> Raft] /\ \A n \in Node : NodeOK(h, n, nd[n])

\* What is true of a disk: term and vote are there; of the log the first k records load, the
\* whole of it if no crash has torn it.
Keeps(wal, log, k) ==
    /\ k \in Nat /\ k <= Len(log) /\ k <= Len(wal)
    /\ \A i \in 1 .. k : wal[i] = log[i]
    /\ k = Len(wal) => k = Len(log)
    /\ k # Len(wal) => wal[k + 1].index # k + 1
DiskOK(nd, d) ==
    /\ d = [n \in Node |-> [term |-> nd[n].term, voted |-> nd[n].voted, wal |-> d[n].wal]]
    /\ \A n \in Node : /\ d[n].wal \in Seq(Entry) /\ \E k \in Nat : Keeps(d[n].wal, nd[n].log, k)
                       /\ TornTails \/ Whole(d[n].wal)

\* What is true of messages.
AskOK(h, tm, q) ==
    /\ q.from \in Node /\ q.to \in Node /\ q.from # q.to
    /\ q.term \in Nat /\ q.term <= tm[q.from]
    /\ q.index = Len(h.cand[q.term][q.from]) /\ q.last = LastTerm(h.cand[q.term][q.from])
AnswerOK(h, a) ==
    /\ a.from \in Node /\ a.to \in Node /\ a.asked \in Nat /\ a.term \in Nat
    /\ a.granted => h.vote[a.asked][a.from] = a.to
BallotOK(h, tm, q) ==
    \/ q.kind = "ask" /\ AskOK(h, tm, q)
    \/ q.kind = "answer" /\ AnswerOK(h, q)

SentOK(h, p, q) ==
    /\ q.term \in Nat /\ h.log[q.term] # <<>> /\ h.leader[q.term] # p
    /\ q.prev \in Nat /\ q.prevTerm = TermAt(h.log[q.term], q.prev)
    /\ q.entries \in Seq(Entry) /\ q.prev + Len(q.entries) <= Len(h.log[q.term])
    /\ \A k \in 1 .. Len(q.entries) : q.entries[k] = h.log[q.term][q.prev + k]
    /\ q.commit \in Nat /\ Settled(h, q.term, h.log[q.term], q.commit)
AnsweredOK(h, p, a) ==
    /\ a.asked \in Nat /\ a.term \in Nat /\ a.match \in Nat /\ a.conflict \in Nat
    /\ a.ok => a.match <= h.ack[a.asked][p]
IsRequest(c) ==
    c = [stage |-> "sent", term |-> c.term, prev |-> c.prev, prevTerm |-> c.prevTerm,
         entries |-> c.entries, commit |-> c.commit, fresh |-> c.fresh]
IsAnswer(c) ==
    c = [stage |-> "answered", asked |-> c.asked, term |-> c.term, ok |-> c.ok,
         match |-> c.match, conflict |-> c.conflict, fresh |-> c.fresh]
CallOK(h, p, c) ==
    \/ c = Idle
    \/ c.stage = "sent" /\ IsRequest(c) /\ SentOK(h, p, c)
    \/ c.stage = "answered" /\ IsAnswer(c) /\ AnsweredOK(h, p, c)

\* What is true of an answer to a client: command c was chosen, as entry k of term t.
Answered(h, c, t, k) ==
    /\ k \in 1 .. Len(h.log[t]) /\ h.log[t][k].term = t /\ h.log[t][k].cmd = c
    /\ \E u \in Nat : \E i \in Nat : Chosen(h, u, i) /\ k <= i /\ Shares(h.log[u], h.log[t], k)
ClientOK(h, c, nd) ==
    \E t \in Nat : \E k \in Nat :
        /\ Answered(h, c, t, k)
        /\ \A n \in Node : nd[n].role = "leader" /\ nd[n].term = t => k <= nd[n].commit

\* What is true of a read: it will return its floor, or a quorum has left its term without
\* having answered it.
Holds(h, r) == \A c \in r.floor : \E k \in 1 .. r.index : h.log[r.term][k].cmd = c
Deposed(r, tm, calls) ==
    \E Q \in SUBSET Node :
        /\ Quorum(Q)
        /\ \A m \in Q : /\ tm[m] > r.term /\ m \notin r.acks
                        /\ calls[m].stage = "answered" /\ calls[m].ok /\ calls[m].fresh
                              => calls[m].asked # r.term
IsRead(r) ==
    /\ r = [stage |-> r.stage, term |-> r.term, index |-> r.index, floor |-> r.floor, acks |-> r.acks]
    /\ r.floor \subseteq Cmd
ReadOK(h, n, r, tm, calls) ==
    /\ IsRead(r)
    /\ r.stage \in {"confirm", "apply"} /\ r.term \in Nat /\ r.index \in Nat
    /\ r.acks \subseteq Node /\ r.term <= tm[n]
    /\ h.log[r.term] # <<>> /\ r.index <= Len(h.log[r.term])
    /\ Settled(h, r.term, h.log[r.term], r.index)
    /\ r.stage = "apply" => Holds(h, r)
    /\ r.stage = "confirm" => Holds(h, r) \/ tm[n] # r.term \/ Deposed(r, tm, calls)

CallsOK(h, calls) ==
    /\ calls = [n \in Node |-> [p \in Node |-> calls[n][p]]]
    /\ \A n, p \in Node : CallOK(h, p, calls[n][p])
LateOK(h, l) == \A q \in l : q.to \in Node /\ SentOK(h, q.to, q.call)
BallotsOK(h, tm, b) == \A q \in b : BallotOK(h, tm, q)
ClientsOK(h, told, nd) == \A c \in Cmd : told[c] = "ok" => ClientOK(h, c, nd)
ReadsOK(h, tm, calls, r) ==
    /\ r = [n \in Node |-> r[n]]
    /\ \A n \in Node : r[n] = NoRead \/ ReadOK(h, n, r[n], tm, calls[n])

RaftInv(h) ==
    /\ Core(h, Terms(node), Logs(node)) /\ NodesOK(h, node) /\ DiskOK(node, disk)
    /\ BallotsOK(h, Terms(node), ballots) /\ CallsOK(h, append) /\ LateOK(h, late)
    /\ ClientsOK(h, client, node) /\ ReadsOK(h, Terms(node), append, read)

IInv == \E h : RaftInv(h)

\* The assumption on crashes: a node whose log an earlier crash has torn does not crash
\* before its log is rewritten.  What it logs behind the tear would not load.
RestartsWhole == \A n \in Node : Restart(n) => Whole(disk[n].wal)

\* A set of naturals that is not empty has a least element.
LEMMA LeastOf ==
    ASSUME NEW T, T \subseteq Nat, T # {}
    PROVE  \E x \in T : \A y \in T : x <= y
<1>1. PICK x \in T : \A y \in T : ~(<<y, x>> \in OpToRel(<, Nat))
    BY NatLessThanWellFounded, WFMin
<1>2. \A y \in T : ~(y < x)
    BY <1>1 DEF OpToRel
<1> QED BY <1>2

\* Two quorums have a node in common.
LEMMA QuorumsMeet ==
    ASSUME NEW P \in SUBSET Node, NEW Q \in SUBSET Node, Quorum(P), Quorum(Q)
    PROVE  \E m \in P : m \in Q
<1>1. IsFiniteSet(Node) BY KVAssumption
<1>2. /\ IsFiniteSet(P) /\ IsFiniteSet(Q)
      /\ Cardinality(P) \in Nat /\ Cardinality(Q) \in Nat /\ Cardinality(Node) \in Nat
    BY <1>1, FS_Subset, FS_CardinalityType
<1>3. Cardinality(P) + Cardinality(Q) > Cardinality(Node)
    BY <1>2 DEF Quorum
<1>4. P \cap Q # {}
    BY <1>1, <1>3, FS_MajoritiesIntersect
<1> QED BY <1>4

\* What holds a quorum is a quorum.
LEMMA QuorumGrows ==
    ASSUME NEW P \in SUBSET Node, NEW Q \in SUBSET Node, Quorum(P), P \subseteq Q
    PROVE  Quorum(Q)
<1>1. IsFiniteSet(Node) BY KVAssumption
<1>2. IsFiniteSet(Q) /\ IsFiniteSet(P)
    BY <1>1, FS_Subset
<1>3. Cardinality(P) <= Cardinality(Q)
    BY <1>2, FS_Subset
<1>4. Cardinality(P) \in Nat /\ Cardinality(Q) \in Nat /\ Cardinality(Node) \in Nat
    BY <1>1, <1>2, FS_CardinalityType
<1> QED BY <1>3, <1>4 DEF Quorum

\* The fields of a history at a term and a node.
LEMMA HistoryTypes ==
    ASSUME NEW h \in History
    PROVE  /\ \A t \in Nat : h.log[t] \in Seq(Entry) /\ Len(h.log[t]) \in Nat
                             /\ h.leader[t] \in Node \cup {Nobody}
           /\ \A t \in Nat, m \in Node : /\ h.vote[t][m] \in Node \cup {Nobody}
                                         /\ h.cand[t][m] \in Seq(Entry)
                                         /\ h.ack[t][m] \in Nat
<1>1. h.log \in [Nat -> Seq(Entry)] /\ h.leader \in [Nat -> Node \cup {Nobody}]
    BY DEF History
<1>2. \A t \in Nat : h.log[t] \in Seq(Entry) /\ Len(h.log[t]) \in Nat
    BY <1>1, LenProperties
<1>3. \A t \in Nat, m \in Node : /\ h.vote[t][m] \in Node \cup {Nobody}
                                  /\ h.cand[t][m] \in Seq(Entry)
                                  /\ h.ack[t][m] \in Nat
    BY DEF History
<1> QED BY <1>1, <1>2, <1>3

\* The fields of an entry of a log.
LEMMA EntryOf ==
    ASSUME NEW l \in Seq(Entry), NEW i \in 1 .. Len(l)
    PROVE  /\ l[i] \in Entry /\ l[i].term \in Nat /\ l[i].index \in Nat
<1>1. l[i] \in Entry
    BY ElementOfSeq
<1> QED BY <1>1 DEF Entry

\* Terms never fall along a log.
LEMMA Ordered ==
    ASSUME NEW h \in History, LeadersLogs(h), NEW l, Grown(h, l),
           NEW i \in 1 .. Len(l), NEW j \in 1 .. Len(l), i <= j
    PROVE  l[i].term <= l[j].term
<1>1. l \in Seq(Entry) /\ l[j].term \in Nat
    BY EntryOf DEF Grown
<1>2. Shares(l, h.log[l[j].term], j)
    BY DEF Grown
<1>3. h.log[l[j].term] \in Seq(Entry)
    BY <1>1, HistoryTypes
<1>4. l[i] = h.log[l[j].term][i] /\ i \in 1 .. Len(h.log[l[j].term])
    BY <1>1, <1>2, <1>3 DEF Shares
<1> QED BY <1>1, <1>4 DEF LeadersLogs

\* What was chosen in a term is in the log of every leader of a later term: an earliest
\* leader without it had a voter that acknowledged it.
LEMMA Safety ==
    ASSUME NEW h, NEW tm, NEW lg, Core(h, tm, lg),
           NEW t \in Nat, NEW i, Chosen(h, t, i), NEW u \in Nat, t < u, h.log[u] # <<>>
    PROVE  Shares(h.log[u], h.log[t], i)
<1> DEFINE Bad == {v \in Nat : t < v /\ h.log[v] # <<>> /\ ~Shares(h.log[v], h.log[t], i)}
<1> SUFFICES ASSUME Bad # {} PROVE FALSE
    OBVIOUS
<1>1. PICK v \in Bad : \A w \in Bad : v <= w
    BY LeastOf
<1>2. h \in History
    BY DEF Core, CoreTypes
<1>3. PICK Q \in SUBSET Node : Supported(h, v, Q)
    BY <1>1 DEF Core, LeadersElected
<1> DEFINE P == {p \in Node : h.ack[t][p] >= i}
<1>4. PICK m \in P : m \in Q
    BY <1>3, QuorumsMeet DEF Supported, Chosen
<1>5. i \in 1 .. h.ack[t][m] /\ h.log[t][i].term = t
    BY <1>2, <1>4, HistoryTypes DEF Chosen
<1>6. \/ Shares(h.log[v], h.log[t], i)
      \/ \E w \in Nat : t < w /\ w < v /\ Differs(h.log[w], h.log[t], i)
    BY <1>1, <1>3, <1>4, <1>5 DEF Supported, Carries
<1>7. PICK w \in Nat : t < w /\ w < v /\ Differs(h.log[w], h.log[t], i)
    BY <1>1, <1>6
<1>8. h.log[w] # <<>> /\ ~Shares(h.log[w], h.log[t], i)
    BY <1>2, <1>7, HistoryTypes DEF Differs, Shares
<1> QED BY <1>1, <1>7, <1>8

\* A log that is as up to date as that of a node carries what the node acknowledged.
LEMMA UpToDateCarries ==
    ASSUME NEW h, NEW tm, NEW lg, Core(h, tm, lg), NEW n \in Node, NEW u \in Nat,
           tm[n] <= u, h.log[u] = <<>>,
           NEW l, Grown(h, l), \A i \in 1 .. Len(l) : l[i].term < u,
           UpToDate(lg[n], Len(l), LastTerm(l))
    PROVE  Carries(h, l, u, n)
<1>1. h \in History /\ LeadersLogs(h) /\ Grown(h, lg[n]) /\ l \in Seq(Entry) /\ lg[n] \in Seq(Entry)
      /\ tm[n] \in Nat
    BY DEF Core, CoreTypes, NodesLogs, Grown
<1> SUFFICES ASSUME NEW t \in Nat, t < u, NEW i \in 1 .. h.ack[t][n], h.log[t][i].term = t,
                    ~\E v \in Nat : t < v /\ v < u /\ Differs(h.log[v], h.log[t], i)
             PROVE  Shares(l, h.log[t], i)
    BY DEF Carries
<1>2. h.log[t] \in Seq(Entry) /\ Len(h.log[t]) \in Nat /\ h.ack[t][n] \in Nat
    BY <1>1, HistoryTypes
<1>2a. h.ack[t][n] <= Len(h.log[t])
    BY DEF Core, AcksInv
<1>3. i \in 1 .. Len(h.log[t])
    BY <1>2, <1>2a
<1>4. Shares(lg[n], h.log[t], i)
    <2>1. \/ Shares(lg[n], h.log[t], i)
          \/ \E v \in Nat : t < v /\ v <= tm[n] /\ Differs(h.log[v], h.log[t], i)
        BY DEF Core, AckedStays
    <2>2. SUFFICES ASSUME NEW v \in Nat, t < v, v <= tm[n], Differs(h.log[v], h.log[t], i)
                   PROVE  FALSE
        BY <2>1
    <2>3. v = u
        BY <1>1, <2>2
    <2> QED BY <2>2, <2>3 DEF Differs
<1>5. i \in 1 .. Len(lg[n]) /\ lg[n][i].term = t
    BY <1>1, <1>2, <1>3, <1>4 DEF Shares
<1> DEFINE w == lg[n][Len(lg[n])].term
           v == l[Len(l)].term
<1>6. w \in Nat /\ t <= w /\ w >= 1 /\ LastTerm(lg[n]) = w
    <2>1. Len(lg[n]) \in 1 .. Len(lg[n]) /\ i <= Len(lg[n]) /\ lg[n] # <<>>
        BY <1>1, <1>5
    <2>2. t <= w
        BY <1>1, <1>5, <2>1, Ordered
    <2> QED BY <1>1, <2>1, <2>2, EntryOf DEF LastTerm, Grown
<1>7. /\ l # <<>> /\ v \in Nat /\ v >= w /\ v < u
      /\ Len(l) \in 1 .. Len(l) /\ v = w => Len(l) >= Len(lg[n])
    <2>1. LastTerm(l) >= w /\ (LastTerm(l) = w => Len(l) >= Len(lg[n]))
        <3>1. LastTerm(l) \in Nat
            BY <1>1, EntryOf DEF LastTerm
        <3> QED BY <1>6, <3>1 DEF UpToDate
    <2>2. l # <<>>
        BY <1>6, <2>1 DEF LastTerm
    <2>3. Len(l) \in 1 .. Len(l)
        BY <1>1, <2>2
    <2> QED BY <1>1, <2>1, <2>2, <2>3, EntryOf DEF LastTerm
<1>8. Shares(l, h.log[v], Len(l))
    BY <1>7 DEF Grown
<1>9. CASE v = t
    <2>1. i <= Len(l)
        BY <1>1, <1>5, <1>6, <1>7, <1>9
    <2> QED BY <1>1, <1>2, <1>8, <1>9, <2>1 DEF Shares
<1>10. CASE v > t
    <2>1. ~Differs(h.log[v], h.log[t], i)
        BY <1>7, <1>10
    <2>2. h.log[v] \in Seq(Entry) /\ Len(h.log[v]) \in Nat
        BY <1>1, <1>7, HistoryTypes
    <2>3. Len(l) >= i
        <3> SUFFICES ASSUME Len(l) < i PROVE FALSE
            BY <1>1
        <3>1. Len(l) \in 1 .. i /\ Len(l) <= Len(h.log[v]) /\ Len(l) <= Len(h.log[t])
            BY <1>1, <1>2, <1>3, <1>7, <1>8 DEF Shares
        <3>2. h.log[v][Len(l)] = h.log[t][Len(l)]
            BY <2>1, <3>1 DEF Differs
        <3>3. h.log[v][Len(l)].term = v
            BY <1>7, <1>8 DEF Shares
        <3>4. h.log[t][Len(l)].term <= t
            BY <1>1, <1>3, <1>2, <1>7, <3>1 DEF LeadersLogs
        <3> QED BY <1>10, <3>2, <3>3, <3>4, <1>7
    <2> QED
        <3>1. i <= Len(h.log[v]) /\ i <= Len(h.log[t])
            BY <1>1, <1>2, <1>3, <1>8, <2>2, <2>3 DEF Shares
        <3>2. ASSUME NEW k \in 1 .. i PROVE h.log[v][k] = h.log[t][k]
            <4>1. k <= Len(h.log[v]) /\ k <= Len(h.log[t])
                BY <1>2, <1>3, <2>2, <3>1
            <4> QED BY <2>1, <4>1 DEF Differs
        <3>3. \A k \in 1 .. i : l[k] = h.log[v][k]
            BY <1>1, <1>8, <2>3 DEF Shares
        <3> QED BY <2>3, <3>1, <3>2, <3>3 DEF Shares
<1> QED BY <1>6, <1>7, <1>9, <1>10

\* Terms that grow keep the core.
LEMMA CoreTerm ==
    ASSUME NEW h, NEW tm, NEW lg, Core(h, tm, lg),
           NEW tn \in [Node -> Nat], \A m \in Node : tm[m] <= tn[m]
    PROVE  Core(h, tn, lg)
<1>1. h \in History /\ tm \in [Node -> Nat] /\ lg \in [Node -> Seq(Entry)]
    BY DEF Core, CoreTypes
<1>2. CoreTypes(h, tn, lg)
    BY <1>1 DEF CoreTypes
<1>3. NodesLogs(h, tn, lg)
    <2> SUFFICES ASSUME NEW n \in Node, NEW i \in 1 .. Len(lg[n])
                 PROVE  Grown(h, lg[n]) /\ lg[n][i].term <= tn[n]
        BY DEF Core, NodesLogs
    <2>1. Grown(h, lg[n]) /\ lg[n][i].term <= tm[n]
        BY DEF Core, NodesLogs
    <2>2. lg[n][i].term \in Nat
        BY <1>1, EntryOf
    <2> QED BY <1>1, <2>1, <2>2
<1>4. VotesInv(h, tn)
    <2> SUFFICES ASSUME NEW u \in Nat, NEW m \in Node, h.vote[u][m] # Nobody
                 PROVE  u <= tn[m] /\ u <= tn[h.vote[u][m]]
        BY DEF VotesInv
    <2>1. h.vote[u][m] \in Node
        BY <1>1, HistoryTypes
    <2>2. u <= tm[m] /\ u <= tm[h.vote[u][m]]
        BY DEF Core, VotesInv
    <2> QED BY <1>1, <2>1, <2>2
<1>5. AcksInv(h, tn)
    <2> SUFFICES ASSUME NEW t \in Nat, NEW m \in Node
                 PROVE  h.ack[t][m] <= Len(h.log[t]) /\ (h.ack[t][m] > 0 => t <= tn[m])
        BY DEF AcksInv
    <2> QED BY <1>1 DEF Core, AcksInv
<1>6. AckedStays(h, tn, lg)
    <2> SUFFICES ASSUME NEW t \in Nat, NEW m \in Node, NEW i \in 1 .. h.ack[t][m],
                        h.log[t][i].term = t
                 PROVE  \/ Shares(lg[m], h.log[t], i)
                        \/ \E v \in Nat : t < v /\ v <= tn[m] /\ Differs(h.log[v], h.log[t], i)
        BY DEF AckedStays
    <2>1. \/ Shares(lg[m], h.log[t], i)
          \/ \E v \in Nat : t < v /\ v <= tm[m] /\ Differs(h.log[v], h.log[t], i)
        BY DEF Core, AckedStays
    <2> QED BY <1>1, <2>1
<1>7. LeadersElected(h, tn)
    <2> SUFFICES ASSUME NEW u \in Nat, h.log[u] # <<>>
                 PROVE  h.leader[u] \in Node /\ u <= tn[h.leader[u]] /\ \E Q \in SUBSET Node : Supported(h, u, Q)
        BY DEF Core, LeadersElected
    <2>1. h.leader[u] \in Node /\ u <= tm[h.leader[u]] /\ \E Q \in SUBSET Node : Supported(h, u, Q)
        BY DEF Core, LeadersElected
    <2> QED BY <1>1, <2>1
<1> QED BY <1>2, <1>3, <1>4, <1>5, <1>6, <1>7 DEF Core

\* A history in which only votes or the logs of candidates are new.
Same(h, g) == g.log = h.log /\ g.leader = h.leader /\ g.ack = h.ack

\* What is grown or carried depends on leaders' logs and acknowledgements only.
LEMMA SameGrown ==
    ASSUME NEW h, NEW g, Same(h, g)
    PROVE  /\ \A l : Grown(h, l) <=> Grown(g, l)
           /\ \A l, u, m : Carries(h, l, u, m) <=> Carries(g, l, u, m)
BY DEF Same, Grown, Carries

\* The core holds of a history that differs in candidates or votes only, with these facts.
LEMMA SameCore ==
    ASSUME NEW h, NEW g, NEW tm, NEW lg, Core(h, tm, lg), Same(h, g), g \in History
    PROVE  /\ CoreTypes(g, tm, lg) /\ LeadersLogs(g) /\ NodesLogs(g, tm, lg)
           /\ AcksInv(g, tm) /\ AckedStays(g, tm, lg)
<1>1. CoreTypes(g, tm, lg)
    BY DEF Core, CoreTypes
<1>2. LeadersLogs(g)
    BY SameGrown DEF Core, LeadersLogs, Same
<1>3. NodesLogs(g, tm, lg)
    BY SameGrown DEF Core, NodesLogs
<1>4. AcksInv(g, tm)
    BY DEF Core, AcksInv, Same
<1>5. AckedStays(g, tm, lg)
    BY DEF Core, AckedStays, Same
<1> QED BY <1>1, <1>2, <1>3, <1>4, <1>5

\* A history in which n votes in term u for c, and has stood in it with the log l.
Voted(h, g, n, u, c, l) ==
    /\ Same(h, g)
    /\ \A t \in Nat, m \in Node :
          /\ g.vote[t][m] = IF t = u /\ m = n THEN c ELSE h.vote[t][m]
          /\ g.cand[t][m] = IF t = u /\ m = n THEN l ELSE h.cand[t][m]

\* A node votes for a candidate whose log is as up to date as its own.
LEMMA CoreVote ==
    ASSUME NEW h, NEW tm, NEW lg, Core(h, tm, lg), NEW n \in Node, NEW c \in Node, NEW u \in Nat,
           tm[n] = u, u <= tm[c], h.vote[u][n] = Nobody,
           UpToDate(lg[n], Len(h.cand[u][c]), LastTerm(h.cand[u][c])),
           NEW g \in History, Voted(h, g, n, u, c, h.cand[u][n])
    PROVE  Core(g, tm, lg)
<1>0. Same(h, g) /\ \A t \in Nat, m \in Node : /\ g.vote[t][m] = IF t = u /\ m = n THEN c ELSE h.vote[t][m]
                                              /\ g.cand[t][m] = h.cand[t][m]
    BY DEF Voted
<1>1. h \in History /\ tm \in [Node -> Nat] /\ lg \in [Node -> Seq(Entry)] /\ Nobody \notin Node
    BY KVAssumption DEF Core, CoreTypes
<1>2. /\ CoreTypes(g, tm, lg) /\ LeadersLogs(g) /\ NodesLogs(g, tm, lg)
      /\ AcksInv(g, tm) /\ AckedStays(g, tm, lg)
    BY <1>0, SameCore
<1>3. CandidatesLogs(g)
    BY <1>0, SameGrown DEF Core, CandidatesLogs
<1>4. VotesInv(g, tm)
    <2> SUFFICES ASSUME NEW v \in Nat, NEW m \in Node, g.vote[v][m] # Nobody
                 PROVE  v <= tm[m] /\ v <= tm[g.vote[v][m]]
        BY <1>0 DEF VotesInv
    <2>1. CASE v = u /\ m = n
        BY <1>0, <1>1, <2>1
    <2>2. CASE ~(v = u /\ m = n)
        BY <1>0, <2>2 DEF Core, VotesInv
    <2> QED BY <1>0, <2>1, <2>2
<1>5. VotersCarry(g)
    <2> SUFFICES ASSUME NEW v \in Nat, NEW m \in Node, g.vote[v][m] # Nobody, g.log[v] = <<>>
                 PROVE  Carries(g, g.cand[v][g.vote[v][m]], v, m)
        BY <1>0 DEF VotersCarry
    <2>1. h.log[v] = <<>>
        BY <1>0 DEF Same
    <2>2. CASE v = u /\ m = n
        <3>1. Grown(h, h.cand[u][c]) /\ \A i \in 1 .. Len(h.cand[u][c]) : h.cand[u][c][i].term < u
            BY <1>0 DEF Core, CandidatesLogs
        <3>2. tm[n] <= u
            BY <1>0, <1>1
        <3>3. Carries(h, h.cand[u][c], u, n)
            BY <1>0, <2>1, <2>2, <3>1, <3>2, UpToDateCarries
        <3> QED BY <1>0, <2>2, <3>3, SameGrown
    <2>3. CASE ~(v = u /\ m = n)
        <3>1. Carries(h, h.cand[v][h.vote[v][m]], v, m)
            BY <1>0, <2>1, <2>3 DEF Core, VotersCarry
        <3>a. h.vote[v][m] \in Node \cup {Nobody}
            BY <1>1, HistoryTypes
        <3>2. h.vote[v][m] \in Node
            BY <1>0, <2>3, <3>a
        <3>3. g.cand[v][g.vote[v][m]] = h.cand[v][h.vote[v][m]]
            BY <1>0, <2>3, <3>2
        <3> QED BY <1>0, <3>1, <3>3, SameGrown
    <2> QED BY <1>0, <2>2, <2>3
<1>6. LeadersElected(g, tm)
    <2> SUFFICES ASSUME NEW v \in Nat, g.log[v] # <<>>
                 PROVE  g.leader[v] \in Node /\ v <= tm[g.leader[v]] /\ \E Q \in SUBSET Node : Supported(g, v, Q)
        BY <1>0 DEF Core, LeadersElected, Same
    <2>1. PICK Q \in SUBSET Node : Supported(h, v, Q)
        BY <1>0 DEF Core, LeadersElected, Same
    <2>2. h.leader[v] \in Node /\ v <= tm[h.leader[v]]
        BY <1>0 DEF Core, LeadersElected, Same
    <2>3. \A m \in Q : g.vote[v][m] = h.vote[v][m]
        BY <1>0, <1>1, <2>1, <2>2 DEF Supported
    <2>4. Supported(g, v, Q)
        BY <1>0, <2>1, <2>3, SameGrown DEF Supported, Same
    <2> QED BY <1>0, <2>2, <2>4 DEF Same
<1> QED BY <1>0, <1>2, <1>3, <1>4, <1>5, <1>6 DEF Core

\* A node stands for a term it had not reached.
LEMMA CoreCandidate ==
    ASSUME NEW h, NEW tm, NEW lg, Core(h, tm, lg), NEW n \in Node, NEW u \in Nat, tm[n] < u,
           NEW tn, tn = [tm EXCEPT ![n] = u],
           NEW g \in History, Voted(h, g, n, u, n, lg[n])
    PROVE  Core(g, tn, lg)
<1>0. Same(h, g) /\ \A t \in Nat, m \in Node : /\ g.vote[t][m] = IF t = u /\ m = n THEN n ELSE h.vote[t][m]
                                              /\ g.cand[t][m] = IF t = u /\ m = n THEN lg[n] ELSE h.cand[t][m]
    BY DEF Voted
<1>1. h \in History /\ tm \in [Node -> Nat] /\ lg \in [Node -> Seq(Entry)] /\ Nobody \notin Node
    BY KVAssumption DEF Core, CoreTypes
<1>2. tn \in [Node -> Nat] /\ (\A m \in Node : tm[m] <= tn[m]) /\ tn[n] = u
    BY <1>0, <1>1
<1>3. Core(h, tn, lg)
    BY <1>0, <1>2, CoreTerm
<1>4. /\ CoreTypes(g, tn, lg) /\ LeadersLogs(g) /\ NodesLogs(g, tn, lg)
      /\ AcksInv(g, tn) /\ AckedStays(g, tn, lg)
    BY <1>0, <1>3, SameCore
<1>5. CandidatesLogs(g)
    <2> SUFFICES ASSUME NEW v \in Nat, NEW c \in Node
                 PROVE  Grown(g, g.cand[v][c]) /\ \A i \in 1 .. Len(g.cand[v][c]) : g.cand[v][c][i].term < v
        BY <1>0 DEF CandidatesLogs
    <2>1. CASE v = u /\ c = n
        <3>1. Grown(h, lg[n]) /\ \A i \in 1 .. Len(lg[n]) : lg[n][i].term <= tm[n]
            BY <1>0 DEF Core, NodesLogs
        <3>2. \A i \in 1 .. Len(lg[n]) : lg[n][i].term \in Nat
            BY <1>0, <1>1, EntryOf
        <3>3. \A i \in 1 .. Len(lg[n]) : lg[n][i].term < u
            BY <1>0, <1>1, <3>1, <3>2
        <3> QED BY <1>0, <2>1, <3>1, <3>3, SameGrown
    <2>2. CASE ~(v = u /\ c = n)
        <3>1. g.cand[v][c] = h.cand[v][c]
            BY <1>0, <2>2
        <3>2. Grown(h, h.cand[v][c]) /\ \A i \in 1 .. Len(h.cand[v][c]) : h.cand[v][c][i].term < v
            BY <1>0 DEF Core, CandidatesLogs
        <3>3. Grown(g, h.cand[v][c])
            BY <1>0, <3>2, SameGrown
        <3> QED BY <3>1, <3>2, <3>3
    <2> QED BY <1>0, <2>1, <2>2
<1>6. VotesInv(g, tn)
    <2> SUFFICES ASSUME NEW v \in Nat, NEW m \in Node, g.vote[v][m] # Nobody
                 PROVE  v <= tn[m] /\ v <= tn[g.vote[v][m]]
        BY <1>0 DEF VotesInv
    <2>1. CASE v = u /\ m = n
        BY <1>0, <1>1, <1>2, <2>1
    <2>2. CASE ~(v = u /\ m = n)
        BY <1>0, <1>3, <2>2 DEF Core, VotesInv
    <2> QED BY <1>0, <2>1, <2>2
<1>7. \A m \in Node : h.vote[u][m] # n /\ h.vote[u][n] = Nobody
    <2>1. VotesInv(h, tm) /\ tm[n] \in Nat /\ ~(u <= tm[n])
        BY <1>1 DEF Core
    <2>2. ASSUME NEW m \in Node PROVE h.vote[u][m] # n
        BY <1>1, <2>1 DEF VotesInv
    <2>3. h.vote[u][n] = Nobody
        BY <2>1 DEF VotesInv
    <2> QED BY <2>2, <2>3
<1>8. VotersCarry(g)
    <2> SUFFICES ASSUME NEW v \in Nat, NEW m \in Node, g.vote[v][m] # Nobody, g.log[v] = <<>>
                 PROVE  Carries(g, g.cand[v][g.vote[v][m]], v, m)
        BY <1>0 DEF VotersCarry
    <2>1. h.log[v] = <<>>
        BY <1>0 DEF Same
    <2>2. CASE v = u /\ m = n
        <3>1. Carries(h, lg[n], u, n)
            <4> SUFFICES ASSUME NEW t \in Nat, t < u, NEW i \in 1 .. h.ack[t][n],
                                h.log[t][i].term = t
                         PROVE  \/ Shares(lg[n], h.log[t], i)
                                \/ \E w \in Nat : t < w /\ w < u /\ Differs(h.log[w], h.log[t], i)
                BY <1>0 DEF Carries
            <4>1. \/ Shares(lg[n], h.log[t], i)
                  \/ \E w \in Nat : t < w /\ w <= tm[n] /\ Differs(h.log[w], h.log[t], i)
                BY <1>0 DEF Core, AckedStays
            <4> QED BY <1>0, <1>1, <4>1
        <3> QED BY <1>0, <2>2, <3>1, SameGrown
    <2>3. CASE ~(v = u /\ m = n)
        <3>1. Carries(h, h.cand[v][h.vote[v][m]], v, m)
            BY <1>0, <2>1, <2>3 DEF Core, VotersCarry
        <3>a. h.vote[v][m] \in Node \cup {Nobody}
            BY <1>1, HistoryTypes
        <3>2. h.vote[v][m] \in Node
            BY <1>0, <2>3, <3>a
        <3>3. g.cand[v][g.vote[v][m]] = h.cand[v][h.vote[v][m]]
            BY <1>0, <1>7, <2>3, <3>2
        <3> QED BY <1>0, <3>1, <3>3, SameGrown
    <2> QED BY <1>0, <2>2, <2>3
<1>9. LeadersElected(g, tn)
    <2> SUFFICES ASSUME NEW v \in Nat, g.log[v] # <<>>
                 PROVE  g.leader[v] \in Node /\ v <= tn[g.leader[v]] /\ \E Q \in SUBSET Node : Supported(g, v, Q)
        BY <1>0 DEF Core, LeadersElected, Same
    <2>1. PICK Q \in SUBSET Node : Supported(h, v, Q)
        BY <1>0 DEF Core, LeadersElected, Same
    <2>2. h.leader[v] \in Node /\ v <= tn[h.leader[v]]
        BY <1>0, <1>3 DEF Core, LeadersElected, Same
    <2>3. \A m \in Q : g.vote[v][m] = h.vote[v][m]
        BY <1>0, <1>1, <1>7, <2>1, <2>2 DEF Supported
    <2>4. Supported(g, v, Q)
        BY <1>0, <2>1, <2>3, SameGrown DEF Supported, Same
    <2> QED BY <1>0, <2>2, <2>4 DEF Same
<1> QED BY <1>0, <1>4, <1>5, <1>6, <1>8, <1>9 DEF Core

\* Logs that share up to i share up to less.
LEMMA SharesLess ==
    ASSUME NEW l \in Seq(Entry), NEW m \in Seq(Entry), NEW i \in Int, NEW j \in Int, j <= i,
           Shares(l, m, i)
    PROVE  Shares(l, m, j)
<1>1. Len(l) \in Nat /\ Len(m) \in Nat
    BY LenProperties
<1> QED BY <1>1 DEF Shares

\* Sharing is transitive.
LEMMA SharesSame ==
    ASSUME NEW l, NEW m, NEW k, NEW i, Shares(l, m, i), Shares(m, k, i) \/ Shares(k, m, i)
    PROVE  Shares(l, k, i) /\ Shares(k, l, i)
BY DEF Shares

\* Logs that differ up to i differ up to more, whichever comes first.
LEMMA DiffersMore ==
    ASSUME NEW l \in Seq(Entry), NEW m \in Seq(Entry), NEW i \in Int, NEW j \in Int, i <= j,
           Differs(l, m, i)
    PROVE  Differs(l, m, j) /\ Differs(m, l, j)
BY DEF Differs

\* Histories in which the logs of leaders are longer.
Longer(h, g) == \A t \in Nat : Shares(g.log[t], h.log[t], Len(h.log[t]))

\* What is shared with a leader's log stays shared when it grows.
LEMMA SharesLonger ==
    ASSUME NEW h \in History, NEW g \in History, Longer(h, g), NEW t \in Nat
    PROVE  \A l : \A i \in Int : Shares(l, h.log[t], i) => Shares(l, g.log[t], i)
<1>1. /\ Shares(g.log[t], h.log[t], Len(h.log[t])) /\ Len(h.log[t]) \in Nat /\ Len(g.log[t]) \in Nat
    BY HistoryTypes DEF Longer
<1> QED BY <1>1 DEF Shares

\* What differs stays different when leaders' logs grow.
LEMMA DiffersLonger ==
    ASSUME NEW h \in History, NEW g \in History, Longer(h, g), NEW t \in Nat, NEW v \in Nat,
           NEW i \in Int,
           Differs(h.log[v], h.log[t], i)
    PROVE  Differs(g.log[v], g.log[t], i)
<1>1. PICK k \in 1 .. i : k <= Len(h.log[v]) /\ k <= Len(h.log[t]) /\ h.log[v][k] # h.log[t][k]
    BY DEF Differs
<1>2. /\ Shares(g.log[t], h.log[t], Len(h.log[t])) /\ Len(h.log[t]) \in Nat /\ Len(g.log[t]) \in Nat
      /\ Shares(g.log[v], h.log[v], Len(h.log[v])) /\ Len(h.log[v]) \in Nat /\ Len(g.log[v]) \in Nat
    BY HistoryTypes DEF Longer
<1>3. k <= Len(g.log[t]) /\ g.log[t][k] = h.log[t][k]
    BY <1>1, <1>2 DEF Shares
<1>4. k <= Len(g.log[v]) /\ g.log[v][k] = h.log[v][k]
    BY <1>1, <1>2 DEF Shares
<1> QED BY <1>1, <1>3, <1>4 DEF Differs

\* A grown log stays grown when leaders' logs grow.
LEMMA GrownLonger ==
    ASSUME NEW h \in History, NEW g \in History, Longer(h, g), NEW l, Grown(h, l)
    PROVE  Grown(g, l)
<1> SUFFICES ASSUME NEW i \in 1 .. Len(l)
             PROVE  l[i].index = i /\ l[i].term >= 1 /\ Shares(l, g.log[l[i].term], i)
    BY DEF Grown
<1>1. l \in Seq(Entry) /\ l[i].index = i /\ l[i].term >= 1 /\ Shares(l, h.log[l[i].term], i)
    BY DEF Grown
<1>2. l[i].term \in Nat
    BY <1>1, EntryOf
<1>3. \A k : \A j \in Int : Shares(k, h.log[l[i].term], j) => Shares(k, g.log[l[i].term], j)
    BY <1>2, SharesLonger
<1>4. i \in Int
    OBVIOUS
<1>5. Shares(l, g.log[l[i].term], i)
    BY <1>1, <1>3, <1>4
<1> QED BY <1>1, <1>5

\* A log that carries what a node acknowledged still does when leaders' logs grow.
LEMMA CarriesLonger ==
    ASSUME NEW h \in History, NEW g \in History, Longer(h, g), NEW l, NEW u \in Nat, NEW m \in Node,
           \A t \in Nat : h.ack[t][m] <= Len(h.log[t]),
           \A t \in Nat : t < u => g.ack[t][m] = h.ack[t][m],
           Carries(h, l, u, m)
    PROVE  Carries(g, l, u, m)
<1> SUFFICES ASSUME NEW t \in Nat, t < u, NEW i \in 1 .. g.ack[t][m], g.log[t][i].term = t
             PROVE  \/ Shares(l, g.log[t], i)
                    \/ \E v \in Nat : t < v /\ v < u /\ Differs(g.log[v], g.log[t], i)
    BY DEF Carries
<1>1. i \in 1 .. h.ack[t][m] /\ h.ack[t][m] \in Nat /\ h.ack[t][m] <= Len(h.log[t])
    BY HistoryTypes
<1>2. Shares(g.log[t], h.log[t], Len(h.log[t])) /\ Len(h.log[t]) \in Nat
    BY HistoryTypes DEF Longer
<1>3. h.log[t][i].term = t
    <2>1. i \in 1 .. Len(h.log[t])
        BY <1>1, <1>2
    <2>2. g.log[t][i] = h.log[t][i]
        BY <1>2, <2>1 DEF Shares
    <2> QED BY <2>2
<1>4. CASE Shares(l, h.log[t], i)
    <2>1. \A k : \A j \in Int : Shares(k, h.log[t], j) => Shares(k, g.log[t], j)
        BY SharesLonger
    <2> QED BY <1>1, <1>4, <2>1
<1>5. CASE \E v \in Nat : t < v /\ v < u /\ Differs(h.log[v], h.log[t], i)
    BY <1>5, DiffersLonger
<1> QED BY <1>1, <1>3, <1>4, <1>5 DEF Carries

\* A history in which leader leads term u with the log k, of which node n acknowledges j
\* entries.
Led(h, g, n, u, k, leader, j) ==
    /\ Longer(h, g) /\ g.vote = h.vote /\ g.cand = h.cand
    /\ \A t \in Nat : t # u => g.log[t] = h.log[t] /\ g.leader[t] = h.leader[t]
    /\ g.log[u] = k /\ g.leader[u] = leader
    /\ \A t \in Nat, m \in Node :
          g.ack[t][m] = IF t = u /\ m = n /\ j > h.ack[t][m] THEN j ELSE h.ack[t][m]

TermsTo(l, u) == \A i \in 1 .. Len(l) : l[i].term <= u
Elects(h, u, k, leader, Q) ==
    Quorum(Q) /\ \A m \in Q : h.vote[u][m] = leader /\ Carries(h, k, u, m)
Follows(l, old, k) == \A i \in 1 .. Len(old) : Shares(l, old, i) \/ Differs(old, k, i)

\* There is a history in which a leader's log is longer and n acknowledges j entries of it.
LEMMA LedHistory ==
    ASSUME NEW h \in History, NEW n \in Node, NEW u \in Nat, NEW k \in Seq(Entry),
           Shares(k, h.log[u], Len(h.log[u])), NEW leader \in Node, NEW j \in Nat
    PROVE  \E g \in History : Led(h, g, n, u, k, leader, j)
<1> DEFINE log == [t \in Nat |-> IF t = u THEN k ELSE h.log[t]]
           leads == [t \in Nat |-> IF t = u THEN leader ELSE h.leader[t]]
           ack == [t \in Nat |-> [m \in Node |->
                      IF t = u /\ m = n /\ j > h.ack[t][m] THEN j ELSE h.ack[t][m]]]
           g == [log |-> log, leader |-> leads, vote |-> h.vote, cand |-> h.cand, ack |-> ack]
<1>1. /\ log \in [Nat -> Seq(Entry)] /\ leads \in [Nat -> Node \cup {Nobody}]
      /\ ack \in [Nat -> [Node -> Nat]]
    BY HistoryTypes
<1>2. /\ \A t \in Nat : t # u => log[t] = h.log[t] /\ leads[t] = h.leader[t]
      /\ log[u] = k /\ leads[u] = leader
      /\ \A t \in Nat, m \in Node :
            ack[t][m] = IF t = u /\ m = n /\ j > h.ack[t][m] THEN j ELSE h.ack[t][m]
    OBVIOUS
<1>3. \A t \in Nat : Shares(log[t], h.log[t], Len(h.log[t]))
    BY HistoryTypes DEF Shares
<1> HIDE DEF log, leads, ack
<1>4. g \in History
    BY <1>1 DEF History
<1>5. g.log = log /\ g.leader = leads /\ g.vote = h.vote /\ g.cand = h.cand /\ g.ack = ack
    OBVIOUS
<1> HIDE DEF g
<1>6. Led(h, g, n, u, k, leader, j)
    BY <1>2, <1>3, <1>5 DEF Led, Longer
<1> QED BY <1>4, <1>6

\* The same, of every log.
LEMMA LongerGrown ==
    ASSUME NEW h \in History, NEW g \in History, Longer(h, g)
    PROVE  \A l : Grown(h, l) => Grown(g, l)
BY GrownLonger

\* A node takes l for its log, and acknowledges j entries of the log k of its term's leader.
LEMMA CoreAdvance ==
    ASSUME NEW h, NEW tm, NEW lg, Core(h, tm, lg), NEW n \in Node, NEW u \in Nat, tm[n] = u,
           NEW k, NEW leader \in Node, NEW j \in Nat, NEW g \in History,
           Led(h, g, n, u, k, leader, j),
           NEW l, Grown(g, l), TermsTo(l, u), Shares(l, k, j), Follows(l, lg[n], k),
           Grown(g, k), TermsTo(k, u), k # <<>>, k[Len(k)].term = u,
           u <= tm[leader], NEW Q \in SUBSET Node, Elects(h, u, k, leader, Q)
    PROVE  Core(g, tm, [lg EXCEPT ![n] = l])
<1>a. /\ Longer(h, g) /\ g.vote = h.vote /\ g.cand = h.cand
      /\ \A t \in Nat : t # u => g.log[t] = h.log[t] /\ g.leader[t] = h.leader[t]
      /\ g.log[u] = k /\ g.leader[u] = leader
      /\ \A t \in Nat, m \in Node :
            g.ack[t][m] = IF t = u /\ m = n /\ j > h.ack[t][m] THEN j ELSE h.ack[t][m]
    BY DEF Led
<1>b. /\ \A i \in 1 .. Len(l) : l[i].term <= u
      /\ \A i \in 1 .. Len(g.log[u]) : g.log[u][i].term <= u
      /\ \A i \in 1 .. Len(lg[n]) : Shares(l, lg[n], i) \/ Differs(lg[n], g.log[u], i)
      /\ Quorum(Q) /\ \A m \in Q : h.vote[u][m] = g.leader[u] /\ Carries(h, g.log[u], u, m)
      /\ Shares(l, g.log[u], j) /\ Grown(g, g.log[u]) /\ g.log[u] # <<>>
      /\ g.log[u][Len(g.log[u])].term = u
      /\ g.leader[u] \in Node /\ u <= tm[g.leader[u]]
    BY <1>a DEF TermsTo, Follows, Elects
<1> DEFINE ln == [lg EXCEPT ![n] = l]
<1>1. h \in History /\ tm \in [Node -> Nat] /\ lg \in [Node -> Seq(Entry)] /\ Nobody \notin Node
      /\ AcksInv(h, tm) /\ VotesInv(h, tm)
    BY KVAssumption DEF Core, CoreTypes
<1>2. l \in Seq(Entry) /\ ln[n] = l /\ \A m \in Node : m # n => ln[m] = lg[m]
    BY <1>a, <1>b, <1>1 DEF Grown
<1>3. CoreTypes(g, tm, ln)
    BY <1>a, <1>b, <1>1, <1>2 DEF CoreTypes
<1>4. \A o : Grown(h, o) => Grown(g, o)
    BY <1>a, <1>b, <1>1, LongerGrown
<1>5. LeadersLogs(g)
    <2> SUFFICES ASSUME NEW t \in Nat
                 PROVE  /\ Grown(g, g.log[t]) /\ \A i \in 1 .. Len(g.log[t]) : g.log[t][i].term <= t
                        /\ g.log[t] # <<>> => g.log[t][Len(g.log[t])].term = t
        BY <1>a, <1>b DEF LeadersLogs
    <2>1. CASE t = u
        BY <1>a, <1>b, <2>1
    <2>2. CASE t # u
        BY <1>a, <1>b, <1>4, <2>2 DEF Core, LeadersLogs
    <2> QED BY <1>a, <1>b, <2>1, <2>2
<1>6. NodesLogs(g, tm, ln)
    <2> SUFFICES ASSUME NEW m \in Node
                 PROVE  Grown(g, ln[m]) /\ \A i \in 1 .. Len(ln[m]) : ln[m][i].term <= tm[m]
        BY <1>a, <1>b DEF NodesLogs
    <2>1. CASE m = n
        BY <1>a, <1>b, <1>2, <2>1
    <2>2. CASE m # n
        BY <1>a, <1>b, <1>2, <1>4, <2>2 DEF Core, NodesLogs
    <2> QED BY <1>a, <1>b, <2>1, <2>2
<1>7. CandidatesLogs(g)
    BY <1>a, <1>b, <1>4 DEF Core, CandidatesLogs
<1>8. VotesInv(g, tm)
    BY <1>a, <1>b, <1>1 DEF VotesInv
<1>9. \A t \in Nat : Len(h.log[t]) <= Len(g.log[t]) /\ Len(h.log[t]) \in Nat /\ Len(g.log[t]) \in Nat
    BY <1>a, <1>b, <1>1, HistoryTypes DEF Longer, Shares
<1>10. AcksInv(g, tm)
    <2> SUFFICES ASSUME NEW t \in Nat, NEW m \in Node
                 PROVE  g.ack[t][m] <= Len(g.log[t]) /\ (g.ack[t][m] > 0 => t <= tm[m])
        BY <1>a, <1>b DEF AcksInv
    <2>1. h.ack[t][m] <= Len(h.log[t]) /\ (h.ack[t][m] > 0 => t <= tm[m]) /\ h.ack[t][m] \in Nat
        BY <1>a, <1>b, <1>1, HistoryTypes DEF AcksInv
    <2>2. CASE t = u /\ m = n /\ j > h.ack[t][m]
        BY <1>a, <1>b, <1>1, <1>9, <2>2 DEF Shares
    <2>3. CASE ~(t = u /\ m = n /\ j > h.ack[t][m])
        <3>1. g.ack[t][m] = h.ack[t][m]
            BY <1>a, <1>b, <2>3
        <3>2. Len(h.log[t]) <= Len(g.log[t]) /\ Len(h.log[t]) \in Nat /\ Len(g.log[t]) \in Nat
            BY <1>9
        <3> QED BY <2>1, <3>1, <3>2
    <2> QED BY <1>a, <1>b, <2>2, <2>3
<1>11. AckedStays(g, tm, ln)
    <2> SUFFICES ASSUME NEW t \in Nat, NEW m \in Node, NEW i \in 1 .. g.ack[t][m],
                        g.log[t][i].term = t
                 PROVE  \/ Shares(ln[m], g.log[t], i)
                        \/ \E v \in Nat : t < v /\ v <= tm[m] /\ Differs(g.log[v], g.log[t], i)
        BY <1>a, <1>b DEF AckedStays
    <2>1. h.ack[t][m] \in Nat /\ g.ack[t][m] \in Nat /\ h.log[t] \in Seq(Entry) /\ g.log[t] \in Seq(Entry)
          /\ g.log[u] \in Seq(Entry) /\ lg[n] \in Seq(Entry)
        BY <1>a, <1>b, <1>1, HistoryTypes
    <2>1a. i \in Nat /\ i \in Int
        BY <1>a, <1>b, <2>1
    <2>1b. \A p : \A o \in Int : Shares(p, h.log[t], o) => Shares(p, g.log[t], o)
        BY <1>a, <1>b, <1>1, SharesLonger
    <2>2. CASE i <= h.ack[t][m]
        <3>1. /\ h.ack[t][m] <= Len(h.log[t]) /\ (h.ack[t][m] > 0 => t <= tm[m])
              /\ i \in 1 .. h.ack[t][m]
            BY <1>a, <1>b, <1>1, <2>1, <2>2 DEF AcksInv
        <3>2. h.log[t][i].term = t
            <4>1. Shares(g.log[t], h.log[t], Len(h.log[t])) /\ Len(h.log[t]) \in Nat
                BY <1>a, <1>b, <1>9 DEF Longer
            <4>2. i \in 1 .. Len(h.log[t])
                BY <2>1, <3>1, <4>1
            <4>3. g.log[t][i] = h.log[t][i]
                BY <4>1, <4>2 DEF Shares
            <4> QED BY <4>3
        <3>3. CASE \E v \in Nat : t < v /\ v <= tm[m] /\ Differs(h.log[v], h.log[t], i)
            BY <1>a, <1>b, <1>1, <2>1, <3>3, DiffersLonger
        <3>4. CASE Shares(lg[m], h.log[t], i) /\ m # n
            <4>1. Shares(ln[m], g.log[t], i)
                BY <1>a, <1>b, <1>2, <2>1a, <2>1b, <3>4
            <4> QED BY <1>a, <1>b, <4>1
        <3>5. CASE Shares(lg[m], h.log[t], i) /\ m = n
            <4>1. Shares(lg[n], g.log[t], i)
                BY <1>a, <1>b, <2>1a, <2>1b, <3>5
            <4>2. i \in 1 .. Len(lg[n])
                BY <1>a, <1>b, <2>1, <4>1 DEF Shares
            <4>3. CASE Shares(l, lg[n], i)
                BY <1>a, <1>b, <1>2, <3>5, <4>1, <4>3, SharesSame
            <4>4. CASE Differs(lg[n], g.log[u], i)
                <5>1. Differs(g.log[u], g.log[t], i)
                    <6>1. PICK o \in 1 .. i : o <= Len(lg[n]) /\ o <= Len(g.log[u]) /\ lg[n][o] # g.log[u][o]
                        BY <1>a, <1>b, <4>4 DEF Differs
                    <6>2. o <= Len(g.log[t]) /\ lg[n][o] = g.log[t][o]
                        BY <1>a, <1>b, <1>9, <2>1, <4>1, <6>1 DEF Shares
                    <6> QED BY <1>a, <1>b, <6>1, <6>2 DEF Differs
                <5>2. t # u
                    BY <1>a, <1>b, <5>1 DEF Differs
                <5>3. t < u /\ u <= tm[m]
                    BY <1>a, <1>b, <1>1, <2>1, <2>2, <3>1, <3>5, <5>2
                <5> QED BY <1>a, <1>b, <5>1, <5>3
            <4> QED BY <1>a, <1>b, <4>2, <4>3, <4>4
        <3>6. \/ Shares(lg[m], h.log[t], i)
              \/ \E v \in Nat : t < v /\ v <= tm[m] /\ Differs(h.log[v], h.log[t], i)
            BY <1>a, <1>b, <3>1, <3>2 DEF Core, AckedStays
        <3> QED BY <1>a, <1>b, <3>3, <3>4, <3>5, <3>6
    <2>3. CASE i > h.ack[t][m]
        <3>1. t = u /\ m = n /\ i <= j
            BY <1>a, <1>b, <2>1, <2>3
        <3> QED BY <1>a, <1>b, <1>2, <2>1, <3>1, SharesLess
    <2> QED BY <1>a, <1>b, <2>1, <2>2, <2>3
<1>12. ASSUME NEW v \in Nat, NEW m \in Node, h.vote[v][m] # Nobody, NEW o, Carries(h, o, v, m)
       PROVE  Carries(g, o, v, m)
    <2>1. v <= tm[m]
        BY <1>a, <1>b, <1>1, <1>12 DEF VotesInv
    <2>2. \A t \in Nat : t < v => g.ack[t][m] = h.ack[t][m]
        BY <1>a, <1>b, <1>1, <2>1
    <2>3. \A t \in Nat : h.ack[t][m] <= Len(h.log[t])
        BY <1>a, <1>b, <1>1 DEF AcksInv
    <2> QED BY <1>a, <1>b, <1>1, <1>12, <2>2, <2>3, CarriesLonger
<1>13. VotersCarry(g)
    <2> SUFFICES ASSUME NEW v \in Nat, NEW m \in Node, g.vote[v][m] # Nobody, g.log[v] = <<>>
                 PROVE  Carries(g, g.cand[v][g.vote[v][m]], v, m)
        BY <1>a, <1>b DEF VotersCarry
    <2>1. h.log[v] = <<>> /\ h.vote[v][m] # Nobody
        BY <1>a, <1>b
    <2> QED BY <1>a, <1>b, <1>12, <2>1 DEF Core, VotersCarry
<1>14. LeadersElected(g, tm)
    <2> SUFFICES ASSUME NEW v \in Nat
                 PROVE  /\ g.log[v] = <<>> => g.leader[v] = Nobody
                        /\ g.log[v] # <<>> =>
                              g.leader[v] \in Node /\ v <= tm[g.leader[v]] /\ \E P \in SUBSET Node : Supported(g, v, P)
        BY <1>a, <1>b DEF LeadersElected
    <2>1. CASE v = u
        <3>1. \A m \in Q : g.vote[u][m] = g.leader[u] /\ Carries(g, g.log[u], u, m)
            BY <1>a, <1>b, <1>1, <1>12
        <3>2. Supported(g, u, Q)
            BY <1>a, <1>b, <3>1 DEF Supported
        <3> QED BY <1>a, <1>b, <2>1, <3>2
    <2>2. CASE v # u
        <3>1. g.log[v] = h.log[v] /\ g.leader[v] = h.leader[v]
            BY <1>a, <1>b, <2>2
        <3>2. CASE h.log[v] = <<>>
            BY <1>a, <1>b, <3>1, <3>2 DEF Core, LeadersElected
        <3>3. CASE h.log[v] # <<>>
            <4>1. PICK P \in SUBSET Node : Supported(h, v, P)
                BY <1>a, <1>b, <3>3 DEF Core, LeadersElected
            <4>2. h.leader[v] \in Node /\ v <= tm[h.leader[v]]
                BY <1>a, <1>b, <3>3 DEF Core, LeadersElected
            <4>3. ASSUME NEW m \in P PROVE g.vote[v][m] = g.leader[v] /\ Carries(g, g.log[v], v, m)
                <5>1. m \in Node /\ h.vote[v][m] = h.leader[v] /\ Carries(h, h.log[v], v, m)
                    BY <4>1 DEF Supported
                <5>2. g.vote[v][m] = h.vote[v][m]
                    BY <1>a, <1>b, <5>1
                <5>3. h.vote[v][m] # Nobody
                    BY <1>a, <1>b, <1>1, <4>2, <5>1
                <5> QED BY <1>12, <3>1, <5>1, <5>2, <5>3
            <4>4. Supported(g, v, P)
                BY <1>a, <1>b, <4>1, <4>3 DEF Supported
            <4> QED BY <1>a, <1>b, <3>1, <3>3, <4>2, <4>4
        <3> QED BY <1>a, <1>b, <3>2, <3>3
    <2> QED BY <1>a, <1>b, <2>1, <2>2
<1> QED BY <1>a, <1>b, <1>3, <1>5, <1>6, <1>7, <1>8, <1>10, <1>11, <1>13, <1>14 DEF Core

\* What a step of node n, in term k before it, may add to a history.
Extends(h, g, n, k) ==
    /\ g \in History /\ Longer(h, g)
    /\ \A t \in Nat :
         /\ g.log[t] = h.log[t] \/ g.leader[t] = n
         /\ g.leader[t] = h.leader[t] \/ (h.leader[t] = Nobody /\ g.leader[t] = n)
         /\ h.vote[t][n] # Nobody => g.vote[t][n] = h.vote[t][n]
         /\ t <= k => g.cand[t][n] = h.cand[t][n]
         /\ \A m \in Node :
              /\ h.ack[t][m] <= g.ack[t][m]
              /\ m # n => /\ g.vote[t][m] = h.vote[t][m] /\ g.cand[t][m] = h.cand[t][m]
                          /\ g.ack[t][m] = h.ack[t][m]

\* A history extends itself.
LEMMA ExtendsSelf ==
    ASSUME NEW h \in History, NEW n, NEW k
    PROVE  Extends(h, h, n, k)
BY HistoryTypes DEF Extends, Longer, Shares

\* Two extensions by the same node are one.
LEMMA ExtendsTwice ==
    ASSUME NEW h \in History, NEW g, NEW f, NEW n \in Node, NEW k \in Nat, NEW j \in Nat,
           Extends(h, g, n, k), Extends(g, f, n, j), k <= j
    PROVE  Extends(h, f, n, k)
<1>1. /\ h \in History /\ g \in History /\ f \in History /\ Longer(h, g) /\ Longer(g, f)
      /\ Nobody \notin Node
    BY KVAssumption DEF Extends
<1>2. Longer(h, f)
    <2> SUFFICES ASSUME NEW t \in Nat PROVE Shares(f.log[t], h.log[t], Len(h.log[t]))
        BY DEF Longer
    <2>1. Shares(g.log[t], h.log[t], Len(h.log[t])) /\ Shares(f.log[t], g.log[t], Len(g.log[t]))
        BY <1>1 DEF Longer
    <2>2. /\ h.log[t] \in Seq(Entry) /\ g.log[t] \in Seq(Entry) /\ f.log[t] \in Seq(Entry)
          /\ Len(h.log[t]) \in Nat /\ Len(g.log[t]) \in Nat
        BY <1>1, HistoryTypes
    <2>3. Len(h.log[t]) <= Len(g.log[t])
        BY <2>1 DEF Shares
    <2>4. Shares(f.log[t], g.log[t], Len(h.log[t]))
        BY <2>1, <2>2, <2>3, SharesLess
    <2> QED BY <2>1, <2>4, SharesSame
<1>3. ASSUME NEW t \in Nat
      PROVE  /\ f.log[t] = h.log[t] \/ f.leader[t] = n
             /\ f.leader[t] = h.leader[t] \/ (h.leader[t] = Nobody /\ f.leader[t] = n)
             /\ h.vote[t][n] # Nobody => f.vote[t][n] = h.vote[t][n]
             /\ t <= k => f.cand[t][n] = h.cand[t][n]
    BY <1>1 DEF Extends
<1>4. ASSUME NEW t \in Nat, NEW m \in Node
      PROVE  /\ h.ack[t][m] <= f.ack[t][m]
             /\ m # n => /\ f.vote[t][m] = h.vote[t][m] /\ f.cand[t][m] = h.cand[t][m]
                         /\ f.ack[t][m] = h.ack[t][m]
    <2>1. h.ack[t][m] \in Nat /\ g.ack[t][m] \in Nat /\ f.ack[t][m] \in Nat
        BY <1>1, HistoryTypes
    <2>2. h.ack[t][m] <= g.ack[t][m] /\ g.ack[t][m] <= f.ack[t][m]
        BY DEF Extends
    <2> QED BY <2>1, <2>2 DEF Extends
<1> QED BY <1>1, <1>2, <1>3, <1>4 DEF Extends

\* What is chosen stays chosen.
LEMMA ChosenStays ==
    ASSUME NEW h \in History, NEW g, NEW n \in Node, NEW k, Extends(h, g, n, k), NEW t \in Nat,
           NEW i,
           Chosen(h, t, i)
    PROVE  Chosen(g, t, i) /\ i \in Nat
<1>1. g \in History /\ Shares(g.log[t], h.log[t], Len(h.log[t])) /\ Len(h.log[t]) \in Nat
    BY HistoryTypes DEF Extends, Longer
<1>2. i \in 1 .. Len(h.log[t]) /\ h.log[t][i].term = t
    BY DEF Chosen
<1>3. Len(g.log[t]) \in Nat
    BY <1>1, HistoryTypes
<1>4. i \in 1 .. Len(g.log[t]) /\ g.log[t][i].term = t
    BY <1>1, <1>2, <1>3 DEF Shares
<1> DEFINE P == {p \in Node : h.ack[t][p] >= i}
           R == {p \in Node : g.ack[t][p] >= i}
<1>5. P \subseteq R
    <2> SUFFICES ASSUME NEW p \in Node, h.ack[t][p] >= i PROVE g.ack[t][p] >= i
        OBVIOUS
    <2>1. h.ack[t][p] <= g.ack[t][p]
        BY DEF Extends
    <2>2. h.ack[t][p] \in Nat /\ g.ack[t][p] \in Nat /\ i \in Nat
        BY <1>1, <1>2, HistoryTypes
    <2> QED BY <2>1, <2>2
<1>6. Quorum(P)
    BY DEF Chosen
<1>7. Quorum(R)
    BY <1>5, <1>6, QuorumGrows
<1> QED BY <1>2, <1>4, <1>7 DEF Chosen

\* What is settled in a term is settled in a later one.
LEMMA SettledLater ==
    ASSUME NEW h, NEW u \in Nat, NEW v \in Nat, u <= v, NEW l, NEW c, Settled(h, u, l, c)
    PROVE  Settled(h, v, l, c)
BY DEF Settled

\* A log settled up to c is settled up to less.
LEMMA SettledLess ==
    ASSUME NEW h \in History, NEW u \in Nat, NEW l \in Seq(Entry), NEW c \in Nat, NEW d \in Nat,
           d <= c,
           Settled(h, u, l, c)
    PROVE  Settled(h, u, l, d)
<1>1. CASE c = 0
    BY <1>1 DEF Settled
<1>2. CASE c # 0
    <2>1. PICK t \in Nat, i \in Nat : t <= u /\ Chosen(h, t, i) /\ c <= i /\ Shares(l, h.log[t], c)
        BY <1>2 DEF Settled
    <2>2. h.log[t] \in Seq(Entry)
        BY HistoryTypes
    <2>3. Shares(l, h.log[t], d)
        BY <2>1, <2>2, SharesLess
    <2> QED BY <2>1, <2>3 DEF Settled
<1> QED BY <1>1, <1>2

\* A log that shares with a settled one is settled as far.
LEMMA SettledShared ==
    ASSUME NEW h, NEW u \in Nat, NEW l \in Seq(Entry), NEW m \in Seq(Entry), NEW c \in Nat,
           Settled(h, u, l, c), Shares(m, l, c)
    PROVE  Settled(h, u, m, c)
<1>1. CASE c = 0
    BY <1>1 DEF Settled
<1>2. CASE c # 0
    <2>1. PICK t \in Nat, i \in Nat : t <= u /\ Chosen(h, t, i) /\ c <= i /\ Shares(l, h.log[t], c)
        BY <1>2 DEF Settled
    <2>2. Shares(m, h.log[t], c)
        BY <2>1 DEF Shares
    <2> QED BY <2>1, <2>2 DEF Settled
<1> QED BY <1>1, <1>2

\* What is settled stays settled as the history grows.
LEMMA SettledStays ==
    ASSUME NEW h \in History, NEW g, NEW n \in Node, NEW k, Extends(h, g, n, k), NEW u \in Nat,
           NEW l,
           NEW c \in Nat, Settled(h, u, l, c)
    PROVE  Settled(g, u, l, c)
<1>1. CASE c = 0
    BY <1>1 DEF Settled
<1>2. CASE c # 0
    <2>1. PICK t \in Nat, i \in Nat : t <= u /\ Chosen(h, t, i) /\ c <= i /\ Shares(l, h.log[t], c)
        BY <1>2 DEF Settled
    <2>2. g \in History /\ Longer(h, g)
        BY DEF Extends
    <2>3. \A m : \A o \in Int : Shares(m, h.log[t], o) => Shares(m, g.log[t], o)
        BY <2>2, SharesLonger
    <2>4. Shares(l, g.log[t], c)
        BY <2>1, <2>3
    <2>5. Chosen(g, t, i)
        BY <2>1, ChosenStays
    <2> QED BY <2>1, <2>4, <2>5 DEF Settled
<1> QED BY <1>1, <1>2

\* What is settled holds in the log of every leader since.
LEMMA SettledInLeader ==
    ASSUME NEW h, NEW tm, NEW lg, Core(h, tm, lg), NEW t \in Nat, NEW u \in Nat, t <= u,
           h.log[u] # <<>>,
           NEW l \in Seq(Entry), NEW c \in Nat, Settled(h, t, l, c)
    PROVE  Shares(h.log[u], l, c)
<1>1. h \in History /\ Len(l) \in Nat
    BY LenProperties DEF Core, CoreTypes
<1>1a. h.log[u] \in Seq(Entry) /\ Len(h.log[u]) \in Nat
    BY <1>1, HistoryTypes
<1>2. CASE c = 0
    BY <1>1, <1>1a, <1>2 DEF Shares
<1>3. CASE c # 0
    <2>1. PICK v \in Nat, i \in Nat : v <= t /\ Chosen(h, v, i) /\ c <= i /\ Shares(l, h.log[v], c)
        BY <1>3 DEF Settled
    <2>2. Shares(h.log[u], h.log[v], c)
        <3>1. CASE v = u
            BY <1>1, <1>1a, <2>1, <3>1 DEF Chosen, Shares
        <3>2. CASE v < u
            <4>1. Shares(h.log[u], h.log[v], i)
                BY <2>1, <3>2, Safety
            <4>2. h.log[v] \in Seq(Entry)
                BY <1>1, <1>1a, HistoryTypes
            <4> QED BY <1>1, <1>1a, <2>1, <4>1, <4>2, SharesLess
        <3> QED BY <2>1, <3>1, <3>2
    <2> QED BY <2>1, <2>2, SharesSame
<1> QED BY <1>2, <1>3

\* Two settled logs hold the same entry where both are settled.
LEMMA SettledAgree ==
    ASSUME NEW h, NEW tm, NEW lg, Core(h, tm, lg), NEW t \in Nat, NEW u \in Nat,
           NEW l \in Seq(Entry), NEW m \in Seq(Entry), NEW c \in Nat, NEW d \in Nat,
           Settled(h, t, l, c), Settled(h, u, m, d), NEW k \in Nat, k >= 1, k <= c, k <= d
    PROVE  l[k] = m[k] /\ k <= Len(l) /\ k <= Len(m)
<1>1. h \in History /\ Len(l) \in Nat /\ Len(m) \in Nat
    BY DEF Core, CoreTypes
<1>2. PICK v \in Nat, i \in Nat : v <= t /\ Chosen(h, v, i) /\ c <= i /\ Shares(l, h.log[v], c)
    BY DEF Settled
<1>3. PICK w \in Nat, j \in Nat : w <= u /\ Chosen(h, w, j) /\ d <= j /\ Shares(m, h.log[w], d)
    BY DEF Settled
<1>4. h.log[v] # <<>> /\ h.log[w] # <<>>
    <2>1. i \in 1 .. Len(h.log[v]) /\ j \in 1 .. Len(h.log[w])
        BY <1>2, <1>3 DEF Chosen
    <2> QED BY <1>1, <2>1, HistoryTypes
<1> DEFINE a == h.log[v]
           b == h.log[w]
<1>a. k \in 1 .. i /\ k \in 1 .. j
    BY <1>2, <1>3
<1>5. h.log[v][k] = h.log[w][k]
    <2>1. CASE v < w
        <3>1. Shares(b, a, i)
            BY <1>2, <1>4, <2>1, Safety
        <3> HIDE DEF a, b
        <3>2. b[k] = a[k]
            BY <1>a, <3>1 DEF Shares
        <3> QED BY <3>2 DEF a, b
    <2>2. CASE w < v
        <3>1. Shares(a, b, j)
            BY <1>3, <1>4, <2>2, Safety
        <3> HIDE DEF a, b
        <3>2. a[k] = b[k]
            BY <1>a, <3>1 DEF Shares
        <3> QED BY <3>2 DEF a, b
    <2>3. CASE v = w
        BY <2>3
    <2> QED BY <2>1, <2>2, <2>3
<1> QED BY <1>1, <1>2, <1>3, <1>4, <1>5 DEF Shares

\* A vote request or answer stays true as the history grows.
LEMMA BallotStays ==
    ASSUME NEW h \in History, NEW g, NEW n \in Node, NEW tm \in [Node -> Nat],
           NEW tn \in [Node -> Nat],
           \A m \in Node : tm[m] <= tn[m], Extends(h, g, n, tm[n]), NEW q, BallotOK(h, tm, q)
    PROVE  BallotOK(g, tn, q)
<1>1. Nobody \notin Node /\ g \in History
    BY KVAssumption DEF Extends
<1>2. CASE q.kind = "ask" /\ AskOK(h, tm, q)
    <2>1. g.cand[q.term][q.from] = h.cand[q.term][q.from]
        BY <1>2 DEF AskOK, Extends
    <2>2. q.term <= tn[q.from]
        BY <1>2 DEF AskOK
    <2> QED BY <1>2, <2>1, <2>2 DEF AskOK, BallotOK
<1>3. CASE q.kind = "answer" /\ AnswerOK(h, q)
    <2>1. q.granted => g.vote[q.asked][q.from] = q.to
        BY <1>1, <1>3 DEF AnswerOK, Extends
    <2> QED BY <1>3, <2>1 DEF AnswerOK, BallotOK
<1> QED BY <1>2, <1>3 DEF BallotOK

\* m continues l, which is not empty.
Continues(l, m) ==
    /\ m # <<>> /\ l \in Seq(Entry) /\ m \in Seq(Entry)
    /\ Len(l) \in Nat /\ Len(m) \in Nat /\ Len(l) <= Len(m)
    /\ \A i \in 1 .. Len(l) : m[i] = l[i]

\* What a leader's log held it goes on holding.
LEMMA LogStays ==
    ASSUME NEW h \in History, NEW g, NEW n \in Node, NEW k, Extends(h, g, n, k)
    PROVE  \A t \in Nat : h.log[t] # <<>> => Continues(h.log[t], g.log[t])
<1> SUFFICES ASSUME NEW t \in Nat, h.log[t] # <<>>
             PROVE  Continues(h.log[t], g.log[t])
    OBVIOUS
<1>1. /\ h.log[t] \in Seq(Entry) /\ g.log[t] \in Seq(Entry)
      /\ Len(h.log[t]) \in Nat /\ Len(g.log[t]) \in Nat
    BY HistoryTypes DEF Extends
<1>2. Shares(g.log[t], h.log[t], Len(h.log[t]))
    BY DEF Extends, Longer
<1>3. Len(h.log[t]) # 0
    BY <1>1
<1> QED BY <1>1, <1>2, <1>3 DEF Shares, Continues

\* A leader's log stays settled as it grows.
LEMMA SettledLogStays ==
    ASSUME NEW h \in History, NEW g, NEW n \in Node, NEW k, Extends(h, g, n, k), NEW t \in Nat,
           h.log[t] # <<>>,
           NEW c \in Nat, Settled(h, t, h.log[t], c)
    PROVE  Settled(g, t, g.log[t], c)
<1>1. /\ g \in History /\ h.log[t] \in Seq(Entry) /\ g.log[t] \in Seq(Entry)
      /\ Shares(g.log[t], h.log[t], Len(h.log[t])) /\ Len(h.log[t]) \in Nat
    BY HistoryTypes DEF Extends, Longer
<1>2. Settled(g, t, h.log[t], c)
    BY SettledStays
<1>3. CASE c = 0
    BY <1>3 DEF Settled
<1>4. CASE c # 0
    <2>1. c <= Len(h.log[t])
        BY <1>4 DEF Settled, Shares
    <2>2. Shares(g.log[t], h.log[t], c)
        BY <1>1, <2>1, SharesLess
    <2> QED BY <1>1, <1>2, <2>2, SettledShared
<1> QED BY <1>3, <1>4

\* An AppendEntries request stays true as the history grows.
LEMMA SentStays ==
    ASSUME NEW h, NEW tm, NEW lg, Core(h, tm, lg), NEW g, NEW n \in Node, NEW k,
           Extends(h, g, n, k), NEW p, NEW q,
           SentOK(h, p, q)
    PROVE  SentOK(g, p, q)
<1> DEFINE t == q.term
<1>1. t \in Nat /\ h.log[t] # <<>> /\ h \in History /\ Nobody \notin Node
    BY KVAssumption DEF SentOK, Core, CoreTypes
<1>2. g.leader[t] = h.leader[t]
    <2>1. h.leader[t] \in Node
        BY <1>1 DEF Core, LeadersElected
    <2> QED BY <1>1, <2>1 DEF Extends
<1>3. /\ g.log[t] # <<>> /\ Len(h.log[t]) \in Nat /\ Len(g.log[t]) \in Nat
      /\ Len(h.log[t]) <= Len(g.log[t])
      /\ \A i \in 1 .. Len(h.log[t]) : g.log[t][i] = h.log[t][i]
    <2>1. Continues(h.log[t], g.log[t])
        BY <1>1, LogStays
    <2> QED BY <1>1, <2>1 DEF Continues
<1>4. /\ q.prev \in Nat /\ q.entries \in Seq(Entry) /\ q.prev + Len(q.entries) <= Len(h.log[t])
      /\ Len(q.entries) \in Nat
    BY LenProperties DEF SentOK
<1>5. q.prevTerm = TermAt(g.log[t], q.prev)
    <2>1. q.prevTerm = TermAt(h.log[t], q.prev)
        BY DEF SentOK
    <2>2. CASE q.prev = 0
        BY <2>1, <2>2 DEF TermAt
    <2>3. CASE q.prev # 0
        <3>1. q.prev \in 1 .. Len(h.log[t])
            BY <1>3, <1>4, <2>3
        <3>2. g.log[t][q.prev] = h.log[t][q.prev]
            BY <1>3, <3>1
        <3> QED BY <2>1, <2>3, <3>2 DEF TermAt
    <2> QED BY <2>2, <2>3
<1>6. q.prev + Len(q.entries) <= Len(g.log[t])
    <2> DEFINE a == q.prev
               b == Len(q.entries)
               c == Len(h.log[t])
               d == Len(g.log[t])
    <2>1. a \in Nat /\ b \in Nat /\ c \in Nat /\ d \in Nat /\ a + b <= c /\ c <= d
        BY <1>3, <1>4
    <2> HIDE DEF a, b, c, d
    <2>2. a + b <= d
        BY <2>1
    <2> QED BY <2>2 DEF a, b, d
<1>7. ASSUME NEW i \in 1 .. Len(q.entries) PROVE q.entries[i] = g.log[t][q.prev + i]
    <2>1. q.prev + i \in 1 .. Len(h.log[t])
        BY <1>3, <1>4
    <2> QED BY <1>3, <2>1 DEF SentOK
<1>8. q.commit \in Nat /\ Settled(g, t, g.log[t], q.commit)
    BY <1>1, SettledLogStays DEF SentOK
<1> QED BY <1>1, <1>2, <1>3, <1>4, <1>5, <1>6, <1>7, <1>8 DEF SentOK

\* A call in flight stays true as the history grows.
LEMMA CallStays ==
    ASSUME NEW h, NEW tm, NEW lg, Core(h, tm, lg), NEW g, NEW n \in Node, NEW k,
           Extends(h, g, n, k),
           NEW p \in Node, NEW c, CallOK(h, p, c)
    PROVE  CallOK(g, p, c)
<1>1. CASE c = Idle
    BY <1>1 DEF CallOK
<1>2. CASE c.stage = "sent" /\ SentOK(h, p, c)
    BY <1>2, SentStays DEF CallOK
<1>3. CASE c.stage = "answered" /\ AnsweredOK(h, p, c)
    <2>1. h \in History /\ g \in History
        BY DEF Core, CoreTypes, Extends
    <2>2. c.asked \in Nat /\ c.match \in Nat
        BY <1>3 DEF AnsweredOK
    <2>3. h.ack[c.asked][p] \in Nat /\ g.ack[c.asked][p] \in Nat
        BY <2>1, <2>2, HistoryTypes
    <2>4. h.ack[c.asked][p] <= g.ack[c.asked][p]
        BY <2>2 DEF Extends
    <2> QED BY <1>3, <2>2, <2>3, <2>4 DEF AnsweredOK, CallOK
<1> QED BY <1>1, <1>2, <1>3 DEF CallOK

\* An entry a client was told of stays chosen.
LEMMA AnsweredStays ==
    ASSUME NEW h \in History, NEW g, NEW n \in Node, NEW k, Extends(h, g, n, k), NEW c,
           NEW t \in Nat, NEW i \in Nat,
           Answered(h, c, t, i)
    PROVE  Answered(g, c, t, i)
<1>1. i \in 1 .. Len(h.log[t]) /\ h.log[t][i].term = t /\ h.log[t][i].cmd = c
    BY DEF Answered
<1>2. h.log[t] # <<>>
    BY <1>1, HistoryTypes
<1>3. i \in 1 .. Len(g.log[t]) /\ g.log[t][i] = h.log[t][i]
    <2>1. Continues(h.log[t], g.log[t])
        BY <1>1, <1>2, LogStays
    <2> QED BY <1>1, <1>2, <2>1 DEF Continues
<1>4. PICK u \in Nat, j \in Nat : Chosen(h, u, j) /\ i <= j /\ Shares(h.log[u], h.log[t], i)
    BY DEF Answered
<1>5. Chosen(g, u, j)
    BY <1>4, ChosenStays
<1>6. h.log[u] # <<>>
    BY <1>4, HistoryTypes DEF Chosen
<1>7. Shares(g.log[u], g.log[t], i)
    <2>1. /\ Len(h.log[u]) \in Nat /\ Len(g.log[u]) \in Nat /\ Len(h.log[u]) <= Len(g.log[u])
          /\ \A o \in 1 .. Len(h.log[u]) : g.log[u][o] = h.log[u][o]
        <3>1. Continues(h.log[u], g.log[u])
            BY <1>6, LogStays
        <3> QED BY <1>6, <3>1 DEF Continues
    <2>2. /\ Len(h.log[t]) \in Nat /\ Len(g.log[t]) \in Nat /\ Len(h.log[t]) <= Len(g.log[t])
          /\ \A o \in 1 .. Len(h.log[t]) : g.log[t][o] = h.log[t][o]
        <3>1. Continues(h.log[t], g.log[t])
            BY <1>2, LogStays
        <3> QED BY <1>2, <3>1 DEF Continues
    <2>3. i <= Len(h.log[u]) /\ i <= Len(h.log[t]) /\ \A o \in 1 .. i : h.log[u][o] = h.log[t][o]
        BY <1>4 DEF Shares
    <2>4. ASSUME NEW o \in 1 .. i PROVE g.log[u][o] = g.log[t][o]
        <3>1. o \in 1 .. Len(h.log[u]) /\ o \in 1 .. Len(h.log[t])
            BY <2>1, <2>2, <2>3
        <3> QED BY <2>1, <2>2, <2>3, <3>1
    <2>5. i <= Len(g.log[u])
        BY <2>1, <2>3
    <2>6. i <= Len(g.log[t])
        BY <2>2, <2>3
    <2> QED BY <2>4, <2>5, <2>6 DEF Shares
<1> QED BY <1>1, <1>3, <1>4, <1>5, <1>7 DEF Answered

\* What a read must return stays in its leader's log.
LEMMA HoldsStays ==
    ASSUME NEW h \in History, NEW g, NEW n \in Node, NEW k, Extends(h, g, n, k), NEW r,
           r.term \in Nat, r.index \in Nat, h.log[r.term] # <<>>, r.index <= Len(h.log[r.term]), Holds(h, r)
    PROVE  Holds(g, r)
<1>1. /\ Len(h.log[r.term]) \in Nat
      /\ \A i \in 1 .. Len(h.log[r.term]) : g.log[r.term][i] = h.log[r.term][i]
    <2>1. Continues(h.log[r.term], g.log[r.term])
        BY LogStays
    <2> QED BY <2>1 DEF Continues
<1> SUFFICES ASSUME NEW c \in r.floor PROVE \E i \in 1 .. r.index : g.log[r.term][i].cmd = c
    BY DEF Holds
<1>2. PICK i \in 1 .. r.index : h.log[r.term][i].cmd = c
    BY DEF Holds
<1>3. i \in 1 .. Len(h.log[r.term])
    BY <1>1
<1> QED BY <1>1, <1>2, <1>3

\* A read in progress stays true as the history and the terms grow.
LEMMA ReadStays ==
    ASSUME NEW h \in History, NEW g, NEW n \in Node, NEW k, Extends(h, g, n, k),
           NEW tm \in [Node -> Nat], NEW tn \in [Node -> Nat], \A m \in Node : tm[m] <= tn[m],
           NEW calls, NEW now,
           \A m \in Node : now[m].stage = "answered" /\ now[m].ok /\ now[m].fresh =>
                               calls[m] = now[m] \/ (now[m].asked \in Nat /\ tm[m] <= now[m].asked),
           NEW p \in Node, NEW r, ReadOK(h, p, r, tm, calls)
    PROVE  ReadOK(g, p, r, tn, now)
<1>1. /\ r.stage \in {"confirm", "apply"} /\ r.term \in Nat /\ r.index \in Nat /\ r.term <= tm[p]
      /\ r.acks \subseteq Node
      /\ h.log[r.term] # <<>> /\ r.index <= Len(h.log[r.term])
      /\ Settled(h, r.term, h.log[r.term], r.index)
    BY DEF ReadOK
<1>2. /\ g.log[r.term] # <<>> /\ r.index <= Len(g.log[r.term])
      /\ Settled(g, r.term, g.log[r.term], r.index)
    <2>1. /\ Len(h.log[r.term]) \in Nat /\ Len(g.log[r.term]) \in Nat
          /\ Len(h.log[r.term]) <= Len(g.log[r.term])
          /\ g.log[r.term] # <<>>
        <3>1. Continues(h.log[r.term], g.log[r.term])
            BY <1>1, LogStays
        <3> QED BY <1>1, <3>1 DEF Continues
    <2>2. Settled(g, r.term, g.log[r.term], r.index)
        <3>1. \A t \in Nat, c \in Nat :
                  h.log[t] # <<>> /\ Settled(h, t, h.log[t], c) => Settled(g, t, g.log[t], c)
            BY SettledLogStays
        <3> QED BY <1>1, <3>1
    <2>3. r.index <= Len(g.log[r.term])
        <3> DEFINE a == r.index
                   b == Len(h.log[r.term])
                   c == Len(g.log[r.term])
        <3>1. a \in Nat /\ b \in Nat /\ c \in Nat /\ a <= b /\ b <= c
            BY <1>1, <2>1
        <3> HIDE DEF a, b, c
        <3>2. a <= c
            BY <3>1
        <3> QED BY <3>2 DEF a, c
    <2> QED BY <2>1, <2>2, <2>3
<1>3. Holds(h, r) => Holds(g, r)
    BY <1>1, HoldsStays
<1>4. tm[p] # r.term => tn[p] # r.term
    BY <1>1
<1>5. Deposed(r, tm, calls) => Deposed(r, tn, now)
    <2> SUFFICES ASSUME Deposed(r, tm, calls) PROVE Deposed(r, tn, now)
        OBVIOUS
    <2>1. PICK Q \in SUBSET Node :
              /\ Quorum(Q)
              /\ \A m \in Q : /\ tm[m] > r.term /\ m \notin r.acks
                              /\ calls[m].stage = "answered" /\ calls[m].ok /\ calls[m].fresh
                                    => calls[m].asked # r.term
        BY DEF Deposed
    <2>2. ASSUME NEW m \in Q
          PROVE  /\ tn[m] > r.term /\ m \notin r.acks
                 /\ now[m].stage = "answered" /\ now[m].ok /\ now[m].fresh => now[m].asked # r.term
        <3>1. tm[m] \in Nat /\ tn[m] \in Nat /\ tm[m] <= tn[m]
            OBVIOUS
        <3>2. tn[m] > r.term /\ m \notin r.acks
            BY <1>1, <2>1, <3>1
        <3>3. ASSUME now[m].stage = "answered" /\ now[m].ok /\ now[m].fresh PROVE now[m].asked # r.term
            <4>1. CASE calls[m] = now[m]
                BY <2>1, <3>3, <4>1
            <4>2. CASE now[m].asked \in Nat /\ tm[m] <= now[m].asked
                BY <1>1, <2>1, <3>1, <4>2
            <4> QED BY <3>3, <4>1, <4>2
        <3> QED BY <3>2, <3>3
    <2> QED BY <2>1, <2>2 DEF Deposed
<1>6. r.term <= tn[p]
    BY <1>1
<1> QED BY <1>1, <1>2, <1>3, <1>4, <1>5, <1>6 DEF ReadOK

\* A node that takes no step stays true to a history that grows.
LEMMA NodeStays ==
    ASSUME NEW h, NEW tm, NEW lg, Core(h, tm, lg), NEW g, NEW n \in Node, NEW k,
           Extends(h, g, n, k),
           NEW m \in Node, m # n, NEW s, NodeOK(h, m, s)
    PROVE  NodeOK(g, m, s)
<1>1. h \in History /\ g \in History /\ Nobody \notin Node /\ s \in Raft
    BY KVAssumption DEF Core, CoreTypes, Extends, NodeOK
<1>2. s.term \in Nat /\ s.commit \in Nat /\ s.applied \in Seq(Entry) /\ s.match \in [Node -> Nat]
    BY <1>1 DEF Raft
<1>3. Len(s.applied) \in Nat
    BY <1>2, LenProperties
<1>4. s.voted = g.vote[s.term][m]
    BY <1>2 DEF NodeOK, Extends
<1>5. ASSUME s.role = "leader" PROVE Leads(g, m, s)
    <2>1. Leads(h, m, s)
        BY <1>5 DEF NodeOK
    <2>2. g.leader[s.term] = m /\ s.log = g.log[s.term]
        BY <1>1, <1>2, <2>1 DEF Leads, Extends
    <2>3. g.ack[s.term][m] = Len(s.log)
        BY <1>2, <2>1 DEF Leads, Extends
    <2>4. ASSUME NEW p \in Node PROVE s.match[p] <= g.ack[s.term][p]
        <3>1. s.match[p] \in Nat /\ h.ack[s.term][p] \in Nat /\ g.ack[s.term][p] \in Nat
            BY <1>1, <1>2, HistoryTypes
        <3>2. s.match[p] <= h.ack[s.term][p] /\ h.ack[s.term][p] <= g.ack[s.term][p]
            BY <1>2, <2>1 DEF Leads, Extends
        <3> QED BY <3>1, <3>2
    <2> QED BY <2>1, <2>2, <2>3, <2>4 DEF Leads
<1>6. ASSUME s.role = "candidate" PROVE Campaigns(g, m, s)
    <2>1. Campaigns(h, m, s)
        BY <1>6 DEF NodeOK
    <2>2. g.leader[s.term] # m /\ g.cand[s.term][m] = s.log
        BY <1>1, <1>2, <2>1 DEF Campaigns, Extends
    <2>3. ASSUME NEW p \in s.votes PROVE g.vote[s.term][p] = m
        <3>1. p \in Node /\ h.vote[s.term][p] = m
            BY <1>1, <2>1 DEF Campaigns, Raft
        <3> QED BY <1>1, <1>2, <3>1 DEF Extends
    <2> QED BY <2>1, <2>2, <2>3 DEF Campaigns
<1>7. Applies(g, s)
    BY <1>1, <1>2, <1>3, SettledStays DEF NodeOK, Applies
<1>8. Waits(g, m, s)
    <2> SUFFICES ASSUME NEW w \in s.waiters PROVE g.leader[w.term] = m
        BY DEF NodeOK, Waits
    <2>1. h.leader[w.term] = m /\ w.term \in Nat
        BY <1>1 DEF NodeOK, Waits, Raft, Waiter
    <2> QED BY <1>1, <2>1 DEF Extends
<1> QED BY <1>1, <1>4, <1>5, <1>6, <1>7, <1>8 DEF NodeOK

\* Node n in state s, of a core whose terms are tm and logs lg.
At(h, tm, lg, n, s) == Core(h, tm, lg) /\ tm[n] = s.term /\ lg[n] = s.log /\ NodeOK(h, n, s)

\* The fields of a node's record.
LEMMA RaftFields ==
    ASSUME NEW s \in Raft
    PROVE  /\ s.term \in Nat /\ s.voted \in Node \cup {Nobody} /\ s.log \in Seq(Entry) /\ Len(s.log) \in Nat
           /\ s.commit \in Nat /\ s.applied \in Seq(Entry) /\ Len(s.applied) \in Nat
           /\ s.votes \in SUBSET Node /\ s.next \in [Node -> Nat \ {0}] /\ s.match \in [Node -> Nat]
           /\ s.waiters \in SUBSET Waiter
BY LenProperties DEF Raft

\* The fields of a node that became a follower.
LEMMA FollowerFields ==
    ASSUME NEW s \in Raft, NEW u \in Nat
    PROVE  /\ Follower(s, u) \in Raft
           /\ Follower(s, u).term = u /\ Follower(s, u).log = s.log
           /\ Follower(s, u).role = "follower"
           /\ Follower(s, u).voted = IF u # s.term THEN Nobody ELSE s.voted
           /\ Follower(s, u).commit = s.commit /\ Follower(s, u).applied = s.applied
           /\ Follower(s, u).waiters = s.waiters
<1>1. /\ s.term \in Nat /\ s.voted \in Node \cup {Nobody} /\ s.log \in Seq(Entry)
      /\ s.commit \in Nat
      /\ s.applied \in Seq(Entry) /\ s.waiters \in SUBSET Waiter
    BY RaftFields
<1>2. /\ [p \in Node |-> 1] \in [Node -> Nat \ {0}] /\ [p \in Node |-> 0] \in [Node -> Nat]
      /\ {} \in SUBSET Node
    OBVIOUS
<1> DEFINE v == IF u # s.term THEN Nobody ELSE s.voted
           next == [p \in Node |-> 1]
           match == [p \in Node |-> 0]
<1>3. v \in Node \cup {Nobody}
    BY <1>1
<1>4. Follower(s, u) = [term |-> u, voted |-> v, log |-> s.log, role |-> "follower", commit |-> s.commit,
                        applied |-> s.applied, votes |-> {}, next |-> next, match |-> match, waiters |-> s.waiters]
    <2> DEFINE f == [term |-> u, voted |-> v, log |-> s.log, role |-> "follower", commit |-> 0, applied |-> <<>>,
                     votes |-> {}, next |-> next, match |-> match, waiters |-> {}]
    <2>1. Fresh(u, v, s.log) = f
        BY DEF Fresh
    <2>2. Follower(s, u) = [f EXCEPT !.commit = s.commit, !.applied = s.applied, !.waiters = s.waiters]
        BY <2>1 DEF Follower
    <2> HIDE DEF v, next, match
    <2> QED BY <2>2
<1>5. next \in [Node -> Nat \ {0}] /\ match \in [Node -> Nat]
    BY <1>2
<1> HIDE DEF v, next, match
<1>6. Follower(s, u) \in Raft
    BY <1>1, <1>3, <1>4, <1>5 DEF Raft
<1> QED BY <1>4, <1>6 DEF v

\* A node that becomes a follower of a later term is true to the history.
LEMMA FollowerOK ==
    ASSUME NEW h, NEW tm, NEW lg, NEW n \in Node, NEW s, At(h, tm, lg, n, s), NEW u \in Nat,
           s.term <= u
    PROVE  At(h, [tm EXCEPT ![n] = u], lg, n, Follower(s, u))
<1> DEFINE t == Follower(s, u)
           tn == [tm EXCEPT ![n] = u]
<1>1. /\ h \in History /\ tm \in [Node -> Nat] /\ lg \in [Node -> Seq(Entry)] /\ Nobody \notin Node
      /\ s \in Raft /\ s.term \in Nat /\ tm[n] = s.term /\ lg[n] = s.log
    BY KVAssumption, RaftFields DEF At, Core, CoreTypes, NodeOK
<1>2. /\ t \in Raft /\ t.term = u /\ t.log = s.log /\ t.role = "follower"
      /\ t.voted = IF u # s.term THEN Nobody ELSE s.voted
      /\ t.commit = s.commit /\ t.applied = s.applied /\ t.waiters = s.waiters
    BY <1>1, FollowerFields
<1> HIDE DEF t
<1>3. tn \in [Node -> Nat] /\ tn[n] = u /\ \A m \in Node : tm[m] <= tn[m]
    BY <1>1
<1>4. Core(h, tn, lg)
    BY <1>3, CoreTerm DEF At
<1>5. t.voted = h.vote[t.term][n]
    <2>1. CASE u = s.term
        BY <1>2, <2>1 DEF At, NodeOK
    <2>2. CASE u # s.term
        BY <1>1, <1>2, <2>2 DEF At, Core, VotesInv
    <2> QED BY <2>1, <2>2
<1>6. Applies(h, t)
    <2>1. Applies(h, s)
        BY DEF At, NodeOK
    <2> QED BY <1>1, <1>2, <2>1, SettledLater DEF Applies
<1>7. Waits(h, n, t)
    BY <1>2 DEF At, NodeOK, Waits
<1> QED BY <1>1, <1>2, <1>3, <1>4, <1>5, <1>6, <1>7 DEF At, NodeOK, t

\* applyCommitted applies exactly the log up to the commit index.
LEMMA ApplyFields ==
    ASSUME NEW h, NEW s \in Raft, Applies(h, s)
    PROVE  /\ ApplyCommitted(s) \in Raft /\ Applies(h, ApplyCommitted(s))
           /\ ApplyCommitted(s) = [s EXCEPT !.applied = ApplyCommitted(s).applied,
                                            !.waiters = {w \in s.waiters : w.index > s.commit}]
           /\ Len(ApplyCommitted(s).applied) >= s.commit
<1> DEFINE r == ApplyCommitted(s)
           a == SubSeq(s.log, Len(s.applied) + 1, s.commit)
<1>1. /\ s.term \in Nat /\ s.log \in Seq(Entry) /\ Len(s.log) \in Nat /\ s.commit \in Nat
      /\ s.applied \in Seq(Entry) /\ Len(s.applied) \in Nat /\ s.waiters \in SUBSET Waiter
    BY RaftFields
<1>2. /\ s.commit <= Len(s.log) /\ Settled(h, s.term, s.log, s.commit)
      /\ Shares(s.applied, s.log, Len(s.applied)) /\ Settled(h, s.term, s.applied, Len(s.applied))
    BY DEF Applies
<1>3. Least(s.commit, Len(s.log)) = s.commit
    BY <1>1, <1>2 DEF Least
<1>4. r = [s EXCEPT !.applied = s.applied \o a, !.waiters = {w \in s.waiters : w.index > s.commit}]
    BY <1>3 DEF ApplyCommitted
<1>5. Len(s.applied) <= Len(s.log) /\ \A k \in 1 .. Len(s.applied) : s.applied[k] = s.log[k]
    BY <1>1, <1>2 DEF Shares
<1>6. /\ s.applied \o a \in Seq(Entry) /\ Len(s.applied \o a) \in Nat
      /\ Len(s.applied \o a) = IF s.commit > Len(s.applied) THEN s.commit ELSE Len(s.applied)
      /\ \A k \in 1 .. Len(s.applied \o a) : (s.applied \o a)[k] = s.log[k]
    <2>1. CASE s.commit > Len(s.applied)
        <3>1. /\ a \in Seq(Entry) /\ Len(a) = s.commit - Len(s.applied)
              /\ \A k \in 1 .. Len(a) : a[k] = s.log[Len(s.applied) + k]
            BY <1>1, <1>2, <2>1, SubSeqProperties
        <3>2. /\ s.applied \o a \in Seq(Entry) /\ Len(s.applied \o a) = Len(s.applied) + Len(a)
              /\ \A k \in 1 .. Len(s.applied) + Len(a) :
                    (s.applied \o a)[k] = IF k <= Len(s.applied) THEN s.applied[k] ELSE a[k - Len(s.applied)]
            BY <1>1, <3>1, ConcatProperties
        <3>3. ASSUME NEW k \in 1 .. Len(s.applied \o a) PROVE (s.applied \o a)[k] = s.log[k]
            <4>1. CASE k <= Len(s.applied)
                BY <1>1, <1>5, <3>1, <3>2, <4>1
            <4>2. CASE k > Len(s.applied)
                <5>1. k - Len(s.applied) \in 1 .. Len(a)
                    BY <1>1, <3>1, <3>2, <4>2
                <5> QED BY <1>1, <3>1, <3>2, <4>2, <5>1
            <4> QED BY <1>1, <4>1, <4>2
        <3>4. Len(s.applied \o a) = s.commit
            BY <1>1, <3>1, <3>2
        <3> QED BY <1>1, <2>1, <3>2, <3>3, <3>4
    <2>2. CASE ~(s.commit > Len(s.applied))
        <3>1. a = <<>>
            BY <1>1, <2>2, SubSeqProperties
        <3> QED BY <1>1, <1>5, <2>2, <3>1
    <2> QED BY <2>1, <2>2
<1> HIDE DEF a
<1>7. r \in Raft
    BY <1>1, <1>4, <1>6 DEF Raft
<1>8. /\ r.term = s.term /\ r.log = s.log /\ r.commit = s.commit /\ r.applied = s.applied \o a
      /\ r.waiters = {w \in s.waiters : w.index > s.commit}
    BY <1>4 DEF Raft
<1> HIDE DEF r
<1>9. Applies(h, r)
    <2>1. Shares(r.applied, r.log, Len(r.applied))
        BY <1>1, <1>2, <1>5, <1>6, <1>8 DEF Shares
    <2>2. Settled(h, r.term, r.applied, Len(r.applied))
        <3>1. CASE s.commit > Len(s.applied)
            <4>1. Shares(r.applied, s.log, s.commit)
                BY <1>6, <1>8, <2>1, <3>1
            <4>2. Settled(h, s.term, r.applied, s.commit)
                BY <1>1, <1>2, <1>6, <1>8, <4>1, SettledShared
            <4> QED BY <1>6, <1>8, <3>1, <4>2
        <3>2. CASE ~(s.commit > Len(s.applied))
            <4>1. Shares(r.applied, s.applied, Len(s.applied))
                BY <1>1, <1>5, <1>6, <1>8, <3>2 DEF Shares
            <4>2. Settled(h, s.term, r.applied, Len(s.applied))
                BY <1>1, <1>2, <1>6, <1>8, <4>1, SettledShared
            <4> QED BY <1>6, <1>8, <3>2, <4>2
        <3> QED BY <3>1, <3>2
    <2> QED BY <1>2, <1>8, <2>1, <2>2 DEF Applies
<1>10. Len(r.applied) >= s.commit
    BY <1>1, <1>6, <1>8
<1> QED BY <1>4, <1>7, <1>8, <1>9, <1>10 DEF r

\* A finite set of naturals that is not empty has a greatest element.
LEMMA GreatestOf ==
    ASSUME NEW T, NEW N \in Nat, T \subseteq 0 .. N, T # {}
    PROVE  \E x \in T : \A y \in T : y <= x
<1> DEFINE S == {k \in Nat : k <= N /\ N - k \in T}
<1>1. S \subseteq Nat
    OBVIOUS
<1>2. S # {}
    <2>1. PICK x \in T : TRUE
        OBVIOUS
    <2>2. x \in Int /\ N - (N - x) = x /\ N - x \in Nat /\ N - x <= N
        BY <2>1
    <2>3. N - x \in S
        BY <2>1, <2>2
    <2> QED BY <2>3
<1>3. PICK k \in S : \A j \in S : k <= j
    BY <1>1, <1>2, LeastOf
<1>4. ASSUME NEW y \in T PROVE y <= N - k
    <2>1. y \in Int /\ N - (N - y) = y /\ N - y \in Nat /\ N - y <= N
        OBVIOUS
    <2>2. N - y \in S
        BY <2>1
    <2>3. k <= N - y
        BY <1>3, <2>2
    <2> QED BY <2>1, <2>3
<1> QED BY <1>3, <1>4

\* What a leader counts as committed is chosen.
LEMMA CommitsChosen ==
    ASSUME NEW h, NEW tm, NEW lg, NEW n \in Node, NEW s, At(h, tm, lg, n, s), s.role = "leader",
           NEW i \in Commits(n, s)
    PROVE  /\ i \in Nat /\ i > s.commit /\ i <= Len(s.log)
           /\ Settled(h, s.term, s.log, i)
<1>1. /\ h \in History /\ s \in Raft /\ s.term \in Nat /\ Len(s.log) \in Nat /\ s.commit \in Nat
      /\ s.match \in [Node -> Nat]
    BY RaftFields DEF At, Core, CoreTypes, NodeOK
<1>2. Leads(h, n, s)
    BY DEF At, NodeOK
<1>3. i \in Nat /\ i > s.commit /\ i <= Len(s.log) /\ s.log[i].term = s.term
      /\ Quorum({n} \cup {p \in Peers(n) : s.match[p] >= i})
    BY <1>1 DEF Commits
<1> DEFINE P == {n} \cup {p \in Peers(n) : s.match[p] >= i}
           R == {p \in Node : h.ack[s.term][p] >= i}
<1>4. P \subseteq R
    <2> SUFFICES ASSUME NEW p \in P PROVE p \in Node /\ h.ack[s.term][p] >= i
        OBVIOUS
    <2>1. p \in Node
        BY DEF Peers
    <2>2. h.ack[s.term][p] \in Nat /\ s.match[p] \in Nat
        BY <1>1, <2>1, HistoryTypes
    <2>3. CASE p = n
        BY <1>1, <1>2, <1>3, <2>3 DEF Leads
    <2>4. CASE p # n
        <3>1. s.match[p] >= i /\ s.match[p] <= h.ack[s.term][p]
            BY <1>2, <2>1, <2>4 DEF Leads
        <3> QED BY <1>3, <2>1, <2>2, <3>1
    <2> QED BY <2>3, <2>4
<1>5. P \in SUBSET Node /\ R \in SUBSET Node
    BY DEF Peers
<1>6. Quorum(R)
    BY <1>3, <1>4, <1>5, QuorumGrows
<1>7. Chosen(h, s.term, i)
    BY <1>1, <1>2, <1>3, <1>6 DEF Leads, Chosen
<1>8. Shares(s.log, h.log[s.term], i)
    BY <1>1, <1>2, <1>3 DEF Leads, Shares
<1> QED BY <1>1, <1>3, <1>7, <1>8 DEF Settled

\* What maybeAdvanceCommit keeps of s, r being the state after it.
Advanced(s, r) ==
    /\ r.role = s.role /\ r.term = s.term /\ r.log = s.log /\ r.voted = s.voted
    /\ r.commit >= s.commit
    /\ r.waiters \subseteq s.waiters
    /\ \A w \in s.waiters : w \notin r.waiters => w.index <= r.commit

\* A leader that advances its commit index stays true to the history: what it commits was
\* chosen.
LEMMA AdvanceOK ==
    ASSUME NEW h, NEW tm, NEW lg, NEW n \in Node, NEW s, At(h, tm, lg, n, s)
    PROVE  At(h, tm, lg, n, AdvanceCommit(n, s)) /\ Advanced(s, AdvanceCommit(n, s))
<1> DEFINE r == AdvanceCommit(n, s)
<1>1. /\ s \in Raft /\ s.commit \in Nat /\ Len(s.log) \in Nat /\ s.waiters \in SUBSET Waiter
      /\ s.term \in Nat
    BY RaftFields DEF At, NodeOK
<1>2. CASE s.role # "leader" \/ Commits(n, s) = {}
    <2>1. r = s
        BY <1>2 DEF AdvanceCommit
    <2> QED BY <1>1, <2>1 DEF Advanced
<1>3. CASE s.role = "leader" /\ Commits(n, s) # {}
    <2> DEFINE i == CHOOSE x \in Commits(n, s) : \A y \in Commits(n, s) : y <= x
               b == [s EXCEPT !.commit = i]
    <2>1. i \in Commits(n, s)
        <3>1. Commits(n, s) \subseteq 0 .. Len(s.log)
            BY <1>1 DEF Commits
        <3>2. \E x \in Commits(n, s) : \A y \in Commits(n, s) : y <= x
            BY <1>1, <1>3, <3>1, GreatestOf
        <3> QED BY <3>2
    <2> HIDE DEF i
    <2>2. i \in Nat /\ i > s.commit /\ i <= Len(s.log) /\ Settled(h, s.term, s.log, i)
        BY <1>3, <2>1, CommitsChosen
    <2>3. r = ApplyCommitted(b)
        BY <1>3 DEF AdvanceCommit, i
    <2>4. /\ b \in Raft /\ b.commit = i /\ b.term = s.term /\ b.log = s.log /\ b.applied = s.applied
          /\ b.waiters = s.waiters /\ b.role = s.role /\ b.voted = s.voted /\ b.votes = s.votes
          /\ b.match = s.match
        BY <1>1, <2>2 DEF Raft
    <2> HIDE DEF b, r
    <2>5. Applies(h, b)
        BY <2>2, <2>4 DEF At, NodeOK, Applies
    <2>6. /\ r \in Raft /\ Applies(h, r)
          /\ r = [b EXCEPT !.applied = r.applied, !.waiters = {w \in b.waiters : w.index > b.commit}]
        <3>1. /\ ApplyCommitted(b) \in Raft /\ Applies(h, ApplyCommitted(b))
              /\ ApplyCommitted(b) = [b EXCEPT !.applied = ApplyCommitted(b).applied,
                                                !.waiters = {w \in b.waiters : w.index > b.commit}]
            BY <2>4, <2>5, ApplyFields
        <3> QED BY <2>3, <3>1
    <2>7. /\ r.commit = i /\ r.term = s.term /\ r.log = s.log /\ r.role = s.role
          /\ r.voted = s.voted
          /\ r.votes = s.votes /\ r.match = s.match /\ r.waiters = {w \in s.waiters : w.index > i}
        BY <2>4, <2>6 DEF Raft
    <2>8. NodeOK(h, n, r)
        <3>1. r.role = "leader" => Leads(h, n, r)
            BY <2>7 DEF At, NodeOK, Leads
        <3>2. r.role = "candidate" => Campaigns(h, n, r)
            BY <1>3, <2>7
        <3>3. Waits(h, n, r)
            BY <2>7 DEF At, NodeOK, Waits
        <3> QED BY <2>6, <2>7, <3>1, <3>2, <3>3 DEF At, NodeOK
    <2>9. \A w \in s.waiters : w \notin r.waiters => w.index <= r.commit
        BY <1>1, <2>2, <2>7 DEF Waiter
    <2>10. Advanced(s, r)
        BY <1>1, <2>2, <2>7, <2>9 DEF Advanced
    <2> QED BY <2>7, <2>8, <2>10 DEF At, r
<1> QED BY <1>2, <1>3

\* A history in which m votes in term u for c, with the log l if c stands itself.
LEMMA VotedHistory ==
    ASSUME NEW h \in History, NEW n \in Node, NEW c \in Node, NEW u \in Nat, NEW l \in Seq(Entry)
    PROVE  \E g \in History : Voted(h, g, n, u, c, l)
<1> DEFINE vote == [t \in Nat |-> [m \in Node |-> IF t = u /\ m = n THEN c ELSE h.vote[t][m]]]
           cand == [t \in Nat |-> [m \in Node |-> IF t = u /\ m = n THEN l ELSE h.cand[t][m]]]
           g == [log |-> h.log, leader |-> h.leader, vote |-> vote, cand |-> cand, ack |-> h.ack]
<1>1. vote \in [Nat -> [Node -> Node \cup {Nobody}]] /\ cand \in [Nat -> [Node -> Seq(Entry)]]
    BY HistoryTypes
<1>2. \A t \in Nat, m \in Node :
          /\ vote[t][m] = IF t = u /\ m = n THEN c ELSE h.vote[t][m]
          /\ cand[t][m] = IF t = u /\ m = n THEN l ELSE h.cand[t][m]
    OBVIOUS
<1> HIDE DEF vote, cand
<1>3. g \in History
    BY <1>1 DEF History
<1>4. Same(h, g) /\ g.vote = vote /\ g.cand = cand
    BY DEF Same
<1> HIDE DEF g
<1>5. Voted(h, g, n, u, c, l)
    BY <1>2, <1>4 DEF Voted
<1> QED BY <1>3, <1>5

\* Node n stands for election: s before, c after.
Stands(h, tm, lg, n, s, c) ==
    \E g : /\ At(g, [tm EXCEPT ![n] = c.term], lg, n, c) /\ Extends(h, g, n, s.term)
          /\ g.cand[c.term][n] = s.log

\* A node that becomes a candidate.
LEMMA StandOK ==
    ASSUME NEW h, NEW tm, NEW lg, NEW n \in Node, NEW s, At(h, tm, lg, n, s), NEW c,
           c = [s EXCEPT !.term = s.term + 1, !.voted = n, !.role = "candidate", !.votes = {n}]
    PROVE  Stands(h, tm, lg, n, s, c)
<1> DEFINE u == s.term + 1
           tn == [tm EXCEPT ![n] = u]
<1>1. /\ h \in History /\ tm \in [Node -> Nat] /\ lg \in [Node -> Seq(Entry)] /\ Nobody \notin Node
      /\ s \in Raft /\ s.term \in Nat /\ tm[n] = s.term /\ lg[n] = s.log /\ s.log \in Seq(Entry)
      /\ u \in Nat /\ tm[n] < u /\ s.commit \in Nat /\ Len(s.applied) \in Nat
    BY KVAssumption, RaftFields DEF At, Core, CoreTypes, NodeOK
<1>2. /\ c \in Raft /\ c.term = u /\ c.log = s.log /\ c.role = "candidate" /\ c.voted = n
      /\ c.votes = {n}
      /\ c.commit = s.commit /\ c.applied = s.applied /\ c.waiters = s.waiters
    BY <1>1 DEF Raft
<1> HIDE DEF u
<1>2a. PICK g \in History : Voted(h, g, n, u, n, s.log)
    BY <1>1, VotedHistory
<1>3. /\ Same(h, g)
      /\ \A t \in Nat, m \in Node :
            /\ g.vote[t][m] = IF t = u /\ m = n THEN n ELSE h.vote[t][m]
            /\ g.cand[t][m] = IF t = u /\ m = n THEN s.log ELSE h.cand[t][m]
    BY <1>2a DEF Voted
<1>4. Core(g, tn, lg)
    BY <1>1, <1>2a, CoreCandidate DEF At
<1>5. h.vote[u][n] = Nobody
    BY <1>1, HistoryTypes DEF At, Core, VotesInv
<1>6. Extends(h, g, n, s.term)
    <2>1. Longer(h, g)
        BY <1>1, <1>3, HistoryTypes DEF Same, Longer, Shares
    <2>2. ASSUME NEW t \in Nat
          PROVE  /\ g.log[t] = h.log[t] /\ g.leader[t] = h.leader[t]
                 /\ h.vote[t][n] # Nobody => g.vote[t][n] = h.vote[t][n]
                 /\ t <= s.term => g.cand[t][n] = h.cand[t][n]
        BY <1>1, <1>3, <1>5 DEF Same
    <2>3. ASSUME NEW t \in Nat, NEW m \in Node
          PROVE  /\ h.ack[t][m] <= g.ack[t][m]
                 /\ m # n => /\ g.vote[t][m] = h.vote[t][m] /\ g.cand[t][m] = h.cand[t][m]
                             /\ g.ack[t][m] = h.ack[t][m]
        <3>1. h.ack[t][m] \in Nat
            BY <1>1, HistoryTypes
        <3> QED BY <1>3, <3>1 DEF Same
    <2> QED BY <2>1, <2>2, <2>3 DEF Extends
<1>7. Campaigns(g, n, c)
    <2>1. g.leader[u] # n
        <3>1. CASE h.log[u] = <<>>
            BY <1>1, <1>3, <3>1 DEF At, Core, LeadersElected, Same
        <3>2. CASE h.log[u] # <<>>
            BY <1>1, <1>3, <3>2 DEF At, Core, LeadersElected, Same
        <3> QED BY <3>1, <3>2
    <2>2. u >= 1
        BY <1>1 DEF u
    <2> QED BY <1>1, <1>2, <1>3, <2>1, <2>2 DEF Campaigns
<1>8. Applies(g, c)
    <2>1. Applies(h, s)
        BY DEF At, NodeOK
    <2>2. s.term <= u /\ u \in Nat
        BY <1>1
    <2>3. Settled(g, s.term, s.log, s.commit) /\ Settled(g, s.term, s.applied, Len(s.applied))
        BY <1>1, <1>6, <2>1, SettledStays DEF Applies
    <2>4. Settled(g, u, s.log, s.commit) /\ Settled(g, u, s.applied, Len(s.applied))
        BY <1>1, <2>2, <2>3, SettledLater
    <2> QED BY <1>2, <2>1, <2>4 DEF Applies
<1>9. Waits(g, n, c)
    BY <1>2, <1>3 DEF At, NodeOK, Waits, Same
<1>10. c.voted = g.vote[c.term][n]
    BY <1>1, <1>2, <1>3
<1>11. tn[n] = u
    BY <1>1
<1>12. At(g, tn, lg, n, c)
    BY <1>1, <1>2, <1>4, <1>7, <1>8, <1>9, <1>10, <1>11 DEF At, NodeOK
<1>13. g.cand[c.term][n] = s.log
    BY <1>1, <1>2, <1>3
<1>14. \E f : /\ At(f, [tm EXCEPT ![n] = c.term], lg, n, c) /\ Extends(h, f, n, s.term)
              /\ f.cand[c.term][n] = s.log
    BY <1>2, <1>6, <1>12, <1>13
<1> QED BY <1>14 DEF Stands

\* A node that grants its vote.
LEMMA GrantOK ==
    ASSUME NEW h, NEW tm, NEW lg, NEW n \in Node, NEW s, At(h, tm, lg, n, s),
           NEW q, AskOK(h, tm, q), q.to = n, q.term = s.term, MayVote(s, q)
    PROVE  \E g : /\ At(g, tm, lg, n, [s EXCEPT !.voted = q.from]) /\ Extends(h, g, n, s.term)
                  /\ g.vote[s.term][n] = q.from
<1> DEFINE r == [s EXCEPT !.voted = q.from]
           u == s.term
           c == q.from
<1>1. /\ h \in History /\ tm \in [Node -> Nat] /\ lg \in [Node -> Seq(Entry)] /\ Nobody \notin Node
      /\ s \in Raft /\ u \in Nat /\ tm[n] = u /\ lg[n] = s.log /\ s.commit \in Nat
      /\ Len(s.applied) \in Nat
      /\ c \in Node /\ s.voted = h.vote[u][n]
    BY KVAssumption, RaftFields DEF At, Core, CoreTypes, NodeOK, AskOK
<1>2. /\ r \in Raft /\ r.term = s.term /\ r.log = s.log /\ r.role = s.role /\ r.voted = c
      /\ r.votes = s.votes
      /\ r.commit = s.commit /\ r.applied = s.applied /\ r.waiters = s.waiters /\ r.match = s.match
    BY <1>1 DEF Raft
<1>3. CASE s.voted = c
    <2>1. r = s
        BY <1>1, <1>3 DEF Raft
    <2> QED BY <1>1, <1>3, <2>1, ExtendsSelf
<1>4. CASE s.voted = Nobody
    <2> HIDE DEF r
    <2>0. PICK g \in History : Voted(h, g, n, u, c, h.cand[u][n])
        <3>1. h.cand[u][n] \in Seq(Entry)
            BY <1>1, HistoryTypes
        <3> QED BY <1>1, <3>1, VotedHistory
    <2>1. /\ Same(h, g)
          /\ \A t \in Nat, m \in Node :
                /\ g.vote[t][m] = IF t = u /\ m = n THEN c ELSE h.vote[t][m]
                /\ g.cand[t][m] = IF t = u /\ m = n THEN h.cand[u][n] ELSE h.cand[t][m]
        BY <2>0 DEF Voted
    <2>2. \A t \in Nat, m \in Node : g.cand[t][m] = h.cand[t][m]
        BY <2>1
    <2>4. Core(g, tm, lg)
        <3>1. /\ u <= tm[c] /\ h.vote[u][n] = Nobody
              /\ UpToDate(lg[n], Len(h.cand[u][c]), LastTerm(h.cand[u][c]))
            BY <1>1, <1>4 DEF AskOK, MayVote
        <3> QED BY <1>1, <2>0, <3>1, CoreVote DEF At
    <2>5. Extends(h, g, n, u)
        <3>1. Longer(h, g)
            BY <1>1, <2>1, HistoryTypes DEF Same, Longer, Shares
        <3>2. ASSUME NEW t \in Nat
              PROVE  /\ g.log[t] = h.log[t] /\ g.leader[t] = h.leader[t]
                     /\ h.vote[t][n] # Nobody => g.vote[t][n] = h.vote[t][n]
                     /\ g.cand[t][n] = h.cand[t][n]
            BY <1>1, <1>4, <2>1, <2>2 DEF Same
        <3>3. ASSUME NEW t \in Nat, NEW m \in Node
              PROVE  /\ h.ack[t][m] <= g.ack[t][m]
                     /\ m # n => /\ g.vote[t][m] = h.vote[t][m] /\ g.cand[t][m] = h.cand[t][m]
                                 /\ g.ack[t][m] = h.ack[t][m]
            <4>1. h.ack[t][m] \in Nat
                BY <1>1, HistoryTypes
            <4> QED BY <2>1, <2>2, <4>1 DEF Same
        <3> QED BY <3>1, <3>2, <3>3 DEF Extends
    <2>6. r.role = "leader" => Leads(g, n, r)
        BY <1>2, <2>1 DEF At, NodeOK, Leads, Same
    <2>7. r.role = "candidate" => Campaigns(g, n, r)
        <3> SUFFICES ASSUME s.role = "candidate" PROVE Campaigns(g, n, r)
            BY <1>2
        <3>1. Campaigns(h, n, s)
            BY DEF At, NodeOK
        <3>2. ASSUME NEW m \in s.votes PROVE g.vote[u][m] = n
            <4>1. m \in Node /\ h.vote[u][m] = n
                BY <1>1, <3>1 DEF Campaigns, Raft
            <4> QED BY <1>1, <1>4, <2>1, <4>1
        <3>3. g.leader[u] # n /\ g.cand[u][n] = s.log /\ u >= 1
            BY <1>1, <2>1, <2>2, <3>1 DEF Campaigns, Same
        <3> QED BY <1>2, <3>2, <3>3 DEF Campaigns
    <2>8. Applies(g, r)
        <3>1. Applies(h, s)
            BY DEF At, NodeOK
        <3>2. Settled(g, u, s.log, s.commit) /\ Settled(g, u, s.applied, Len(s.applied))
            BY <1>1, <2>5, <3>1, SettledStays DEF Applies
        <3> QED BY <1>2, <3>1, <3>2 DEF Applies
    <2>9. Waits(g, n, r)
        BY <1>2, <2>1 DEF At, NodeOK, Waits, Same
    <2>10. g.vote[u][n] = c
        BY <1>1, <2>1
    <2>11. At(g, tm, lg, n, r)
        BY <1>1, <1>2, <2>4, <2>6, <2>7, <2>8, <2>9, <2>10 DEF At, NodeOK
    <2> QED BY <2>5, <2>10, <2>11 DEF r
<1> QED BY <1>3, <1>4 DEF MayVote

\* What Led adds to a history, n being the leader or a node that acknowledges.
LEMMA LedExtends ==
    ASSUME NEW h \in History, NEW g \in History, NEW n \in Node, NEW u \in Nat, NEW k, NEW leader,
           NEW j \in Nat,
           Led(h, g, n, u, k, leader, j),
           k = h.log[u] \/ leader = n, leader = h.leader[u] \/ (h.leader[u] = Nobody /\ leader = n), NEW i
    PROVE  Extends(h, g, n, i)
<1>1. /\ Longer(h, g) /\ g.vote = h.vote /\ g.cand = h.cand
      /\ \A t \in Nat : t # u => g.log[t] = h.log[t] /\ g.leader[t] = h.leader[t]
      /\ g.log[u] = k /\ g.leader[u] = leader
      /\ \A t \in Nat, m \in Node :
            g.ack[t][m] = IF t = u /\ m = n /\ j > h.ack[t][m] THEN j ELSE h.ack[t][m]
    BY DEF Led
<1>2. ASSUME NEW t \in Nat
      PROVE  /\ g.log[t] = h.log[t] \/ g.leader[t] = n
             /\ g.leader[t] = h.leader[t] \/ (h.leader[t] = Nobody /\ g.leader[t] = n)
             /\ g.vote[t][n] = h.vote[t][n] /\ g.cand[t][n] = h.cand[t][n]
    BY <1>1
<1>3. ASSUME NEW t \in Nat, NEW m \in Node
      PROVE  /\ h.ack[t][m] <= g.ack[t][m]
             /\ m # n => /\ g.vote[t][m] = h.vote[t][m] /\ g.cand[t][m] = h.cand[t][m]
                         /\ g.ack[t][m] = h.ack[t][m]
    <2>1. h.ack[t][m] \in Nat
        BY HistoryTypes
    <2> QED BY <1>1, <2>1
<1> QED BY <1>1, <1>2, <1>3 DEF Extends

\* A log with one more entry.
LEMMA AppendFacts ==
    ASSUME NEW l \in Seq(Entry), NEW e \in Entry
    PROVE  /\ Append(l, e) \in Seq(Entry) /\ Len(Append(l, e)) = Len(l) + 1 /\ Len(l) \in Nat
           /\ Append(l, e)[Len(l) + 1] = e /\ Append(l, e) # <<>>
           /\ \A i \in 1 .. Len(l) : Append(l, e)[i] = l[i]
           /\ \A i \in Nat : i <= Len(l) => Shares(Append(l, e), l, i)
<1>1. /\ Append(l, e) \in Seq(Entry) /\ Len(Append(l, e)) = Len(l) + 1 /\ Len(l) \in Nat
      /\ Append(l, e)[Len(l) + 1] = e
      /\ \A i \in 1 .. Len(l) : Append(l, e)[i] = l[i]
    BY AppendProperties, LenProperties
<1>2. Append(l, e) # <<>>
    BY <1>1
<1>3. \A i \in Nat : i <= Len(l) => Shares(Append(l, e), l, i)
    BY <1>1 DEF Shares
<1> QED BY <1>1, <1>2, <1>3

\* A longer log carries what the shorter one did.
LEMMA CarriesAppend ==
    ASSUME NEW h \in History, NEW l \in Seq(Entry), NEW e \in Entry, NEW u \in Nat, NEW m \in Node,
           Carries(h, l, u, m)
    PROVE  Carries(h, Append(l, e), u, m)
<1> SUFFICES ASSUME NEW t \in Nat, t < u, NEW i \in 1 .. h.ack[t][m], h.log[t][i].term = t
             PROVE  \/ Shares(Append(l, e), h.log[t], i)
                    \/ \E v \in Nat : t < v /\ v < u /\ Differs(h.log[v], h.log[t], i)
    BY DEF Carries
<1>1. h.ack[t][m] \in Nat /\ i \in Nat
    BY HistoryTypes
<1>2. CASE Shares(l, h.log[t], i)
    <2>1. i <= Len(l)
        BY <1>2 DEF Shares
    <2>2. Shares(Append(l, e), l, i)
        BY <1>1, <2>1, AppendFacts
    <2>3. Shares(Append(l, e), h.log[t], i)
        BY <1>2, <2>2, SharesSame
    <2> QED BY <2>3
<1>3. CASE \E v \in Nat : t < v /\ v < u /\ Differs(h.log[v], h.log[t], i)
    BY <1>3
<1> QED BY <1>2, <1>3 DEF Carries

\* A history in which n leads term u with the log l.
Grows(h, g, tm, lg, n, u, l) ==
    /\ Core(g, tm, [lg EXCEPT ![n] = l]) /\ Extends(h, g, n, u)
    /\ g.log[u] = l /\ g.leader[u] = n /\ g.ack[u][n] = Len(l) /\ g.vote = h.vote

\* A leader adds an entry of its term to the log it leads with, which it may just begin to.
LEMMA GrowHistory ==
    ASSUME NEW h, NEW tm, NEW lg, Core(h, tm, lg), NEW n \in Node, NEW u \in Nat, tm[n] = u, u >= 1,
           NEW e \in Entry, e.term = u, e.index = Len(lg[n]) + 1,
           (h.log[u] = <<>> /\ h.leader[u] = Nobody) \/ (h.log[u] = lg[n] /\ h.leader[u] = n),
           NEW Q \in SUBSET Node, Elects(h, u, lg[n], n, Q)
    PROVE  \E g \in History : Grows(h, g, tm, lg, n, u, Append(lg[n], e))
<1> DEFINE k == Append(lg[n], e)
           j == Len(lg[n]) + 1
<1>1. /\ h \in History /\ tm \in [Node -> Nat] /\ lg[n] \in Seq(Entry) /\ Nobody \notin Node
      /\ Grown(h, lg[n]) /\ \A i \in 1 .. Len(lg[n]) : lg[n][i].term <= u
    BY KVAssumption DEF Core, CoreTypes, NodesLogs
<1>2. /\ k \in Seq(Entry) /\ Len(k) = j /\ Len(lg[n]) \in Nat /\ k[j] = e /\ k # <<>>
      /\ \A i \in 1 .. Len(lg[n]) : k[i] = lg[n][i]
      /\ \A i \in Nat : i <= Len(lg[n]) => Shares(k, lg[n], i)
    BY <1>1, AppendFacts
<1> HIDE DEF k
<1>3. Shares(k, h.log[u], Len(h.log[u]))
    <2>1. CASE h.log[u] = <<>>
        BY <1>2, <2>1 DEF Shares
    <2>2. CASE h.log[u] = lg[n]
        BY <1>2, <2>2
    <2> QED BY <2>1, <2>2
<1>4. PICK g \in History : Led(h, g, n, u, k, n, j)
    <2>1. j \in Nat
        BY <1>2
    <2> QED BY <1>1, <1>2, <1>3, <2>1, LedHistory
<1>5. Longer(h, g) /\ g.log[u] = k /\ g.leader[u] = n /\ g.vote = h.vote
      /\ g.ack[u][n] = IF j > h.ack[u][n] THEN j ELSE h.ack[u][n]
    BY <1>4 DEF Led
<1>6. Grown(g, k)
    <2>1. Grown(g, lg[n])
        BY <1>1, <1>5, LongerGrown
    <2> SUFFICES ASSUME NEW i \in 1 .. Len(k)
                 PROVE  k[i].index = i /\ k[i].term >= 1 /\ Shares(k, g.log[k[i].term], i)
        BY <1>2 DEF Grown
    <2>2. CASE i <= Len(lg[n])
        <3>1. i \in 1 .. Len(lg[n]) /\ i \in Nat
            BY <1>2, <2>2
        <3>2. k[i] = lg[n][i] /\ Shares(k, lg[n], i)
            BY <1>2, <3>1
        <3>3. lg[n][i].index = i /\ lg[n][i].term >= 1 /\ Shares(lg[n], g.log[lg[n][i].term], i)
            BY <2>1, <3>1 DEF Grown
        <3>4. Shares(k, g.log[k[i].term], i)
            BY <3>2, <3>3, SharesSame
        <3> QED BY <3>2, <3>3, <3>4
    <2>3. CASE i = j
        BY <1>2, <1>5, <2>3 DEF Shares
    <2> QED BY <1>2, <2>2, <2>3
<1>7. TermsTo(k, u)
    <2> SUFFICES ASSUME NEW i \in 1 .. Len(k) PROVE k[i].term <= u
        BY DEF TermsTo
    <2>1. CASE i <= Len(lg[n])
        BY <1>1, <1>2, <2>1
    <2>2. CASE i = j
        BY <1>2, <2>2
    <2> QED BY <1>2, <2>1, <2>2
<1>8. Shares(k, k, j)
    BY <1>2 DEF Shares
<1>9. Follows(k, lg[n], k)
    BY <1>2 DEF Follows
<1>10. Elects(h, u, k, n, Q)
    <2> SUFFICES ASSUME NEW m \in Q PROVE Carries(h, k, u, m)
        BY DEF Elects
    <2>1. Carries(h, lg[n], u, m) /\ m \in Node
        BY DEF Elects
    <2> QED BY <1>1, <2>1, CarriesAppend DEF k
<1>11. k[Len(k)].term = u /\ u <= tm[n] /\ j \in Nat
    BY <1>2
<1>12. Core(g, tm, [lg EXCEPT ![n] = k])
    BY <1>2, <1>4, <1>6, <1>7, <1>8, <1>9, <1>10, <1>11, CoreAdvance
<1>13. Extends(h, g, n, u)
    BY <1>1, <1>2, <1>4, LedExtends
<1>14. g.ack[u][n] = j
    <2>1. h.ack[u][n] <= Len(h.log[u]) /\ h.ack[u][n] \in Nat
        BY <1>1, HistoryTypes DEF Core, AcksInv
    <2> QED BY <1>2, <1>5, <2>1
<1>15. Grows(h, g, tm, lg, n, u, k)
    BY <1>2, <1>5, <1>12, <1>13, <1>14 DEF Grows
<1> QED BY <1>15 DEF k

WaitsFor(h, n, waiters, l) ==
    \A w \in waiters : /\ w.index \in 1 .. Len(l) /\ l[w.index].term = w.term
                       /\ l[w.index].cmd = w.cmd /\ h.leader[w.term] = n

AppliesTo(h, u, l, commit, applied) ==
    /\ commit <= Len(l) /\ Settled(h, u, l, commit)
    /\ Shares(applied, l, Len(applied)) /\ Settled(h, u, applied, Len(applied))

\* What node n keeps of what its state needs when its own log and history grow.
LEMMA KeptByExtends ==
    ASSUME NEW h \in History, NEW g, NEW n \in Node, NEW s \in Raft, Extends(h, g, n, s.term),
           Applies(h, s), Waits(h, n, s), NEW l \in Seq(Entry), Shares(l, s.log, Len(s.log))
    PROVE  AppliesTo(g, s.term, l, s.commit, s.applied) /\ WaitsFor(g, n, s.waiters, l)
<1>1. /\ s.term \in Nat /\ s.log \in Seq(Entry) /\ Len(s.log) \in Nat /\ s.commit \in Nat
      /\ s.applied \in Seq(Entry) /\ Len(s.applied) \in Nat /\ Len(l) \in Nat
      /\ s.waiters \in SUBSET Waiter
    BY RaftFields, LenProperties
<1>2. /\ s.commit <= Len(s.log) /\ Settled(h, s.term, s.log, s.commit)
      /\ Shares(s.applied, s.log, Len(s.applied)) /\ Settled(h, s.term, s.applied, Len(s.applied))
    BY DEF Applies
<1>3. Len(s.log) <= Len(l) /\ \A i \in 1 .. Len(s.log) : l[i] = s.log[i]
    BY <1>1 DEF Shares
<1>4. Settled(g, s.term, l, s.commit)
    <2>1. Settled(g, s.term, s.log, s.commit)
        BY <1>1, <1>2, SettledStays
    <2>2. Shares(l, s.log, s.commit)
        BY <1>1, <1>2, SharesLess
    <2> QED BY <1>1, <2>1, <2>2, SettledShared
<1>5. Settled(g, s.term, s.applied, Len(s.applied))
    BY <1>1, <1>2, SettledStays
<1>6. Shares(s.applied, l, Len(s.applied))
    BY <1>1, <1>2, <1>3 DEF Shares
<1>7. s.commit <= Len(l)
    BY <1>1, <1>2, <1>3
<1>8. AppliesTo(g, s.term, l, s.commit, s.applied)
    BY <1>4, <1>5, <1>6, <1>7 DEF AppliesTo
<1>9. ASSUME NEW w \in s.waiters
      PROVE  /\ w.index \in 1 .. Len(l) /\ l[w.index].term = w.term
             /\ l[w.index].cmd = w.cmd /\ g.leader[w.term] = n
    <2>1. /\ w.index \in 1 .. Len(s.log) /\ s.log[w.index].term = w.term
          /\ s.log[w.index].cmd = w.cmd /\ h.leader[w.term] = n /\ w.term \in Nat
        BY <1>1 DEF Waits, Waiter
    <2> QED BY <1>1, <1>3, <2>1 DEF Extends
<1> QED BY <1>8, <1>9 DEF WaitsFor

\* A candidate with the votes of a majority: nobody has led its term.
LEMMA ElectionIsFree ==
    ASSUME NEW h, NEW tm, NEW lg, NEW n \in Node, NEW s, At(h, tm, lg, n, s), s.role = "candidate",
           Quorum(s.votes)
    PROVE  /\ h.log[s.term] = <<>> /\ h.leader[s.term] = Nobody
           /\ s.votes \in SUBSET Node /\ Elects(h, s.term, s.log, n, s.votes) /\ s.term >= 1
<1>1. h \in History /\ s \in Raft /\ s.term \in Nat /\ s.votes \in SUBSET Node /\ Nobody \notin Node
    BY KVAssumption, RaftFields DEF At, Core, CoreTypes, NodeOK
<1>2. /\ s.term >= 1 /\ h.leader[s.term] # n /\ h.cand[s.term][n] = s.log
      /\ \A m \in s.votes : h.vote[s.term][m] = n
    BY DEF At, NodeOK, Campaigns
<1>3. h.log[s.term] = <<>>
    <2> SUFFICES ASSUME h.log[s.term] # <<>> PROVE FALSE
        OBVIOUS
    <2>1. PICK Q \in SUBSET Node : Supported(h, s.term, Q)
        BY <1>1 DEF At, Core, LeadersElected
    <2>2. PICK m \in s.votes : m \in Q
        BY <1>1, <2>1, QuorumsMeet DEF Supported
    <2> QED BY <1>2, <2>1, <2>2 DEF Supported
<1>4. h.leader[s.term] = Nobody
    BY <1>1, <1>3 DEF At, Core, LeadersElected
<1>5. ASSUME NEW m \in s.votes PROVE h.vote[s.term][m] = n /\ Carries(h, s.log, s.term, m)
    <2>1. m \in Node /\ h.vote[s.term][m] = n
        BY <1>1, <1>2
    <2>2. Carries(h, h.cand[s.term][h.vote[s.term][m]], s.term, m)
        BY <1>1, <1>3, <2>1 DEF At, Core, VotersCarry
    <2> QED BY <1>2, <2>1, <2>2
<1> QED BY <1>1, <1>2, <1>3, <1>4, <1>5 DEF Elects

\* A candidate with a quorum of votes, s, becomes the leader r.
Wins(h, tm, lg, n, s, r) ==
    /\ h.log[s.term] = <<>> /\ r.role = "leader" /\ r.term = s.term
    /\ \A w \in s.waiters : w \notin r.waiters => w.index <= r.commit
    /\ \E g : At(g, tm, [lg EXCEPT ![n] = r.log], n, r) /\ Extends(h, g, n, s.term)

\* A candidate with a quorum of votes becomes the leader of its term.
LEMMA LeaderOK ==
    ASSUME NEW h, NEW tm, NEW lg, NEW n \in Node, NEW s, At(h, tm, lg, n, s), s.role = "candidate",
           Quorum(s.votes)
    PROVE  Wins(h, tm, lg, n, s, Leader(n, s))
<1> DEFINE e == NewEntry(s, Noop)
           l == Append(s.log, e)
           u == s.term
           ln == [lg EXCEPT ![n] = l]
           next == [m \in Node |-> Len(s.log) + 1]
           match == [m \in Node |-> 0]
           p == [s EXCEPT !.role = "leader", !.votes = {}, !.next = next, !.match = match, !.log = l]
           r == Leader(n, s)
<1>1. /\ h \in History /\ s \in Raft /\ u \in Nat /\ s.log \in Seq(Entry) /\ Len(s.log) \in Nat
      /\ tm[n] = u
      /\ lg[n] = s.log /\ lg \in [Node -> Seq(Entry)]
    BY RaftFields DEF At, Core, CoreTypes, NodeOK
<1>2. e \in Entry /\ e.term = u /\ e.index = Len(s.log) + 1
    BY <1>1 DEF NewEntry, Entry
<1>3. /\ h.log[u] = <<>> /\ h.leader[u] = Nobody
      /\ s.votes \in SUBSET Node /\ Elects(h, u, s.log, n, s.votes) /\ u >= 1
    BY ElectionIsFree
<1>4. /\ l \in Seq(Entry) /\ Len(l) = Len(s.log) + 1 /\ l # <<>> /\ Shares(l, s.log, Len(s.log))
    BY <1>1, <1>2, AppendFacts
<1>5. next \in [Node -> Nat \ {0}] /\ match \in [Node -> Nat] /\ \A m \in Node : match[m] = 0
    BY <1>1
<1>6. r = AdvanceCommit(n, p)
    BY DEF Leader
<1> HIDE DEF e, next, match, r
<1>7. PICK g \in History : /\ Core(g, tm, ln) /\ Extends(h, g, n, u)
                           /\ g.log[u] = l /\ g.leader[u] = n /\ g.ack[u][n] = Len(l)
                           /\ g.vote = h.vote
    <2>1. \E g \in History : Grows(h, g, tm, lg, n, u, l)
        BY <1>1, <1>2, <1>3, GrowHistory DEF At
    <2> QED BY <2>1 DEF Grows
<1> HIDE DEF l
<1>8. /\ p \in Raft /\ p.role = "leader" /\ p.term = u /\ p.log = l /\ p.match = match
      /\ p.voted = s.voted
      /\ p.commit = s.commit /\ p.applied = s.applied /\ p.waiters = s.waiters
    BY <1>1, <1>4, <1>5 DEF Raft
<1> HIDE DEF p
<1>9. Applies(g, p) /\ Waits(g, n, p)
    <2>1. Applies(h, s) /\ Waits(h, n, s)
        BY DEF At, NodeOK
    <2>2. AppliesTo(g, s.term, l, s.commit, s.applied) /\ WaitsFor(g, n, s.waiters, l)
        BY <1>1, <1>4, <1>7, <2>1, KeptByExtends
    <2> QED BY <1>8, <2>2 DEF Waits, WaitsFor, Applies, AppliesTo
<1>10. Leads(g, n, p)
    <2>1. \A m \in Node : g.ack[u][m] \in Nat
        BY <1>1, <1>7, HistoryTypes
    <2>2. \A m \in Node : p.match[m] <= g.ack[u][m]
        BY <1>5, <1>8, <2>1
    <2> QED BY <1>4, <1>7, <1>8, <2>2 DEF Leads
<1>11. p.voted = g.vote[p.term][n]
    BY <1>7, <1>8 DEF At, NodeOK
<1>12. At(g, tm, ln, n, p)
    BY <1>1, <1>7, <1>8, <1>9, <1>10, <1>11 DEF At, NodeOK
<1>13. At(g, tm, ln, n, r) /\ Advanced(p, r)
    BY <1>6, <1>12, AdvanceOK
<1>14. /\ h.log[s.term] = <<>> /\ r.role = "leader" /\ r.term = s.term
       /\ \A w \in s.waiters : w \notin r.waiters => w.index <= r.commit
       /\ \E f : At(f, tm, [lg EXCEPT ![n] = r.log], n, r) /\ Extends(h, f, n, s.term)
    BY <1>3, <1>7, <1>8, <1>13 DEF Advanced
<1> QED BY <1>14 DEF r, Wins

\* The leader s appends a command, p, and advances its commit index, r.
Proposed(s, c) ==
    [s EXCEPT !.log = Append(s.log, NewEntry(s, c)),
              !.waiters = @ \cup {[index |-> Len(s.log) + 1, term |-> s.term, cmd |-> c]}]
Proposes(h, tm, lg, n, s, p, r) ==
    /\ r.role = "leader" /\ r.term = s.term /\ r.commit >= s.commit
    /\ r.voted = s.voted
    /\ \A w \in p.waiters : w \notin r.waiters => w.index <= r.commit
    /\ \E g : /\ At(g, tm, [lg EXCEPT ![n] = p.log], n, p) /\ At(g, tm, [lg EXCEPT ![n] = r.log], n, r)
              /\ Extends(h, g, n, s.term)

\* A leader appends a command and waits for it.
LEMMA ProposeOK ==
    ASSUME NEW h, NEW tm, NEW lg, NEW n \in Node, NEW s, At(h, tm, lg, n, s), s.role = "leader",
           NEW c \in Cmd
    PROVE  Proposes(h, tm, lg, n, s, Proposed(s, c), AdvanceCommit(n, Proposed(s, c)))
<1> DEFINE e == NewEntry(s, c)
           l == Append(s.log, e)
           u == s.term
           ln == [lg EXCEPT ![n] = l]
           w0 == [index |-> Len(s.log) + 1, term |-> s.term, cmd |-> c]
           p == Proposed(s, c)
           r == AdvanceCommit(n, p)
<1>1. /\ h \in History /\ s \in Raft /\ u \in Nat /\ s.log \in Seq(Entry) /\ Len(s.log) \in Nat
      /\ tm[n] = u
      /\ lg[n] = s.log /\ lg \in [Node -> Seq(Entry)] /\ s.waiters \in SUBSET Waiter
      /\ Nobody \notin Node
      /\ s.match \in [Node -> Nat]
    BY KVAssumption, RaftFields DEF At, Core, CoreTypes, NodeOK
<1>2. e \in Entry /\ e.term = u /\ e.index = Len(s.log) + 1 /\ e.cmd = c
    BY <1>1 DEF NewEntry, Entry
<1>3. Leads(h, n, s)
    BY DEF At, NodeOK
<1>4. h.log[u] = s.log /\ s.log # <<>> /\ h.leader[u] = n /\ h.ack[u][n] = Len(s.log)
      /\ \A m \in Node : s.match[m] <= h.ack[u][m]
    BY <1>3 DEF Leads
<1>5. u >= 1
    <2>1. /\ Grown(h, s.log) /\ s.log[Len(s.log)].term = u
        BY <1>1, <1>4 DEF At, Core, LeadersLogs
    <2>2. Len(s.log) \in 1 .. Len(s.log)
        BY <1>1, <1>4
    <2> QED BY <2>1, <2>2 DEF Grown
<1>6. PICK Q \in SUBSET Node : Elects(h, u, s.log, n, Q)
    <2>1. PICK Q \in SUBSET Node : Supported(h, u, Q)
        BY <1>1, <1>4 DEF At, Core, LeadersElected
    <2> QED BY <1>4, <2>1 DEF Supported, Elects
<1>7. /\ l \in Seq(Entry) /\ Len(l) = Len(s.log) + 1 /\ l # <<>> /\ Shares(l, s.log, Len(s.log))
      /\ l[Len(s.log) + 1] = e
    BY <1>1, <1>2, AppendFacts
<1>8. w0 \in Waiter /\ w0.index = Len(s.log) + 1 /\ w0.term = u /\ w0.cmd = c
    BY <1>1 DEF Waiter
<1> HIDE DEF e, w0
<1>9. PICK g \in History : /\ Core(g, tm, ln) /\ Extends(h, g, n, u)
                           /\ g.log[u] = l /\ g.leader[u] = n /\ g.ack[u][n] = Len(l)
                           /\ g.vote = h.vote
    <2>1. \E g \in History : Grows(h, g, tm, lg, n, u, l)
        BY <1>1, <1>2, <1>4, <1>5, <1>6, GrowHistory DEF At
    <2> QED BY <2>1 DEF Grows
<1>10. p = [s EXCEPT !.log = l, !.waiters = @ \cup {w0}] /\ r = AdvanceCommit(n, p)
    BY DEF w0, e, Proposed
<1> HIDE DEF p, r
<1> HIDE DEF l
<1>11. /\ p \in Raft /\ p.role = "leader" /\ p.term = u /\ p.log = l /\ p.match = s.match
       /\ p.voted = s.voted
       /\ p.commit = s.commit /\ p.applied = s.applied /\ p.waiters = s.waiters \cup {w0}
    <2> DEFINE ws == s.waiters \cup {w0}
    <2>1. ws \in SUBSET Waiter
        BY <1>1, <1>8
    <2>2. p = [s EXCEPT !.log = l, !.waiters = ws]
        BY <1>1, <1>10 DEF Raft
    <2> HIDE DEF ws
    <2>3. /\ p \in Raft /\ p.role = s.role /\ p.term = u /\ p.log = l /\ p.match = s.match
          /\ p.voted = s.voted
          /\ p.commit = s.commit /\ p.applied = s.applied /\ p.waiters = ws
        BY <1>1, <1>7, <2>1, <2>2 DEF Raft
    <2> QED BY <2>3 DEF ws
<1>12. Applies(g, p) /\ Waits(g, n, p)
    <2>1. Applies(h, s) /\ Waits(h, n, s)
        BY DEF At, NodeOK
    <2>2. AppliesTo(g, s.term, l, s.commit, s.applied) /\ WaitsFor(g, n, s.waiters, l)
        BY <1>1, <1>7, <1>9, <2>1, KeptByExtends
    <2>3. /\ w0.index \in 1 .. Len(l) /\ l[w0.index].term = w0.term
          /\ l[w0.index].cmd = w0.cmd /\ g.leader[w0.term] = n
        BY <1>1, <1>2, <1>7, <1>8, <1>9
    <2>4. ASSUME NEW w \in p.waiters
          PROVE  /\ w.index \in 1 .. Len(p.log) /\ p.log[w.index].term = w.term
                 /\ p.log[w.index].cmd = w.cmd /\ g.leader[w.term] = n
        <3>1. CASE w \in s.waiters
            BY <1>11, <2>2, <3>1 DEF WaitsFor
        <3>2. CASE w = w0
            BY <1>11, <2>3, <3>2
        <3> QED BY <1>11, <3>1, <3>2
    <2>5. Applies(g, p)
        BY <1>11, <2>2 DEF Applies, AppliesTo
    <2> QED BY <2>4, <2>5 DEF Waits
<1>13. Leads(g, n, p)
    <2>1. ASSUME NEW m \in Node PROVE p.match[m] <= g.ack[u][m]
        <3>1. g.ack[u][m] \in Nat /\ h.ack[u][m] \in Nat /\ s.match[m] \in Nat
            BY <1>1, <1>9, HistoryTypes
        <3>2. s.match[m] <= h.ack[u][m] /\ h.ack[u][m] <= g.ack[u][m]
            BY <1>1, <1>4, <1>9 DEF Extends
        <3> QED BY <1>11, <3>1, <3>2
    <2> QED BY <1>7, <1>9, <1>11, <2>1 DEF Leads
<1>14. p.voted = g.vote[p.term][n]
    BY <1>9, <1>11 DEF At, NodeOK
<1>15. At(g, tm, ln, n, p)
    BY <1>1, <1>9, <1>11, <1>12, <1>13, <1>14 DEF At, NodeOK
<1>16. At(g, tm, ln, n, r) /\ Advanced(p, r)
    BY <1>10, <1>15, AdvanceOK
<1>17. /\ r.role = "leader" /\ r.term = s.term /\ r.commit >= s.commit
       /\ r.voted = s.voted
       /\ \A w \in p.waiters : w \notin r.waiters => w.index <= r.commit
       /\ \E f : /\ At(f, tm, [lg EXCEPT ![n] = p.log], n, p) /\ At(f, tm, [lg EXCEPT ![n] = r.log], n, r)
                 /\ Extends(h, f, n, s.term)
    BY <1>9, <1>11, <1>15, <1>16 DEF Advanced
<1> QED BY <1>17 DEF p, r, Proposes

\* What Have is: how many entries of a request the log has.
LEMMA HaveFacts ==
    ASSUME NEW l \in Seq(Entry), NEW q, q.entries \in Seq(Entry), q.prev \in Nat
    PROVE  LET k == Have(l, q)
           IN  /\ k \in 0 .. Len(q.entries)
               /\ \A i \in 1 .. k : HasEntry(l, q.prev + i) /\ l[q.prev + i].term = q.entries[i].term
               /\ k < Len(q.entries) =>
                    ~(HasEntry(l, q.prev + k + 1) /\ l[q.prev + k + 1].term = q.entries[k + 1].term)
<1> DEFINE Fits(i) == HasEntry(l, q.prev + i) /\ l[q.prev + i].term = q.entries[i].term
           T == {k \in 0 .. Len(q.entries) : k < Len(q.entries) => ~Fits(k + 1)}
<1>1. Len(q.entries) \in Nat
    BY LenProperties
<1>2. Len(q.entries) \in T /\ T \subseteq Nat
    BY <1>1
<1> HIDE DEF Fits
<1>3. PICK k \in T : \A j \in T : k <= j
    BY <1>2, LeastOf
<1>4. \A i \in 1 .. k : Fits(i)
    <2> SUFFICES ASSUME NEW i \in 1 .. k PROVE Fits(i)
        OBVIOUS
    <2>1. i - 1 \notin T /\ i - 1 \in 0 .. Len(q.entries) /\ (i - 1) + 1 = i
        <3>1. k \in Nat /\ k <= Len(q.entries) /\ i \in Nat /\ i >= 1 /\ i <= k
            BY <1>1, <1>2, <1>3
        <3>2. ~(k <= i - 1)
            BY <3>1
        <3>3. i - 1 \notin T
            <4> HIDE DEF T
            <4> QED BY <1>3, <3>2
        <3> QED BY <1>1, <3>1, <3>3
    <2>2. Fits((i - 1) + 1)
        BY <2>1
    <2> QED BY <2>1, <2>2
<1>5. /\ k \in 0 .. Len(q.entries) /\ (\A i \in 1 .. k : Fits(i))
      /\ (k < Len(q.entries) => ~Fits(k + 1))
    BY <1>3, <1>4
<1>6. q.prev + (k + 1) = q.prev + k + 1
    BY <1>5
<1>7. \E j \in 0 .. Len(q.entries) :
         /\ \A i \in 1 .. j : HasEntry(l, q.prev + i) /\ l[q.prev + i].term = q.entries[i].term
         /\ j < Len(q.entries) =>
              ~(HasEntry(l, q.prev + j + 1) /\ l[q.prev + j + 1].term = q.entries[j + 1].term)
    BY <1>5, <1>6 DEF Fits
<1> QED BY <1>7 DEF Have

\* Two logs that agree on the term of entry i agree up to i.
LEMMA Matching ==
    ASSUME NEW h \in History, NEW l, NEW m, Grown(h, l), Grown(h, m), NEW i \in Nat, i >= 1,
           i <= Len(l), i <= Len(m), l[i].term = m[i].term
    PROVE  Shares(l, m, i)
<1>1. l \in Seq(Entry) /\ m \in Seq(Entry) /\ Len(l) \in Nat /\ Len(m) \in Nat
    BY LenProperties DEF Grown
<1>2. i \in 1 .. Len(l) /\ i \in 1 .. Len(m)
    BY <1>1
<1>3. Shares(l, h.log[l[i].term], i) /\ Shares(m, h.log[l[i].term], i)
    BY <1>2 DEF Grown
<1> QED BY <1>3, SharesSame

\* Two logs with the same term at an index are the same up to it.
LEMMA TermsAgree ==
    ASSUME NEW h \in History, NEW l, NEW m, Grown(h, l), Grown(h, m), NEW i \in Nat,
           i <= Len(l), i <= Len(m), TermAt(l, i) = TermAt(m, i)
    PROVE  Shares(l, m, i)
<1>1. CASE i = 0
    BY <1>1 DEF Shares
<1>2. CASE i # 0
    BY <1>2, Matching DEF TermAt
<1> QED BY <1>1, <1>2

Splice(l, c, E, k) == SubSeq(l, 1, c) \o SubSeq(E, k + 1, Len(E))

\* r is the first c entries of l, then what is behind the first k of E.
Spliced(r, l, c, E, k) ==
    /\ r \in Seq(Entry) /\ Len(r) = c + (Len(E) - k)
    /\ \A i \in 1 .. c : r[i] = l[i]
    /\ \A i \in 1 .. Len(E) - k : r[c + i] = E[k + i]

\* A log cut behind an index with entries behind it.
LEMMA SpliceFacts ==
    ASSUME NEW l \in Seq(Entry), NEW E \in Seq(Entry), NEW c \in Nat, c <= Len(l), NEW k \in Nat,
           k < Len(E)
    PROVE  Spliced(Splice(l, c, E, k), l, c, E, k)
<1> DEFINE a == SubSeq(l, 1, c)
           b == SubSeq(E, k + 1, Len(E))
           d == Len(E) - k
<1>1. Len(l) \in Nat /\ Len(E) \in Nat /\ d \in Nat
    BY LenProperties
<1>2. /\ a \in Seq(Entry) /\ Len(a) = c /\ \A i \in 1 .. c : a[i] = l[i]
    <2>1. \A i \in 1 .. c : l[i] \in Entry
        BY <1>1, ElementOfSeq
    <2> QED BY <2>1, SubSeqProperties
<1>3. /\ b \in Seq(Entry) /\ Len(b) = d /\ \A i \in 1 .. d : b[i] = E[k + i]
    <2>1. \A i \in (k + 1) .. Len(E) : E[i] \in Entry
        BY <1>1, ElementOfSeq
    <2>2. /\ k + 1 \in Int /\ Len(E) \in Int /\ k + 1 <= Len(E) /\ Len(E) - (k + 1) + 1 = d
        BY <1>1
    <2>3. /\ b \in Seq(Entry) /\ Len(b) = Len(E) - (k + 1) + 1
          /\ \A i \in 1 .. Len(E) - (k + 1) + 1 : b[i] = E[k + 1 + i - 1]
        BY <2>1, <2>2, SubSeqProperties
    <2> HIDE DEF b
    <2>4. ASSUME NEW i \in 1 .. d PROVE b[i] = E[k + i]
        <3>1. k + 1 + i - 1 = k + i
            OBVIOUS
        <3> QED BY <2>2, <2>3, <3>1
    <2> QED BY <2>2, <2>3, <2>4
<1> HIDE DEF a, b, d
<1>4. /\ a \o b \in Seq(Entry) /\ Len(a \o b) = Len(a) + Len(b)
      /\ \A i \in 1 .. Len(a) + Len(b) : (a \o b)[i] = IF i <= Len(a) THEN a[i] ELSE b[i - Len(a)]
    BY <1>2, <1>3, ConcatProperties
<1> DEFINE r == a \o b
<1>5. /\ r \in Seq(Entry) /\ Len(r) = c + d
      /\ \A i \in 1 .. c + d : r[i] = IF i <= c THEN a[i] ELSE b[i - c]
    BY <1>2, <1>3, <1>4
<1> HIDE DEF r
<1>6. \A i \in 1 .. c : r[i] = l[i]
    BY <1>1, <1>2, <1>5
<1>7. ASSUME NEW i \in 1 .. d PROVE r[c + i] = E[k + i]
    <2>1. c + i \in 1 .. c + d /\ ~(c + i <= c) /\ (c + i) - c = i
        BY <1>1
    <2>2. r[c + i] = b[i]
        BY <1>5, <2>1
    <2> QED BY <1>3, <2>2
<1>8. r = Splice(l, c, E, k)
    BY DEF r, a, b, Splice
<1> QED BY <1>5, <1>6, <1>7, <1>8 DEF d, Spliced

\* The log after a request that fits.
Replaced(l, q) ==
    IF Have(l, q) = Len(q.entries) THEN l ELSE Splice(l, q.prev + Have(l, q), q.entries, Have(l, q))

\* q carries entries of K, and fits l.
Fits(q, K, l) ==
    /\ q.prev \in Nat /\ q.entries \in Seq(Entry) /\ q.prev + Len(q.entries) <= Len(K)
    /\ \A i \in 1 .. Len(q.entries) : q.entries[i] = K[q.prev + i]
    /\ q.prev <= Len(l) /\ TermAt(l, q.prev) = TermAt(K, q.prev)

\* r, that l becomes when its first k entries behind q.prev are those of q, is as it
\* was, or that of the leader up to the request's end.
Becoming(r, l, K, q, k) ==
    /\ k \in Nat /\ k <= Len(q.entries) /\ r \in Seq(Entry)
    /\ Shares(r, K, q.prev + Len(q.entries))
    /\ Shares(l, K, q.prev + k) /\ Shares(r, l, q.prev + k)
    /\ k = Len(q.entries) => r = l
    /\ k # Len(q.entries) =>
          /\ Len(r) = q.prev + Len(q.entries)
          /\ q.prev + k < Len(l) => l[q.prev + k + 1] # K[q.prev + k + 1]

\* The log after a request that fits is the leader's up to the last entry sent.
LEMMA ReplacedFacts ==
    ASSUME NEW h \in History, NEW K, Grown(h, K), NEW l, Grown(h, l), NEW q, Fits(q, K, l)
    PROVE  Becoming(Replaced(l, q), l, K, q, Have(l, q))
<1> DEFINE E == q.entries
           P == q.prev
           k == Have(l, q)
           M == P + Len(E)
           c == P + k
           r == Replaced(l, q)
<1>1. /\ l \in Seq(Entry) /\ K \in Seq(Entry) /\ E \in Seq(Entry) /\ Len(l) \in Nat
      /\ Len(K) \in Nat /\ Len(E) \in Nat
      /\ P \in Nat /\ M <= Len(K) /\ P <= Len(l) /\ TermAt(l, P) = TermAt(K, P)
      /\ \A i \in 1 .. Len(E) : E[i] = K[P + i]
    BY LenProperties DEF Grown, Fits
<1>2. /\ k \in 0 .. Len(E)
      /\ \A i \in 1 .. k : HasEntry(l, P + i) /\ l[P + i].term = E[i].term
      /\ k < Len(E) => ~(HasEntry(l, P + k + 1) /\ l[P + k + 1].term = E[k + 1].term)
    BY <1>1, HaveFacts
<1>3. r = IF k = Len(E) THEN l ELSE Splice(l, c, E, k)
    BY DEF Replaced
<1> HIDE DEF E, P, k, r
<1>4. k \in Nat /\ k <= Len(E) /\ c \in Nat /\ c <= M /\ M \in Nat /\ c <= Len(K)
    BY <1>1, <1>2
<1>5. c <= Len(l)
    <2>1. CASE k = 0
        BY <1>1, <2>1
    <2>2. CASE k # 0
        <3>1. k \in 1 .. k
            BY <1>4, <2>2
        <3> QED BY <1>2, <3>1 DEF HasEntry
    <2> QED BY <2>1, <2>2
<1>6. Shares(l, K, c)
    <2>1. TermAt(l, c) = TermAt(K, c)
        <3>1. CASE k = 0
            BY <1>1, <3>1
        <3>2. CASE k # 0
            <4>1. k \in 1 .. k /\ k \in 1 .. Len(E) /\ c # 0
                BY <1>1, <1>4, <3>2
            <4>2. l[P + k].term = E[k].term /\ E[k] = K[P + k]
                BY <1>1, <1>2, <4>1
            <4> QED BY <4>1, <4>2 DEF TermAt
        <3> QED BY <3>1, <3>2
    <2> QED BY <1>4, <1>5, <2>1, TermsAgree
<1>7. CASE k = Len(E)
    <2>1. r = l /\ c = M
        BY <1>3, <1>7
    <2>2. Shares(l, l, c)
        BY <1>1, <1>5 DEF Shares
    <2> QED BY <1>1, <1>4, <1>6, <1>7, <2>1, <2>2 DEF E, P, k, r, Becoming
<1>8. CASE k # Len(E)
    <2>1. r = Splice(l, c, E, k) /\ k < Len(E)
        BY <1>1, <1>3, <1>4, <1>8
    <2>2. /\ r \in Seq(Entry) /\ Len(r) = c + (Len(E) - k)
          /\ \A i \in 1 .. c : r[i] = l[i]
          /\ \A i \in 1 .. Len(E) - k : r[c + i] = E[k + i]
        <3> HIDE DEF c, M
        <3>1. Spliced(Splice(l, c, E, k), l, c, E, k)
            BY <1>1, <1>4, <1>5, <2>1, SpliceFacts
        <3> QED BY <2>1, <3>1 DEF Spliced
    <2>3. Len(r) = M
        BY <1>1, <1>4, <2>2
    <2>4. \A i \in 1 .. c : l[i] = K[i]
        BY <1>6 DEF Shares
    <2>5. ASSUME NEW i \in 1 .. M PROVE r[i] = K[i]
        <3>1. CASE i <= c
            <4>1. i \in 1 .. c
                BY <1>4, <3>1
            <4> QED BY <2>2, <2>4, <4>1
        <3>2. CASE i > c
            <4> DEFINE j == i - c
            <4>1. j \in 1 .. Len(E) - k /\ k + j \in 1 .. Len(E) /\ c + j = i /\ P + (k + j) = i
                BY <1>1, <1>4, <3>2
            <4> HIDE DEF j
            <4>2. r[c + j] = E[k + j] /\ E[k + j] = K[P + (k + j)]
                BY <1>1, <2>2, <4>1
            <4> QED BY <4>1, <4>2
        <3> QED BY <1>4, <3>1, <3>2
    <2>6. Shares(r, K, M)
        BY <1>1, <2>3, <2>5 DEF Shares
    <2>7. Shares(r, l, c)
        BY <1>4, <1>5, <2>2, <2>3 DEF Shares
    <2>8. ASSUME c < Len(l) PROVE l[c + 1] # K[c + 1]
        <3>1. HasEntry(l, c + 1)
            BY <1>1, <1>4, <2>8 DEF HasEntry
        <3>2. l[c + 1].term # E[k + 1].term
            BY <1>2, <2>1, <3>1
        <3>3. k + 1 \in 1 .. Len(E) /\ P + (k + 1) = c + 1
            BY <1>1, <1>4, <2>1
        <3>4. E[k + 1] = K[P + (k + 1)]
            BY <1>1, <3>3
        <3> QED BY <3>2, <3>3, <3>4
    <2> QED BY <1>4, <1>6, <1>8, <2>2, <2>3, <2>6, <2>7, <2>8 DEF E, P, k, r, Becoming
<1> QED BY <1>7, <1>8

\* A follower that accepts a request stays true to a history that has its acknowledgement.
LEMMA AcceptOK ==
    ASSUME NEW h, NEW tm, NEW lg, NEW n \in Node, NEW s, At(h, tm, lg, n, s), s.role = "follower",
           NEW q, SentOK(h, n, q), q.term = s.term, q.prev <= Len(s.log),
           TermAt(s.log, q.prev) = q.prevTerm,
           NEW r, r = Appended(s, q)
    PROVE  /\ r.term = s.term /\ r.role = "follower"
           /\ \E g : /\ At(g, tm, [lg EXCEPT ![n] = r.log], n, r) /\ Extends(h, g, n, s.term)
                     /\ q.prev + Len(q.entries) <= g.ack[s.term][n]
<1> DEFINE u == s.term
           K == h.log[u]
           E == q.entries
           P == q.prev
           M == P + Len(E)
           k == Have(s.log, q)
           l == Replaced(s.log, q)
           c == P + k
           ln == [lg EXCEPT ![n] = l]
           leader == h.leader[u]
<1>1. /\ h \in History /\ s \in Raft /\ u \in Nat /\ s.log \in Seq(Entry) /\ Len(s.log) \in Nat
      /\ tm[n] = u
      /\ lg[n] = s.log /\ lg \in [Node -> Seq(Entry)] /\ tm \in [Node -> Nat] /\ Nobody \notin Node
      /\ s.waiters \in SUBSET Waiter /\ s.commit \in Nat /\ s.applied \in Seq(Entry)
      /\ Len(s.applied) \in Nat
    BY KVAssumption, RaftFields DEF At, Core, CoreTypes, NodeOK
<1>2. /\ K # <<>> /\ P \in Nat /\ E \in Seq(Entry) /\ M <= Len(K) /\ Len(E) \in Nat /\ M \in Nat
      /\ \A i \in 1 .. Len(E) : E[i] = K[P + i]
      /\ TermAt(s.log, P) = TermAt(K, P) /\ q.commit \in Nat /\ Settled(h, u, K, q.commit)
    BY LenProperties DEF SentOK
<1>3. /\ Grown(h, K) /\ TermsTo(K, u) /\ K[Len(K)].term = u /\ K \in Seq(Entry) /\ Len(K) \in Nat
    BY <1>1, <1>2, HistoryTypes DEF At, Core, LeadersLogs, TermsTo
<1>4. Grown(h, s.log) /\ TermsTo(s.log, u)
    BY <1>1 DEF At, Core, NodesLogs, TermsTo
<1>5. /\ k \in Nat /\ k <= Len(E) /\ l \in Seq(Entry)
      /\ Shares(l, K, M) /\ Shares(s.log, K, c) /\ Shares(l, s.log, c)
      /\ k = Len(E) => l = s.log
      /\ k # Len(E) => Len(l) = M /\ (c < Len(s.log) => s.log[c + 1] # K[c + 1])
    <2>1. Fits(q, K, s.log)
        BY <1>1, <1>2 DEF Fits
    <2>2. Becoming(Replaced(s.log, q), s.log, K, q, Have(s.log, q))
        <3> HIDE DEF K
        <3> QED BY <1>1, <1>3, <1>4, <2>1, ReplacedFacts
    <2> QED BY <2>2 DEF Becoming
<1>6. Len(l) \in Nat /\ c \in Nat /\ c <= M /\ M <= Len(l) /\ c <= Len(s.log)
    BY <1>2, <1>5, LenProperties DEF Shares
<1> HIDE DEF K, E, P, k, l, leader
<1>7. Grown(h, l) /\ TermsTo(l, u)
    <2>1. CASE k = Len(E)
        BY <1>4, <1>5, <2>1
    <2>2. CASE k # Len(E)
        <3>1. Len(l) <= Len(K) /\ \A i \in 1 .. Len(l) : l[i] = K[i]
            BY <1>5, <2>2 DEF Shares
        <3>2. ASSUME NEW i \in 1 .. Len(l)
              PROVE  l[i].index = i /\ l[i].term >= 1 /\ Shares(l, h.log[l[i].term], i) /\ l[i].term <= u
            <4>1. i \in 1 .. Len(K) /\ l[i] = K[i] /\ i \in Nat
                BY <1>3, <1>6, <3>1
            <4>2. /\ K[i].index = i /\ K[i].term >= 1 /\ Shares(K, h.log[K[i].term], i)
                  /\ K[i].term <= u
                BY <1>3, <4>1 DEF Grown, TermsTo
            <4>3. Shares(l, K, i)
                BY <1>3, <1>6, <3>1 DEF Shares
            <4>4. Shares(l, h.log[K[i].term], i)
                BY <4>2, <4>3, SharesSame
            <4> QED BY <4>1, <4>2, <4>4
        <3> QED BY <1>5, <3>2 DEF Grown, TermsTo
    <2> QED BY <2>1, <2>2
<1>8. Follows(l, s.log, K)
    <2> SUFFICES ASSUME NEW i \in 1 .. Len(s.log) PROVE Shares(l, s.log, i) \/ Differs(s.log, K, i)
        BY DEF Follows
    <2>1. CASE k = Len(E)
        BY <1>1, <1>5, <2>1 DEF Shares
    <2>2. CASE k # Len(E) /\ i <= c
        BY <1>1, <1>5, <1>6, <2>2, SharesLess
    <2>3. CASE k # Len(E) /\ i > c
        <3>1. c < Len(s.log) /\ c + 1 \in 1 .. i /\ c + 1 <= Len(s.log)
            BY <1>1, <1>6, <2>3
        <3>2. s.log[c + 1] # K[c + 1]
            BY <1>5, <2>3, <3>1
        <3>3. k < Len(E)
            BY <1>2, <1>5, <2>3
        <3>4. c + 1 <= Len(K)
            BY <1>2, <1>3, <1>5, <3>3
        <3> QED BY <3>1, <3>2, <3>4 DEF Differs
    <2> QED BY <1>6, <2>1, <2>2, <2>3
\* What was settled in the log is not replaced.
<1>9. ASSUME NEW m \in Seq(Entry), NEW d \in Nat, Settled(h, u, m, d), Shares(m, s.log, d)
      PROVE  Shares(l, m, d)
    <2>1. CASE k = Len(E)
        BY <1>5, <1>9, <2>1 DEF Shares
    <2>2. CASE k # Len(E)
        <3>1. Shares(K, m, d)
            BY <1>1, <1>2, <1>9, SettledInLeader DEF At, K
        <3>2. d <= c
            <4> SUFFICES ASSUME d > c PROVE FALSE
                BY <1>6
            <4>1. d <= Len(s.log) /\ c + 1 \in 1 .. d /\ c < Len(s.log)
                BY <1>1, <1>6, <1>9 DEF Shares
            <4>2. m[c + 1] = s.log[c + 1] /\ K[c + 1] = m[c + 1]
                BY <1>9, <3>1, <4>1 DEF Shares
            <4> QED BY <1>5, <2>2, <4>1, <4>2
        <3>3. Shares(l, s.log, d)
            BY <1>1, <1>5, <1>6, <3>2, SharesLess
        <3> QED BY <1>9, <3>3, SharesSame
    <2> QED BY <2>1, <2>2
<1>10. leader \in Node /\ u <= tm[leader] /\ \E Q \in SUBSET Node : Supported(h, u, Q)
    BY <1>1, <1>2 DEF At, Core, LeadersElected, K, leader
<1>11. PICK Q \in SUBSET Node : Elects(h, u, K, leader, Q)
    BY <1>10 DEF Supported, Elects, K, leader
<1>12. PICK g \in History : Led(h, g, n, u, K, leader, M)
    <2>1. Shares(K, h.log[u], Len(h.log[u]))
        BY <1>3 DEF Shares, K
    <2> QED BY <1>1, <1>2, <1>3, <1>10, <2>1, LedHistory
<1>13. Longer(h, g) /\ g.log[u] = K /\ g.leader[u] = leader /\ g.vote = h.vote
       /\ g.ack[u][n] = IF M > h.ack[u][n] THEN M ELSE h.ack[u][n]
    BY <1>1, <1>12 DEF Led
<1>14. Grown(g, l) /\ Grown(g, K)
    BY <1>1, <1>3, <1>7, <1>13, LongerGrown
<1>15. Core(g, tm, ln)
    BY <1>1, <1>2, <1>3, <1>5, <1>7, <1>8, <1>10, <1>11, <1>12, <1>14, CoreAdvance DEF At
<1>16. Extends(h, g, n, u)
    BY <1>1, <1>2, <1>10, <1>12, LedExtends DEF K, leader
<1>17. M <= g.ack[u][n]
    <2>1. h.ack[u][n] \in Nat
        BY <1>1, HistoryTypes
    <2> QED BY <1>2, <1>13, <2>1
<1> DEFINE t == IF k = Len(E) THEN s
                ELSE [s EXCEPT !.log = l, !.waiters = {w \in s.waiters : w.index <= c}]
<1>18. /\ t \in Raft /\ t.term = u /\ t.role = "follower" /\ t.voted = s.voted /\ t.log = l
       /\ t.commit = s.commit /\ t.applied = s.applied /\ t.waiters \subseteq s.waiters
       /\ \A w \in t.waiters : l = s.log \/ w.index <= c
    <2>1. CASE k = Len(E)
        BY <1>1, <1>5, <2>1
    <2>2. CASE k # Len(E)
        <3> DEFINE ws == {w \in s.waiters : w.index <= c}
        <3>1. ws \in SUBSET Waiter /\ ws \subseteq s.waiters /\ \A w \in ws : w.index <= c
            BY <1>1
        <3> HIDE DEF ws
        <3>2. [s EXCEPT !.log = l, !.waiters = ws] \in Raft
            BY <1>1, <1>5, <3>1 DEF Raft
        <3>3. t = [s EXCEPT !.log = l, !.waiters = ws]
            BY <2>2 DEF ws
        <3> HIDE DEF t
        <3> QED BY <1>1, <3>1, <3>2, <3>3 DEF Raft
    <2> QED BY <2>1, <2>2
<1>19. r = IF q.commit > t.commit THEN ApplyCommitted([t EXCEPT !.commit = Least(q.commit, M)]) ELSE t
    <2>1. CASE k = Len(E)
        BY <2>1 DEF Appended, k, E, P
    <2>2. CASE k # Len(E)
        <3>1. l = SubSeq(s.log, 1, c) \o SubSeq(E, k + 1, Len(E))
            BY <2>2 DEF l, Replaced, Splice, k, E, P
        <3> QED BY <2>2, <3>1 DEF Appended, k, E, P
    <2> QED BY <2>1, <2>2
<1> HIDE DEF t
<1>20. Applies(g, t)
    <2>1. /\ s.commit <= Len(s.log) /\ Settled(h, u, s.log, s.commit)
          /\ Shares(s.applied, s.log, Len(s.applied)) /\ Settled(h, u, s.applied, Len(s.applied))
        BY DEF At, NodeOK, Applies
    <2>2. Shares(l, s.log, s.commit)
        <3>1. Shares(s.log, s.log, s.commit)
            BY <1>1, <2>1 DEF Shares
        <3> QED BY <1>1, <1>9, <2>1, <3>1
    <2>3. Shares(l, s.applied, Len(s.applied))
        BY <1>1, <1>9, <2>1
    <2>4. Settled(g, u, l, s.commit)
        <3>1. Settled(g, u, s.log, s.commit)
            BY <1>1, <1>16, <2>1, SettledStays
        <3> QED BY <1>1, <1>5, <2>2, <3>1, SettledShared
    <2>5. Settled(g, u, s.applied, Len(s.applied))
        BY <1>1, <1>16, <2>1, SettledStays
    <2> QED BY <1>18, <2>2, <2>3, <2>4, <2>5 DEF Applies, Shares
<1>21. WaitsFor(g, n, t.waiters, l)
    <2> SUFFICES ASSUME NEW w \in t.waiters
                 PROVE  /\ w.index \in 1 .. Len(l) /\ l[w.index].term = w.term
                        /\ l[w.index].cmd = w.cmd /\ g.leader[w.term] = n
        BY DEF WaitsFor
    <2>1. /\ w.index \in 1 .. Len(s.log) /\ s.log[w.index].term = w.term
          /\ s.log[w.index].cmd = w.cmd /\ h.leader[w.term] = n /\ w.term \in Nat
        BY <1>1, <1>18 DEF At, NodeOK, Waits, Waiter
    <2>2. g.leader[w.term] = n
        BY <1>1, <1>16, <2>1 DEF Extends
    <2>3. CASE l = s.log
        BY <2>1, <2>2, <2>3
    <2>4. CASE w.index <= c
        <3>1. w.index \in 1 .. c
            BY <1>6, <2>1, <2>4
        <3>2. l[w.index] = s.log[w.index] /\ w.index \in 1 .. Len(l)
            BY <1>5, <1>6, <3>1 DEF Shares
        <3> QED BY <2>1, <2>2, <3>2
    <2> QED BY <1>18, <2>3, <2>4
<1>22. s.voted = g.vote[u][n]
    BY <1>13 DEF At, NodeOK
<1>23. ln[n] = l
    BY <1>1
<1>24. CASE ~(q.commit > t.commit)
    <2>1. r = t
        BY <1>19, <1>24
    <2>2. NodeOK(g, n, t)
        BY <1>18, <1>20, <1>21, <1>22 DEF NodeOK, Waits, WaitsFor
    <2>3. At(g, tm, ln, n, r)
        BY <1>1, <1>15, <1>18, <1>23, <2>1, <2>2 DEF At
    <2> QED BY <1>16, <1>17, <1>18, <2>1, <2>3 DEF P, E
<1>25. CASE q.commit > t.commit
    <2> DEFINE d == Least(q.commit, M)
               b == [t EXCEPT !.commit = d]
    <2>1. d \in Nat /\ d <= M /\ d <= q.commit
        BY <1>2 DEF Least
    <2> HIDE DEF d
    <2>2. /\ b \in Raft /\ b.term = u /\ b.role = "follower" /\ b.voted = s.voted /\ b.log = l
          /\ b.commit = d
          /\ b.applied = t.applied /\ b.waiters = t.waiters
        BY <1>18, <2>1 DEF Raft
    <2>3. r = ApplyCommitted(b)
        BY <1>19, <1>25 DEF d
    <2> HIDE DEF b
    <2>4. Applies(g, b)
        <3>1. Settled(h, u, K, d)
            BY <1>1, <1>2, <1>3, <2>1, SettledLess
        <3>2. Shares(l, K, d)
            BY <1>2, <1>3, <1>5, <2>1, SharesLess
        <3>3. Settled(h, u, l, d)
            BY <1>1, <1>3, <1>5, <2>1, <3>1, <3>2, SettledShared
        <3>4. Settled(g, u, l, d)
            BY <1>1, <1>16, <2>1, <3>3, SettledStays
        <3>5. d <= Len(l)
            BY <1>2, <1>6, <2>1
        <3> QED BY <1>18, <1>20, <2>2, <3>4, <3>5 DEF Applies
    <2>5. /\ r \in Raft /\ Applies(g, r)
          /\ r = [b EXCEPT !.applied = r.applied, !.waiters = {w \in b.waiters : w.index > b.commit}]
        <3>1. /\ ApplyCommitted(b) \in Raft /\ Applies(g, ApplyCommitted(b))
              /\ ApplyCommitted(b) = [b EXCEPT !.applied = ApplyCommitted(b).applied,
                                               !.waiters = {w \in b.waiters : w.index > b.commit}]
            BY <2>2, <2>4, ApplyFields
        <3> QED BY <2>3, <3>1
    <2>6. /\ r.term = u /\ r.role = "follower" /\ r.voted = s.voted /\ r.log = l
          /\ r.waiters \subseteq t.waiters
        BY <2>2, <2>5 DEF Raft
    <2>7. NodeOK(g, n, r)
        BY <1>21, <1>22, <2>5, <2>6 DEF NodeOK, Waits, WaitsFor
    <2>8. At(g, tm, ln, n, r)
        BY <1>1, <1>15, <1>23, <2>6, <2>7 DEF At
    <2> QED BY <1>16, <1>17, <2>6, <2>8 DEF P, E
<1> QED BY <1>24, <1>25

\* Node n goes from s to t, and the history from h to g.
Moves(h, g, tm, lg, n, s, t) ==
    /\ At(g, [tm EXCEPT ![n] = t.term], [lg EXCEPT ![n] = t.log], n, t)
    /\ Extends(h, g, n, s.term) /\ s.term <= t.term
    /\ t.role = "leader" =>
          \/ s.role = "leader" /\ t.term = s.term /\ s.commit <= t.commit
          \/ h.log[t.term] = <<>>
    /\ \A w \in s.waiters :
          w \notin t.waiters /\ t.role = "leader" /\ w.term = t.term => w.index <= t.commit

\* A step to a follower or a candidate.
LEMMA MovesFollower ==
    ASSUME NEW h, NEW g, NEW tm, NEW lg, NEW n \in Node, NEW s, NEW t, t.role # "leader",
           At(g, [tm EXCEPT ![n] = t.term], [lg EXCEPT ![n] = t.log], n, t),
           Extends(h, g, n, s.term), s.term <= t.term
    PROVE  Moves(h, g, tm, lg, n, s, t)
BY DEF Moves

\* A step that changes nothing.
LEMMA MovesNowhere ==
    ASSUME NEW h, NEW tm, NEW lg, NEW n \in Node, NEW s, At(h, tm, lg, n, s)
    PROVE  Moves(h, h, tm, lg, n, s, s)
<1>1. h \in History /\ s \in Raft /\ tm \in [Node -> Nat] /\ lg \in [Node -> Seq(Entry)]
      /\ tm[n] = s.term /\ lg[n] = s.log
    BY DEF At, Core, CoreTypes, NodeOK
<1>2. s.term \in Nat /\ s.commit \in Nat
    BY <1>1, RaftFields
<1>3. [tm EXCEPT ![n] = s.term] = tm /\ [lg EXCEPT ![n] = s.log] = lg
    BY <1>1
<1>4. Extends(h, h, n, s.term)
    BY <1>1, ExtendsSelf
<1> QED BY <1>2, <1>3, <1>4 DEF Moves

\* The first index of a term is a natural.
LEMMA FirstOfTerm ==
    ASSUME NEW l \in Seq(Entry), NEW i \in 1 .. Len(l)
    PROVE  FirstIndexOfTerm(l, l[i].term) \in Nat
<1> DEFINE t == l[i].term
           T == {j \in 1 .. Len(l) : l[j].term = t}
<1>1. Len(l) \in Nat /\ T \subseteq Nat /\ i \in T
    BY LenProperties
<1>2. PICK x \in T : \A y \in T : x <= y
    BY <1>1, LeastOf
<1>3. \A j \in 1 .. (x - 1) : l[j].term # t
    <2> SUFFICES ASSUME NEW j \in 1 .. (x - 1), l[j].term = t PROVE FALSE
        OBVIOUS
    <2>1. j \in T /\ ~(x <= j)
        BY <1>1
    <2> QED BY <1>2, <2>1
<1>4. x \in 1 .. Len(l) /\ l[x].term = t
    OBVIOUS
<1> HIDE DEF T
<1>5. FirstIndexOfTerm(l, t) \in 1 .. Len(l)
    BY <1>3, <1>4 DEF FirstIndexOfTerm
<1> QED BY <1>1, <1>5

\* What a request to a follower does, in the four ways it is answered.
Refused(s, conflict) == [state |-> s, term |-> s.term, ok |-> FALSE, match |-> 0, conflict |-> conflict]
Accepted(t, match) == [state |-> t, term |-> t.term, ok |-> TRUE, match |-> match, conflict |-> 0]
Following(s, u) == IF u > s.term \/ s.role # "follower" THEN Follower(s, u) ELSE s

\* The four ways a request of a term that is not behind is answered.
LEMMA HandledCases ==
    ASSUME NEW s, NEW q, NEW t, t = Following(s, q.term), NEW r, r = Handled(s, q),
           ~(q.term < s.term)
    PROVE  \/ r = Refused(t, Len(t.log) + 1)
           \/ /\ HasEntry(t.log, q.prev) /\ TermAt(t.log, q.prev) # q.prevTerm
              /\ r = Refused(t, FirstIndexOfTerm(t.log, TermAt(t.log, q.prev)))
           \/ r = Refused(t, 0)
           \/ /\ HasEntry(t.log, q.prev) /\ TermAt(t.log, q.prev) = q.prevTerm
              /\ r = Accepted(Appended(t, q), q.prev + Len(q.entries))
BY Zenon DEF Handled, Refused, Accepted, Following

Answers(h, n, s, q, r) ==
    /\ r.term \in Nat /\ r.match \in Nat /\ r.conflict \in Nat
    /\ r.ok => r.match <= h.ack[q.term][n] /\ r.state.term = q.term

\* HandleAppend, in every case, is a move of its node, and its answer true.
LEMMA HandledOK ==
    ASSUME NEW h, NEW tm, NEW lg, NEW n \in Node, NEW s, At(h, tm, lg, n, s),
           NEW q, SentOK(h, n, q), NEW r, r = Handled(s, q)
    PROVE  \E g : Moves(h, g, tm, lg, n, s, r.state) /\ Answers(g, n, s, q, r)
<1>1. /\ h \in History /\ s \in Raft /\ s.term \in Nat /\ tm[n] = s.term /\ lg[n] = s.log
      /\ tm \in [Node -> Nat] /\ lg \in [Node -> Seq(Entry)] /\ s.log \in Seq(Entry)
    BY RaftFields DEF At, Core, CoreTypes, NodeOK
<1>2. /\ q.term \in Nat /\ q.prev \in Nat /\ q.entries \in Seq(Entry) /\ Len(q.entries) \in Nat
      /\ q.prevTerm = TermAt(h.log[q.term], q.prev)
    BY LenProperties DEF SentOK
<1>3. CASE q.term < s.term
    <2>1. r = Refused(s, 0)
        BY <1>3, Zenon DEF Handled, Refused
    <2>2. Moves(h, h, tm, lg, n, s, s)
        BY MovesNowhere
    <2>3. r.state = s /\ Answers(h, n, s, q, r)
        BY <1>1, <2>1 DEF Refused, Answers
    <2> QED BY <2>2, <2>3
<1>4. CASE ~(q.term < s.term)
    <2> DEFINE t == Following(s, q.term)
               tn == [tm EXCEPT ![n] = q.term]
    <2>1. s.term <= q.term
        BY <1>1, <1>2, <1>4
    <2>2. At(h, tn, lg, n, t) /\ t.term = q.term /\ t.role = "follower"
        <3>1. CASE q.term > s.term \/ s.role # "follower"
            <4>1. t = Follower(s, q.term)
                BY <3>1 DEF Following
            <4>2. At(h, tn, lg, n, Follower(s, q.term))
                BY <1>2, <2>1, FollowerOK
            <4>3. Follower(s, q.term).term = q.term /\ Follower(s, q.term).role = "follower"
                BY <1>1, <1>2, FollowerFields
            <4> QED BY <4>1, <4>2, <4>3
        <3>2. CASE ~(q.term > s.term \/ s.role # "follower")
            <4>1. t = s /\ s.role = "follower" /\ q.term = s.term
                BY <1>1, <1>2, <2>1, <3>2 DEF Following
            <4>2. tn = tm
                BY <1>1, <4>1
            <4> QED BY <4>1, <4>2
        <3> QED BY <3>1, <3>2
    <2> HIDE DEF t
    <2>3. t \in Raft /\ t.log = s.log /\ lg[n] = t.log
        BY <1>1, <2>2 DEF At, NodeOK
    <2>4. ASSUME NEW c \in Nat, r = Refused(t, c)
          PROVE  \E g : Moves(h, g, tm, lg, n, s, r.state) /\ Answers(g, n, s, q, r)
        <3>1. r.state = t /\ r.term = q.term /\ ~r.ok /\ r.match = 0 /\ r.conflict = c
            BY <2>2, <2>4 DEF Refused
        <3>2. Answers(h, n, s, q, r)
            BY <1>2, <2>4, <3>1 DEF Answers
        <3>3. [lg EXCEPT ![n] = t.log] = lg
            BY <1>1, <2>3
        <3>4. Extends(h, h, n, s.term)
            BY <1>1, ExtendsSelf
        <3>5. Moves(h, h, tm, lg, n, s, t)
            BY <2>1, <2>2, <3>3, <3>4, MovesFollower
        <3> QED BY <3>1, <3>2, <3>5
    <2>5. \/ r = Refused(t, Len(t.log) + 1)
          \/ /\ HasEntry(t.log, q.prev) /\ TermAt(t.log, q.prev) # q.prevTerm
             /\ r = Refused(t, FirstIndexOfTerm(t.log, TermAt(t.log, q.prev)))
          \/ r = Refused(t, 0)
          \/ /\ HasEntry(t.log, q.prev) /\ TermAt(t.log, q.prev) = q.prevTerm
             /\ r = Accepted(Appended(t, q), q.prev + Len(q.entries))
        BY <1>4, HandledCases DEF t
    <2>6. CASE r = Refused(t, Len(t.log) + 1)
        <3>1. Len(t.log) + 1 \in Nat
            BY <1>1, <2>3, LenProperties
        <3> QED BY <2>4, <2>6, <3>1
    <2>7. CASE /\ HasEntry(t.log, q.prev) /\ TermAt(t.log, q.prev) # q.prevTerm
               /\ r = Refused(t, FirstIndexOfTerm(t.log, TermAt(t.log, q.prev)))
        <3>1. Len(t.log) \in Nat /\ q.prev # 0
            BY <1>1, <1>2, <2>3, <2>7, LenProperties DEF TermAt
        <3>2. q.prev \in 1 .. Len(t.log) /\ TermAt(t.log, q.prev) = t.log[q.prev].term
            BY <1>2, <2>7, <3>1 DEF HasEntry, TermAt
        <3>3. FirstIndexOfTerm(t.log, TermAt(t.log, q.prev)) \in Nat
            BY <1>1, <2>3, <3>2, FirstOfTerm
        <3> QED BY <2>4, <2>7, <3>3
    <2>8. CASE r = Refused(t, 0)
        BY <2>4, <2>8
    <2>9. CASE /\ HasEntry(t.log, q.prev) /\ TermAt(t.log, q.prev) = q.prevTerm
               /\ r = Accepted(Appended(t, q), q.prev + Len(q.entries))
        <3> DEFINE a == Appended(t, q)
        <3>1. a = Appended(t, q) /\ q.prev <= Len(t.log)
            BY <2>9 DEF HasEntry
        <3> HIDE DEF a
        <3>0. /\ a.term = t.term /\ a.role = "follower"
              /\ \E g : /\ At(g, tn, [lg EXCEPT ![n] = a.log], n, a) /\ Extends(h, g, n, t.term)
                        /\ q.prev + Len(q.entries) <= g.ack[t.term][n]
            <4>1. t.role = "follower" /\ q.term = t.term /\ TermAt(t.log, q.prev) = q.prevTerm
                BY <2>2, <2>9
            <4> HIDE DEF tn
            <4> QED BY <2>2, <3>1, <4>1, AcceptOK
        <3>2. PICK g : /\ At(g, tn, [lg EXCEPT ![n] = a.log], n, a) /\ Extends(h, g, n, t.term)
                       /\ q.prev + Len(q.entries) <= g.ack[t.term][n]
            BY <3>0
        <3>3. a.term = t.term /\ a.role = "follower"
            BY <3>0
        <3>4. Extends(h, g, n, s.term)
            <4>1. Extends(h, h, n, s.term)
                BY <1>1, ExtendsSelf
            <4> QED BY <1>1, <1>2, <2>1, <2>2, <3>2, <4>1, ExtendsTwice
        <3>5. tn = [tm EXCEPT ![n] = a.term]
            BY <2>2, <3>3
        <3>6. Moves(h, g, tm, lg, n, s, a)
            BY <2>1, <2>2, <3>2, <3>3, <3>4, <3>5, MovesFollower
        <3>7. /\ r.state = a /\ r.term = q.term /\ r.match = q.prev + Len(q.entries)
              /\ r.conflict = 0
            BY <2>2, <2>9, <3>1, <3>3 DEF Accepted
        <3>8. Answers(g, n, s, q, r)
            BY <1>2, <2>1, <2>2, <3>2, <3>3, <3>7 DEF Answers
        <3> QED BY <3>6, <3>7, <3>8
    <2> QED BY <2>5, <2>6, <2>7, <2>8, <2>9
<1> QED BY <1>3, <1>4

\* Stepping down is a move.
LEMMA FollowMoves ==
    ASSUME NEW h, NEW tm, NEW lg, NEW n \in Node, NEW s, At(h, tm, lg, n, s), NEW u \in Nat,
           s.term <= u
    PROVE  /\ Moves(h, h, tm, lg, n, s, Follower(s, u))
           /\ Follower(s, u).term = u /\ Follower(s, u).role = "follower"
<1> DEFINE t == Follower(s, u)
<1>1. h \in History /\ s \in Raft /\ lg[n] = s.log /\ lg \in [Node -> Seq(Entry)] /\ s.term \in Nat
    BY RaftFields DEF At, Core, CoreTypes, NodeOK
<1>2. At(h, [tm EXCEPT ![n] = u], lg, n, t)
    BY FollowerOK
<1>3. t.term = u /\ t.log = s.log /\ t.role = "follower"
    BY <1>1, FollowerFields
<1> HIDE DEF t
<1>4. [lg EXCEPT ![n] = t.log] = lg /\ Extends(h, h, n, s.term)
    BY <1>1, <1>3, ExtendsSelf
<1>5. /\ At(h, [tm EXCEPT ![n] = t.term], [lg EXCEPT ![n] = t.log], n, t) /\ s.term <= t.term
      /\ t.role # "leader"
    BY <1>2, <1>3, <1>4
<1>6. Moves(h, h, tm, lg, n, s, t)
    BY <1>4, <1>5, MovesFollower
<1> QED BY <1>3, <1>6 DEF t

\* A record that differs in what only its role reads.
LEMMA MovesAside ==
    ASSUME NEW h, NEW tm, NEW lg, NEW n \in Node, NEW s, At(h, tm, lg, n, s),
           NEW t, NodeOK(h, n, t), t.term = s.term, t.log = s.log, t.role = s.role,
           t.commit = s.commit,
           t.waiters = s.waiters
    PROVE  At(h, tm, lg, n, t) /\ Moves(h, h, tm, lg, n, s, t)
<1>1. /\ h \in History /\ s.term \in Nat /\ s.commit \in Nat /\ tm[n] = s.term /\ lg[n] = s.log
      /\ tm \in [Node -> Nat] /\ lg \in [Node -> Seq(Entry)] /\ Core(h, tm, lg)
    BY RaftFields DEF At, Core, CoreTypes, NodeOK
<1>2. [tm EXCEPT ![n] = t.term] = tm /\ [lg EXCEPT ![n] = t.log] = lg /\ Extends(h, h, n, s.term)
    BY <1>1, ExtendsSelf
<1>3. At(h, tm, lg, n, t)
    BY <1>1 DEF At
<1>4. At(h, [tm EXCEPT ![n] = t.term], [lg EXCEPT ![n] = t.log], n, t)
    BY <1>2, <1>3
<1>5. /\ t.role = "leader" => s.role = "leader" /\ t.term = s.term /\ s.commit <= t.commit
      /\ s.term <= t.term
      /\ \A w \in s.waiters : w \notin t.waiters => FALSE
    BY <1>1
<1> QED BY <1>2, <1>3, <1>4, <1>5 DEF Moves

\* A vote that may be given.
Votable(n, s, q) == q.to = n /\ q.term = s.term /\ MayVote(s, q)
Grants(h, tm, lg, n, s, t, c) ==
    \E g : /\ At(g, tm, lg, n, t) /\ Extends(h, g, n, s.term) /\ g.vote[s.term][n] = c

\* Granting a vote is a move.
LEMMA GrantsVote ==
    ASSUME NEW h, NEW tm, NEW lg, NEW n \in Node, NEW s, At(h, tm, lg, n, s),
           NEW q, AskOK(h, tm, q), Votable(n, s, q)
    PROVE  Grants(h, tm, lg, n, s, [s EXCEPT !.voted = q.from], q.from)
<1>1. q.to = n /\ q.term = s.term /\ MayVote(s, q)
    BY DEF Votable
<1>2. \E g : /\ At(g, tm, lg, n, [s EXCEPT !.voted = q.from]) /\ Extends(h, g, n, s.term)
             /\ g.vote[s.term][n] = q.from
    BY <1>1, GrantOK
<1> QED BY <1>2 DEF Grants

Hearing(s, q) == IF q.term > s.term THEN Follower(s, q.term) ELSE s
Granted(s, q) == q.term >= s.term /\ MayVote(s, q)
Voting(s, q) == IF Granted(s, q) THEN [s EXCEPT !.voted = q.from] ELSE s
VotesTo(h, tm, lg, n, s0, q, s) ==
    /\ s.term \in Nat
    /\ \E g : /\ Moves(h, g, tm, lg, n, s0, Voting(s, q))
              /\ Granted(s, q) => g.vote[q.term][n] = q.from

\* HandleVote is a move of its node, and its answer true.
LEMMA VoteMoves ==
    ASSUME NEW h, NEW tm, NEW lg, NEW n \in Node, NEW s0, At(h, tm, lg, n, s0),
           NEW q, AskOK(h, tm, q), q.to = n
    PROVE  VotesTo(h, tm, lg, n, s0, q, Hearing(s0, q))
<1> DEFINE s == Hearing(s0, q)
           t == Voting(s, q)
<1>0. /\ s = IF q.term > s0.term THEN Follower(s0, q.term) ELSE s0
      /\ Granted(s, q) => q.term >= s.term /\ MayVote(s, q)
      /\ Granted(s, q) => t = [s EXCEPT !.voted = q.from]
      /\ ~Granted(s, q) => t = s
    BY DEF Hearing, Granted, Voting
<1> HIDE DEF s, t
<1>1. /\ h \in History /\ s0 \in Raft /\ s0.term \in Nat /\ s0.commit \in Nat /\ tm[n] = s0.term
      /\ tm \in [Node -> Nat] /\ lg \in [Node -> Seq(Entry)]
    BY RaftFields DEF At, Core, CoreTypes, NodeOK
<1>2. q.term \in Nat /\ q.from \in Node
    BY DEF AskOK
<1>3. /\ Moves(h, h, tm, lg, n, s0, s) /\ s.term \in Nat /\ s0.term <= s.term
      /\ q.term <= s.term /\ (s.role = "leader" => s = s0)
    <2>1. CASE q.term > s0.term
        <3>1. s = Follower(s0, q.term)
            BY <1>0, <2>1
        <3>2. Moves(h, h, tm, lg, n, s0, Follower(s0, q.term)) /\ Follower(s0, q.term).term = q.term
              /\ Follower(s0, q.term).role = "follower"
            <4>1. s0.term <= q.term
                BY <1>1, <1>2, <2>1
            <4>2. Moves(h, h, tm, lg, n, s0, Follower(s0, q.term))
                BY <1>2, <4>1, FollowMoves, Zenon
            <4> QED BY <1>1, <1>2, <4>2, FollowerFields
        <3> QED BY <1>1, <1>2, <2>1, <3>1, <3>2
    <2>2. CASE ~(q.term > s0.term)
        <3>1. s = s0
            BY <1>0, <2>2
        <3> QED BY <1>1, <1>2, <2>2, <3>1, MovesNowhere
    <2> QED BY <2>1, <2>2
<1>4. ASSUME ~Granted(s, q) PROVE \E g : Moves(h, g, tm, lg, n, s0, t) /\ (Granted(s, q) => g.vote[q.term][n] = q.from)
    <2>1. t = s
        BY <1>0, <1>4
    <2> QED BY <1>3, <1>4, <2>1
<1>5. ASSUME Granted(s, q) PROVE \E g : Moves(h, g, tm, lg, n, s0, t) /\ (Granted(s, q) => g.vote[q.term][n] = q.from)
    <2> DEFINE tn == [tm EXCEPT ![n] = s.term]
               ln == [lg EXCEPT ![n] = s.log]
    <2>1. t = [s EXCEPT !.voted = q.from] /\ q.term = s.term /\ MayVote(s, q)
        BY <1>0, <1>2, <1>3, <1>5
    <2>2. At(h, tn, ln, n, s)
        BY <1>3 DEF Moves
    <2>3. s \in Raft /\ t.term = s.term /\ t.log = s.log /\ t.role = s.role /\ t.commit = s.commit
          /\ t.waiters = s.waiters /\ s.commit \in Nat
        <3>1. s \in Raft /\ s.commit \in Nat
            BY <2>2, RaftFields DEF At, NodeOK
        <3> QED BY <2>1, <3>1 DEF Raft
    <2>4. AskOK(h, tn, q)
        <3>1. tn[q.from] \in Nat /\ tm[q.from] <= tn[q.from] /\ tm[q.from] \in Nat
            BY <1>1, <1>2, <1>3
        <3> QED BY <1>2, <3>1 DEF AskOK
    <2> HIDE DEF tn, ln
    <2>5. Grants(h, tn, ln, n, s, [s EXCEPT !.voted = q.from], q.from)
        <3>1. Votable(n, s, q)
            BY <2>1 DEF Votable
        <3> QED BY <2>2, <2>4, <3>1, GrantsVote
    <2>6. PICK g : /\ At(g, tn, ln, n, t) /\ Extends(h, g, n, s.term) /\ g.vote[s.term][n] = q.from
        BY <2>1, <2>5 DEF Grants
    <2>7. Extends(h, g, n, s0.term)
        <3>1. Extends(h, h, n, s0.term)
            BY <1>1, ExtendsSelf
        <3> QED BY <1>1, <1>3, <2>6, <3>1, ExtendsTwice
    <2>8. /\ t.role = "leader" => s0.role = "leader" /\ t.term = s0.term /\ s0.commit <= t.commit
          /\ \A w \in s0.waiters :
                w \notin t.waiters /\ t.role = "leader" /\ w.term = t.term => w.index <= t.commit
        <3>1. CASE s.role = "leader"
            BY <1>1, <1>3, <2>3, <3>1
        <3>2. CASE s.role # "leader"
            BY <2>3, <3>2
        <3> QED BY <3>1, <3>2
    <2>9. At(g, [tm EXCEPT ![n] = t.term], [lg EXCEPT ![n] = t.log], n, t) /\ s0.term <= t.term
        BY <1>3, <2>3, <2>6 DEF tn, ln
    <2>10. Moves(h, g, tm, lg, n, s0, t)
        BY <2>7, <2>8, <2>9 DEF Moves
    <2> QED BY <1>3, <2>1, <2>6, <2>10
<1>6. /\ s.term \in Nat
      /\ \E g : Moves(h, g, tm, lg, n, s0, t) /\ (Granted(s, q) => g.vote[q.term][n] = q.from)
    BY <1>3, <1>4, <1>5
<1> QED BY <1>6 DEF VotesTo, s, t

\* onVoteResp is a move of its node.
LEMMA VoteRespMoves ==
    ASSUME NEW h, NEW tm, NEW lg, NEW n \in Node, NEW s, At(h, tm, lg, n, s), NEW a, AnswerOK(h, a),
           a.to = n,
           NEW t, t = IF a.term > s.term THEN Follower(s, a.term)
                      ELSE IF s.role = "candidate" /\ a.asked = s.term /\ a.term = s.term /\ a.granted
                           THEN Elected(n, [s EXCEPT !.votes = @ \cup {a.from}])
                           ELSE s
    PROVE  \E g : Moves(h, g, tm, lg, n, s, t)
<1>1. /\ h \in History /\ s \in Raft /\ s.term \in Nat /\ s.commit \in Nat /\ NodeOK(h, n, s)
      /\ tm[n] = s.term /\ lg[n] = s.log /\ tm \in [Node -> Nat] /\ lg \in [Node -> Seq(Entry)]
    BY RaftFields DEF At, Core, CoreTypes, NodeOK
<1>2. a.term \in Nat /\ a.from \in Node
    BY DEF AnswerOK
<1>3. CASE a.term > s.term
    <2>1. t = Follower(s, a.term) /\ s.term <= a.term
        BY <1>1, <1>2, <1>3
    <2>2. Moves(h, h, tm, lg, n, s, Follower(s, a.term))
        BY <1>2, <2>1, FollowMoves, Zenon
    <2> QED BY <2>1, <2>2
<1>4. CASE /\ ~(a.term > s.term)
           /\ ~(s.role = "candidate" /\ a.asked = s.term /\ a.term = s.term /\ a.granted)
    BY <1>4, MovesNowhere
<1>5. CASE /\ ~(a.term > s.term) /\ s.role = "candidate" /\ a.asked = s.term /\ a.term = s.term
           /\ a.granted
    <2> DEFINE votes == s.votes \cup {a.from}
               c == [s EXCEPT !.votes = votes]
    <2>1. t = Elected(n, c)
        BY <1>5
    <2>2. votes \in SUBSET Node /\ \A m \in votes : h.vote[s.term][m] = n
        <3>1. s.votes \in SUBSET Node
            BY <1>1, RaftFields
        <3>2. \A m \in s.votes : h.vote[s.term][m] = n
            BY <1>1, <1>5 DEF NodeOK, Campaigns
        <3>3. h.vote[s.term][a.from] = n
            BY <1>5 DEF AnswerOK
        <3> QED BY <1>2, <3>1, <3>2, <3>3
    <2> HIDE DEF votes
    <2>3. /\ c \in Raft /\ c.term = s.term /\ c.log = s.log /\ c.role = s.role
          /\ c.commit = s.commit
          /\ c.waiters = s.waiters /\ c.applied = s.applied /\ c.voted = s.voted /\ c.votes = votes
        BY <1>1, <2>2 DEF Raft
    <2> HIDE DEF c
    <2>4. NodeOK(h, n, c)
        BY <1>1, <1>5, <2>2, <2>3 DEF NodeOK, Campaigns, Applies, Waits
    <2>5. At(h, tm, lg, n, c) /\ Moves(h, h, tm, lg, n, s, c)
        BY <2>3, <2>4, MovesAside
    <2>6. CASE ~Quorum(c.votes)
        BY <2>1, <2>5, <2>6 DEF Elected
    <2>7. CASE Quorum(c.votes)
        <3> DEFINE r == Leader(n, c)
        <3>0. Wins(h, tm, lg, n, c, Leader(n, c))
            BY <1>5, <2>3, <2>5, <2>7, LeaderOK
        <3>1. t = r /\ c.role = "candidate"
            BY <1>5, <2>1, <2>3, <2>7 DEF Elected
        <3>2. /\ h.log[c.term] = <<>> /\ r.role = "leader" /\ r.term = c.term
              /\ \A w \in c.waiters : w \notin r.waiters => w.index <= r.commit
              /\ \E g : At(g, tm, [lg EXCEPT ![n] = r.log], n, r) /\ Extends(h, g, n, c.term)
            BY <3>0 DEF Wins
        <3> HIDE DEF r
        <3>3. PICK g : At(g, tm, [lg EXCEPT ![n] = r.log], n, r) /\ Extends(h, g, n, c.term)
            BY <3>2
        <3>4. [tm EXCEPT ![n] = r.term] = tm
            BY <1>1, <2>3, <3>2
        <3>5. Moves(h, g, tm, lg, n, s, r)
            <4>1. /\ At(g, [tm EXCEPT ![n] = r.term], [lg EXCEPT ![n] = r.log], n, r)
                  /\ Extends(h, g, n, s.term) /\ s.term <= r.term /\ h.log[r.term] = <<>>
                <5>1. At(g, [tm EXCEPT ![n] = r.term], [lg EXCEPT ![n] = r.log], n, r)
                    BY <3>3, <3>4
                <5>2. c.term = s.term /\ r.term = s.term /\ s.term <= r.term
                    BY <1>1, <2>3, <3>2
                <5> QED BY <3>2, <3>3, <5>1, <5>2
            <4>2. \A w \in s.waiters : w \notin r.waiters => w.index <= r.commit
                BY <2>3, <3>2
            <4> QED BY <4>1, <4>2 DEF Moves
        <3> QED BY <3>1, <3>5
    <2> QED BY <2>6, <2>7
<1> QED BY <1>3, <1>4, <1>5

\* What is on disk, and what loads.

\* What loads is what is before the first record that does not follow.
LEMMA LoadedIs ==
    ASSUME NEW l \in Seq(Entry), NEW k \in Nat, k <= Len(l), \A i \in 1 .. k : l[i].index = i,
           k # Len(l) => l[k + 1].index # k + 1
    PROVE  Loaded(l) = SubSeq(l, 1, k)
<1> DEFINE Fit(j) == (\A i \in 1 .. j : l[i].index = i) /\ (j < Len(l) => l[j + 1].index # j + 1)
           k0 == CHOOSE j \in 0 .. Len(l) : Fit(j)
<1>1. Len(l) \in Nat
    BY LenProperties
<1>2. Fit(k) /\ k \in 0 .. Len(l)
    BY <1>1
<1>3. Loaded(l) = SubSeq(l, 1, k0)
    BY DEF Loaded
<1> HIDE DEF Fit
<1>4. k0 \in 0 .. Len(l) /\ Fit(k0)
    BY <1>2
<1> HIDE DEF k0
<1>5. CASE k0 < k
    <2>1. k0 < Len(l) /\ k0 + 1 \in 1 .. k
        BY <1>1, <1>4, <1>5
    <2> QED BY <1>4, <2>1 DEF Fit
<1>6. CASE k < k0
    <2>1. k # Len(l) /\ k + 1 \in 1 .. k0
        BY <1>1, <1>4, <1>6
    <2> QED BY <1>4, <2>1 DEF Fit
<1>7. CASE k0 = k
    BY <1>3, <1>7
<1> QED BY <1>1, <1>4, <1>5, <1>6, <1>7

\* A log whose records follow one another is the log in memory.
LEMMA WholeKeeps ==
    ASSUME NEW wal \in Seq(Entry), NEW log \in Seq(Entry), \A i \in 1 .. Len(log) : log[i].index = i,
           NEW k \in Nat, Keeps(wal, log, k)
    PROVE  /\ Whole(wal) <=> k = Len(wal)
           /\ Whole(wal) => wal = log
<1>1. Len(wal) \in Nat /\ Len(log) \in Nat /\ DOMAIN wal = 1 .. Len(wal)
    BY LenProperties
<1>2. ASSUME Whole(wal) PROVE k = Len(wal)
    <2> SUFFICES ASSUME k # Len(wal) PROVE FALSE
        OBVIOUS
    <2>1. k <= Len(wal) /\ wal[k + 1].index # k + 1
        BY DEF Keeps
    <2>2. k + 1 \in DOMAIN wal
        BY <1>1, <2>1
    <2> QED BY <1>2, <2>1, <2>2 DEF Whole
<1>3. ASSUME k = Len(wal) PROVE Whole(wal) /\ wal = log
    <2>1. Len(wal) = Len(log) /\ \A i \in 1 .. Len(wal) : wal[i] = log[i]
        BY <1>1, <1>3 DEF Keeps
    <2>2. wal = log
        BY <2>1, SeqEqual
    <2> QED BY <1>1, <2>2 DEF Whole
<1> QED BY <1>2, <1>3

\* It loads what it keeps.
LEMMA KeepsLoaded ==
    ASSUME NEW wal \in Seq(Entry), NEW log \in Seq(Entry), \A i \in 1 .. Len(log) : log[i].index = i,
           NEW k \in Nat, Keeps(wal, log, k)
    PROVE  Loaded(wal) = SubSeq(wal, 1, k)
<1>1. Len(log) \in Nat /\ k <= Len(wal) /\ k <= Len(log) /\ \A i \in 1 .. k : wal[i] = log[i]
    BY LenProperties DEF Keeps
<1>2. \A i \in 1 .. k : wal[i].index = i
    BY <1>1
<1> QED BY <1>1, <1>2, LoadedIs DEF Keeps

\* A log that a crash tears keeps what it kept.
LEMMA TornKeeps ==
    ASSUME NEW wal \in Seq(Entry), NEW log \in Seq(Entry), NEW k \in Nat, Keeps(wal, log, k)
    PROVE  Append(wal, Torn) \in Seq(Entry) /\ Keeps(Append(wal, Torn), log, k)
<1>1. Torn \in Entry /\ Torn.index = 0
    BY DEF Torn, Entry
<1> DEFINE w == Append(wal, Torn)
<1>2. /\ w \in Seq(Entry) /\ Len(w) = Len(wal) + 1 /\ Len(wal) \in Nat /\ w[Len(wal) + 1] = Torn
      /\ \A i \in 1 .. Len(wal) : w[i] = wal[i]
    BY <1>1, AppendFacts
<1> HIDE DEF w
<1>3. k <= Len(log) /\ k <= Len(wal) /\ \A i \in 1 .. k : w[i] = log[i]
    BY <1>2 DEF Keeps
<1>4. k # Len(w) /\ w[k + 1].index # k + 1
    <2>1. CASE k = Len(wal)
        BY <1>1, <1>2, <2>1
    <2>2. CASE k # Len(wal)
        <3>1. k + 1 \in 1 .. Len(wal) /\ wal[k + 1].index # k + 1
            BY <1>2, <1>3, <2>2 DEF Keeps
        <3> QED BY <1>2, <3>1
    <2> QED BY <1>2, <1>3, <2>1, <2>2
<1> QED BY <1>2, <1>3, <1>4 DEF Keeps, w

\* A log is its prefix and the rest.
LEMMA PrefixFacts ==
    ASSUME NEW l \in Seq(Entry), NEW k \in 0 .. Len(l)
    PROVE  SubSeq(l, 1, k) \o SubSeq(l, k + 1, Len(l)) = l
<1>1. Len(l) \in Nat
    BY LenProperties
<1>2. 1 \in 1 .. Len(l) + 1 /\ k \in 1 - 1 .. Len(l) /\ Len(l) \in k .. Len(l)
    BY <1>1
<1>3. SubSeq(l, 1, k) \o SubSeq(l, k + 1, Len(l)) = SubSeq(l, 1, Len(l))
    BY <1>2, ConcatAdjacentSubSeq
<1> QED BY <1>3, SubSeqFull

\* What a prefix is.
LEMMA PrefixIs ==
    ASSUME NEW l \in Seq(Entry), NEW k \in Nat, k <= Len(l)
    PROVE  /\ SubSeq(l, 1, k) \in Seq(Entry) /\ Len(SubSeq(l, 1, k)) = k
           /\ \A i \in 1 .. k : SubSeq(l, 1, k)[i] = l[i]
<1>1. Len(l) \in Nat
    BY LenProperties
<1>2. \A i \in 1 .. k : l[i] \in Entry
    BY <1>1, ElementOfSeq
<1> QED BY <1>2, SubSeqProperties

\* A prefix longer by one.
LEMMA PrefixGrows ==
    ASSUME NEW l \in Seq(Entry), NEW k \in Nat, k < Len(l)
    PROVE  SubSeq(l, 1, k + 1) = SubSeq(l, 1, k) \o <<l[k + 1]>>
<1>1. Len(l) \in Nat
    BY LenProperties
<1>2. 1 \in 1 .. Len(l) /\ k + 1 \in 1 .. Len(l) /\ (k + 1) - 1 = k
    BY <1>1
<1>3. SubSeq(l, 1, k + 1) = SubSeq(l, 1, (k + 1) - 1) \o <<l[k + 1]>>
    BY <1>2, SubSeqRecursiveSecond
<1> QED BY <1>2, <1>3

\* A log replaces another without being cut short: it is as long, or differs from it.
Supersedes(old, new) == Len(old) <= Len(new) \/ Differs(old, new, Len(new))

\* What Stored finds the two logs to have in common.
Common(old, new, k) ==
    /\ k \in Nat /\ k <= Len(old) /\ k <= Len(new) /\ \A i \in 1 .. k : old[i] = new[i]
    /\ k < Len(old) /\ k < Len(new) => old[k + 1] # new[k + 1]

\* The log on disk is what is kept of the old one, then the rest of the new one.
LEMMA StoredIs ==
    ASSUME NEW wal, NEW old \in Seq(Entry), NEW new \in Seq(Entry)
    PROVE  \E k \in Nat :
              /\ Common(old, new, k)
              /\ Stored(wal, old, new) =
                    (IF k = Len(old) THEN wal ELSE SubSeq(Loaded(wal), 1, Least(k, Len(Loaded(wal)))))
                        \o SubSeq(new, k + 1, Len(new))
<1> DEFINE L == Least(Len(old), Len(new))
           Kept(k) == /\ SubSeq(old, 1, k) = SubSeq(new, 1, k)
                      /\ k < L => old[k + 1] # new[k + 1]
           kept == CHOOSE k \in 0 .. L : Kept(k)
           T == {k \in 0 .. L : SubSeq(old, 1, k) = SubSeq(new, 1, k)}
<1>1. /\ Len(old) \in Nat /\ Len(new) \in Nat /\ L \in Nat /\ L <= Len(old) /\ L <= Len(new)
      /\ L = Len(old) \/ L = Len(new)
    BY LenProperties DEF Least
<1> HIDE DEF L
<1>2. PICK x \in T : \A y \in T : y <= x
    <2>1. SubSeq(old, 1, 0) = <<>> /\ SubSeq(new, 1, 0) = <<>>
        BY SubSeqEmpty
    <2>2. 0 \in T /\ T \subseteq 0 .. L
        BY <1>1, <2>1
    <2> HIDE DEF T
    <2> QED BY <1>1, <2>2, GreatestOf
<1>3. x \in 0 .. L /\ Kept(x)
    <2>1. x \in 0 .. L /\ SubSeq(old, 1, x) = SubSeq(new, 1, x)
        OBVIOUS
    <2>2. ASSUME x < L, old[x + 1] = new[x + 1] PROVE FALSE
        <3>1. x \in Nat /\ x < Len(old) /\ x < Len(new) /\ x + 1 \in 0 .. L /\ ~(x + 1 <= x)
            BY <1>1, <2>1, <2>2
        <3>2. SubSeq(old, 1, x + 1) = SubSeq(old, 1, x) \o <<old[x + 1]>>
            BY <3>1, PrefixGrows
        <3>3. SubSeq(new, 1, x + 1) = SubSeq(new, 1, x) \o <<new[x + 1]>>
            BY <3>1, PrefixGrows
        <3>4. x + 1 \in T
            BY <2>1, <2>2, <3>1, <3>2, <3>3
        <3> QED BY <1>2, <3>1, <3>4
    <2> QED BY <2>1, <2>2
<1>4. Stored(wal, old, new) =
          (IF kept = Len(old) THEN wal ELSE SubSeq(Loaded(wal), 1, Least(kept, Len(Loaded(wal)))))
              \o SubSeq(new, kept + 1, Len(new))
    BY DEF Stored, L
<1> HIDE DEF Kept, T
<1>5. kept \in 0 .. L /\ Kept(kept)
    BY <1>3
<1> HIDE DEF kept
<1>6. kept \in Nat /\ kept <= Len(old) /\ kept <= Len(new)
    BY <1>1, <1>5
<1>7. ASSUME NEW i \in 1 .. kept PROVE old[i] = new[i]
    <2>1. SubSeq(old, 1, kept)[i] = old[i] /\ SubSeq(new, 1, kept)[i] = new[i]
        BY <1>1, <1>6, PrefixIs
    <2> QED BY <1>5, <2>1 DEF Kept
<1>8. kept < Len(old) /\ kept < Len(new) => old[kept + 1] # new[kept + 1]
    BY <1>1, <1>5 DEF Kept
<1>9. Common(old, new, kept)
    BY <1>6, <1>7, <1>8 DEF Common
<1> QED BY <1>4, <1>6, <1>9

\* r is the first m records of wal, then those of new behind its first k.
Joins(r, wal, m, new, k) ==
    /\ r \in Seq(Entry) /\ Len(r) = m + (Len(new) - k)
    /\ \A i \in 1 .. m : r[i] = wal[i]
    /\ \A i \in 1 .. Len(new) - k : r[m + i] = new[k + i]

\* A log with records appended behind a part of it.
LEMMA JoinFacts ==
    ASSUME NEW wal \in Seq(Entry), NEW m \in Nat, m <= Len(wal), NEW new \in Seq(Entry), NEW k \in Nat,
           k <= Len(new)
    PROVE  Joins(SubSeq(wal, 1, m) \o SubSeq(new, k + 1, Len(new)), wal, m, new, k)
<1>1. Len(wal) \in Nat /\ Len(new) \in Nat
    BY LenProperties
<1>2. CASE k < Len(new)
    <2>1. Spliced(Splice(wal, m, new, k), wal, m, new, k)
        BY <1>2, SpliceFacts
    <2> QED BY <2>1 DEF Spliced, Splice, Joins
<1>3. CASE k = Len(new)
    <2>1. SubSeq(new, k + 1, Len(new)) = <<>>
        BY <1>1, <1>3, SubSeqEmpty
    <2>2. /\ SubSeq(wal, 1, m) \in Seq(Entry) /\ Len(SubSeq(wal, 1, m)) = m
          /\ \A i \in 1 .. m : SubSeq(wal, 1, m)[i] = wal[i]
        BY PrefixIs
    <2> DEFINE w == SubSeq(wal, 1, m)
    <2> HIDE DEF w
    <2>3. w \o <<>> = w
        BY <2>2, ConcatEmptySeq DEF w
    <2>4. Len(new) - k = 0
        BY <1>1, <1>3
    <2> QED BY <1>1, <1>3, <2>1, <2>2, <2>3, <2>4 DEF Joins, w
<1> QED BY <1>1, <1>2, <1>3

\* A log whose common part loads becomes the new one.
LEMMA JoinWhole ==
    ASSUME NEW wal \in Seq(Entry), NEW old \in Seq(Entry), NEW new \in Seq(Entry),
           NEW k \in Nat, Keeps(wal, old, k), NEW c \in Nat, Common(old, new, c), c <= k,
           NEW r, Joins(r, wal, c, new, c)
    PROVE  Keeps(r, new, Len(r)) /\ Len(r) \in Nat
<1>1. /\ Len(wal) \in Nat /\ Len(old) \in Nat /\ Len(new) \in Nat /\ Len(r) \in Nat
      /\ Len(r) = c + (Len(new) - c) /\ c <= Len(new) /\ c <= Len(old)
    BY LenProperties DEF Joins, Common
<1>2. Len(r) = Len(new)
    BY <1>1
<1>3. ASSUME NEW i \in 1 .. c PROVE r[i] = new[i]
    BY <1>1, <1>3 DEF Joins, Keeps, Common
<1>4. ASSUME NEW i \in 1 .. Len(new) PROVE r[i] = new[i]
    <2>1. CASE i <= c
        BY <1>3, <2>1
    <2>2. CASE i > c
        <3>1. i - c \in 1 .. Len(new) - c /\ c + (i - c) = i
            BY <1>1, <2>2
        <3>2. r[c + (i - c)] = new[c + (i - c)]
            BY <3>1 DEF Joins
        <3> QED BY <3>1, <3>2
    <2> QED BY <2>1, <2>2
<1>5. \A i \in 1 .. Len(r) : r[i] = new[i]
    BY <1>2, <1>4
<1>6. Len(r) <= Len(new) /\ Len(r) <= Len(r)
    BY <1>1, <1>2
<1> QED BY <1>1, <1>2, <1>5, <1>6 DEF Keeps

\* A log of which not even the common part loads has a gap before what is new.
LEMMA JoinTorn ==
    ASSUME NEW wal \in Seq(Entry), NEW old \in Seq(Entry), NEW new \in Seq(Entry),
           \A i \in 1 .. Len(new) : new[i].index = i,
           NEW k \in Nat, Keeps(wal, old, k), NEW c \in Nat, Common(old, new, c), k < c, c < Len(new),
           NEW r, Joins(r, wal, k, new, c)
    PROVE  Keeps(r, new, k)
<1>1. /\ Len(wal) \in Nat /\ Len(old) \in Nat /\ Len(new) \in Nat /\ Len(r) \in Nat
      /\ Len(r) = k + (Len(new) - c) /\ c <= Len(old)
    BY LenProperties DEF Joins, Common
<1>2. ASSUME NEW i \in 1 .. k PROVE r[i] = new[i]
    BY <1>1, <1>2 DEF Joins, Keeps, Common
<1>3. 1 \in 1 .. Len(new) - c /\ c + 1 \in 1 .. Len(new)
    BY <1>1
<1>4. r[k + 1] = new[c + 1] /\ new[c + 1].index = c + 1
    BY <1>3 DEF Joins
<1>5. k # Len(r) /\ k <= Len(r) /\ k <= Len(new)
    BY <1>1
<1>6. r[k + 1].index # k + 1
    BY <1>4
<1> QED BY <1>2, <1>5, <1>6 DEF Keeps

\* The log on disk keeps what it did of the log in memory, and all of it if it was whole.
LEMMA StoredKeeps ==
    ASSUME NEW wal \in Seq(Entry), NEW old \in Seq(Entry), NEW new \in Seq(Entry),
           \A i \in 1 .. Len(old) : old[i].index = i, \A i \in 1 .. Len(new) : new[i].index = i,
           NEW k \in Nat, Keeps(wal, old, k), Supersedes(old, new)
    PROVE  /\ Stored(wal, old, new) \in Seq(Entry)
           /\ \E j \in Nat : Keeps(Stored(wal, old, new), new, j)
           /\ Whole(wal) => Whole(Stored(wal, old, new))
<1> DEFINE r == Stored(wal, old, new)
<1>1. PICK c \in Nat :
          /\ Common(old, new, c)
          /\ r = (IF c = Len(old) THEN wal ELSE SubSeq(Loaded(wal), 1, Least(c, Len(Loaded(wal)))))
                     \o SubSeq(new, c + 1, Len(new))
    BY StoredIs
<1>2. /\ Len(wal) \in Nat /\ Len(old) \in Nat /\ Len(new) \in Nat /\ c <= Len(old) /\ c <= Len(new)
      /\ k <= Len(old) /\ k <= Len(wal)
    BY <1>1, LenProperties DEF Common, Keeps
<1> HIDE DEF r
<1>3. ASSUME NEW j \in Nat, Keeps(r, new, j), r \in Seq(Entry), k = Len(wal) => j = Len(r)
      PROVE  r \in Seq(Entry) /\ (\E i \in Nat : Keeps(r, new, i)) /\ (Whole(wal) => Whole(r))
    <2>1. Whole(wal) => k = Len(wal)
        BY WholeKeeps
    <2>2. j = Len(r) => Whole(r)
        BY <1>3, WholeKeeps
    <2> QED BY <1>3, <2>1, <2>2
<1>4. CASE c = Len(old) /\ k = Len(wal)
    <2>1. k = c
        BY <1>4 DEF Keeps
    <2>2. wal = SubSeq(wal, 1, k)
        BY <1>4, SubSeqFull
    <2>3. Joins(r, wal, c, new, c)
        BY <1>1, <1>2, <1>4, <2>1, <2>2, JoinFacts
    <2>4. c <= k
        BY <2>1
    <2>5. Keeps(r, new, Len(r)) /\ Len(r) \in Nat
        BY <1>1, <2>3, <2>4, JoinWhole
    <2> QED BY <1>3, <2>3, <2>5 DEF Joins, r
<1>5. CASE c = Len(old) /\ k # Len(wal)
    <2> DEFINE l == Len(wal)
    <2>1. wal = SubSeq(wal, 1, l)
        BY SubSeqFull
    <2>2. Joins(r, wal, l, new, c)
        <3>1. l \in Nat /\ l <= Len(wal)
            BY <1>2
        <3>3. r = wal \o SubSeq(new, c + 1, Len(new))
            BY <1>1, <1>5
        <3> HIDE DEF l
        <3>2. Joins(SubSeq(wal, 1, l) \o SubSeq(new, c + 1, Len(new)), wal, l, new, c)
            BY <1>2, <3>1, JoinFacts
        <3> QED BY <2>1, <3>2, <3>3
    <2>3. k + 1 \in 1 .. l /\ wal[k + 1].index # k + 1
        BY <1>2, <1>5 DEF Keeps
    <2>4. r[k + 1].index # k + 1 /\ Len(r) \in Nat /\ k # Len(r) /\ k <= Len(r) /\ k <= Len(new)
        BY <1>2, <1>5, <2>2, <2>3 DEF Joins
    <2>5. ASSUME NEW i \in 1 .. k PROVE r[i] = new[i]
        BY <1>1, <1>2, <1>5, <2>2 DEF Joins, Keeps, Common
    <2>6. Keeps(r, new, k)
        BY <2>4, <2>5 DEF Keeps
    <2> QED BY <1>3, <1>5, <2>2, <2>6 DEF Joins, r
<1>6. CASE c # Len(old)
    <2> DEFINE w == SubSeq(wal, 1, k)
               m == Least(c, k)
    <2>1. Loaded(wal) = w
        BY KeepsLoaded
    <2>2. w \in Seq(Entry) /\ Len(w) = k /\ \A i \in 1 .. k : w[i] = wal[i]
        BY <1>2, PrefixIs
    <2>3. m \in Nat /\ m <= k /\ m <= c /\ (m = c \/ m = k) /\ (m # c => k < c)
        BY DEF Least
    <2>4. c < Len(new)
        <3> SUFFICES ASSUME c = Len(new) PROVE FALSE
            BY <1>2
        <3>1. PICK i \in 1 .. Len(new) : i <= Len(old) /\ old[i] # new[i]
            BY <1>2, <1>6 DEF Supersedes, Differs
        <3> QED BY <1>1, <3>1 DEF Common
    <2>5. r = SubSeq(w, 1, m) \o SubSeq(new, c + 1, Len(new))
        BY <1>1, <1>6, <2>1, <2>2
    <2> HIDE DEF w, m
    <2>6. Joins(r, w, m, new, c)
        BY <1>2, <2>2, <2>3, <2>5, JoinFacts
    <2>7. Joins(r, wal, m, new, c)
        <3>1. \A i \in 1 .. m : w[i] = wal[i]
            BY <2>2, <2>3
        <3> QED BY <2>6, <3>1 DEF Joins
    <2>8. k = Len(wal) => k >= c
        <3>1. k = Len(wal) => k = Len(old)
            BY DEF Keeps
        <3> QED BY <1>2, <3>1
    <2>9. CASE m = c
        <3>1. Keeps(r, new, Len(r)) /\ Len(r) \in Nat
            BY <1>1, <2>3, <2>7, <2>9, JoinWhole
        <3> QED BY <1>3, <2>7, <3>1 DEF Joins, r
    <2>10. CASE m # c
        <3>1. m = k /\ k < c
            BY <2>3, <2>10
        <3>2. Keeps(r, new, k)
            BY <1>1, <2>4, <2>7, <3>1, JoinTorn
        <3> QED BY <1>3, <2>7, <2>8, <3>1, <3>2 DEF Joins, r
    <2> QED BY <2>9, <2>10
<1> QED BY <1>4, <1>5, <1>6

\* How the log of a node goes on.

\* A longer log replaces a shorter one.
LEMMA AppendSupersedes ==
    ASSUME NEW l \in Seq(Entry), NEW e \in Entry
    PROVE  Supersedes(l, l) /\ Supersedes(l, Append(l, e))
BY AppendFacts DEF Supersedes

\* A commit leaves the log.
LEMMA AdvanceLog ==
    ASSUME NEW n, NEW s \in Raft
    PROVE  AdvanceCommit(n, s).log = s.log
BY DEF AdvanceCommit, ApplyCommitted, Raft

\* A candidate that is elected appends at most.
LEMMA ElectedSupersedes ==
    ASSUME NEW n, NEW s \in Raft
    PROVE  Supersedes(s.log, Elected(n, s).log)
<1>1. s.log \in Seq(Entry) /\ s.term \in Nat /\ Len(s.log) \in Nat
    BY RaftFields
<1>2. NewEntry(s, Noop) \in Entry
    BY <1>1 DEF NewEntry, Entry
<1>3. CASE s.role = "candidate" /\ Quorum(s.votes)
    <2> DEFINE next == [p \in Node |-> Len(s.log) + 1]
               match == [p \in Node |-> 0]
               log == Append(s.log, NewEntry(s, Noop))
               b == [s EXCEPT !.role = "leader", !.votes = {}, !.next = next, !.match = match,
                              !.log = log]
    <2>1. Elected(n, s) = AdvanceCommit(n, b)
        BY <1>3 DEF Elected, Leader
    <2>2. log \in Seq(Entry) /\ Supersedes(s.log, log)
        BY <1>1, <1>2, AppendFacts, AppendSupersedes
    <2>3. next \in [Node -> Nat \ {0}] /\ match \in [Node -> Nat] /\ {} \in SUBSET Node
        BY <1>1
    <2> HIDE DEF next, match, log
    <2>4. b \in Raft /\ b.log = log
        BY <2>2, <2>3 DEF Raft
    <2> HIDE DEF b
    <2> QED BY <2>1, <2>2, <2>4, AdvanceLog
<1>4. CASE ~(s.role = "candidate" /\ Quorum(s.votes))
    BY <1>1, <1>2, <1>4, AppendSupersedes DEF Elected
<1> QED BY <1>3, <1>4

\* A request that fits cuts the log only to put other entries there.
LEMMA AppendedSupersedes ==
    ASSUME NEW h \in History, NEW K, Grown(h, K), NEW s \in Raft, Grown(h, s.log), NEW q,
           Fits(q, K, s.log), q.commit \in Nat
    PROVE  Supersedes(s.log, Appended(s, q).log)
<1> DEFINE k == Have(s.log, q)
           c == q.prev + k
           E == q.entries
           M == q.prev + Len(E)
           r == Replaced(s.log, q)
<1>1. /\ k \in Nat /\ k <= Len(E) /\ r \in Seq(Entry) /\ Shares(r, K, M) /\ Shares(s.log, K, c)
      /\ k = Len(E) => r = s.log
      /\ k # Len(E) => Len(r) = M /\ (c < Len(s.log) => s.log[c + 1] # K[c + 1])
    BY ReplacedFacts DEF Becoming
<1>2. /\ Len(s.log) \in Nat /\ Len(r) \in Nat /\ q.prev \in Nat /\ Len(E) \in Nat /\ M \in Nat /\ c \in Nat
      /\ c <= Len(s.log)
    BY <1>1, RaftFields, LenProperties DEF Fits, Shares
<1>3. Appended(s, q).log = r
    <2> DEFINE t == IF k = Len(E) THEN s
                    ELSE [s EXCEPT !.log = SubSeq(s.log, 1, c) \o SubSeq(E, k + 1, Len(E)),
                                   !.waiters = {w \in s.waiters : w.index <= c}]
               b == [t EXCEPT !.commit = Least(q.commit, M)]
    <2>1. Appended(s, q) = IF q.commit > t.commit THEN ApplyCommitted(b) ELSE t
        BY DEF Appended
    <2>2. t \in [term : Nat, voted : Node \cup {Nobody}, log : {r},
                 role : {"follower", "candidate", "leader"}, commit : Nat, applied : Seq(Entry),
                 votes : SUBSET Node, next : [Node -> Nat \ {0}], match : [Node -> Nat],
                 waiters : SUBSET Waiter]
        <3>1. CASE k = Len(E)
            BY <3>1 DEF Raft, Replaced
        <3>2. CASE k # Len(E)
            <4>1. r = SubSeq(s.log, 1, c) \o SubSeq(E, k + 1, Len(E))
                BY <3>2 DEF Replaced, Splice
            <4>2. {w \in s.waiters : w.index <= c} \in SUBSET Waiter
                BY RaftFields
            <4>3. t = [s EXCEPT !.log = r, !.waiters = {w \in s.waiters : w.index <= c}]
                BY <3>2, <4>1
            <4> HIDE DEF k, c, E, M, r, t
            <4> QED BY <4>2, <4>3 DEF Raft
        <3> QED BY <3>1, <3>2
    <2> HIDE DEF k, c, E, M, r, t
    <2>3. b.log = r /\ ApplyCommitted(b).log = r /\ t.log = r
        BY <2>2 DEF ApplyCommitted
    <2> QED BY <2>1, <2>3
<1> HIDE DEF k, c, E, M, r
<1>4. CASE k = Len(E)
    BY <1>1, <1>2, <1>3, <1>4 DEF Supersedes
<1>5. CASE k # Len(E)
    <2>1. c < M /\ Len(r) = M
        BY <1>1, <1>2, <1>5 DEF c, M
    <2>2. CASE c < Len(s.log)
        <3>1. s.log[c + 1] # K[c + 1] /\ c + 1 \in 1 .. M
            BY <1>1, <1>2, <1>5, <2>1, <2>2
        <3>2. r[c + 1] = K[c + 1]
            BY <1>1, <3>1 DEF Shares
        <3>3. Differs(s.log, r, Len(r))
            BY <1>2, <2>1, <2>2, <3>1, <3>2 DEF Differs
        <3> QED BY <1>3, <3>3 DEF Supersedes
    <2>3. CASE c = Len(s.log)
        BY <1>2, <1>3, <2>1, <2>3 DEF Supersedes
    <2> QED BY <1>2, <2>2, <2>3
<1> QED BY <1>4, <1>5

\* HandleAppend, in every case, cuts the log only to put other entries there.
LEMMA HandledSupersedes ==
    ASSUME NEW h, NEW tm, NEW lg, NEW n \in Node, NEW s, At(h, tm, lg, n, s), NEW q, SentOK(h, n, q)
    PROVE  Supersedes(s.log, Handled(s, q).state.log)
<1> DEFINE r == Handled(s, q)
           t == Following(s, q.term)
           K == h.log[q.term]
<1>1. /\ h \in History /\ s \in Raft /\ lg[n] = s.log /\ s.log \in Seq(Entry)
      /\ Grown(h, s.log) /\ s.term \in Nat
    BY RaftFields DEF At, Core, CoreTypes, NodeOK, NodesLogs
<1>2. q.term \in Nat /\ q.commit \in Nat /\ Grown(h, K)
    BY DEF SentOK, At, Core, LeadersLogs
<1>3. t \in Raft /\ t.log = s.log
    BY <1>1, <1>2, FollowerFields DEF Following
<1>4. Supersedes(s.log, s.log)
    BY <1>1, LenProperties DEF Supersedes
<1>5. CASE q.term < s.term
    <2>1. r = Refused(s, 0)
        BY <1>5, Zenon DEF Handled, Refused
    <2> QED BY <1>4, <2>1 DEF Refused
<1>6. CASE ~(q.term < s.term)
    <2>1. t = Following(s, q.term) /\ r = Handled(s, q)
        OBVIOUS
    <2> HIDE DEF t, r, K
    <2>2. \/ r = Refused(t, Len(t.log) + 1)
          \/ /\ HasEntry(t.log, q.prev) /\ TermAt(t.log, q.prev) # q.prevTerm
             /\ r = Refused(t, FirstIndexOfTerm(t.log, TermAt(t.log, q.prev)))
          \/ r = Refused(t, 0)
          \/ /\ HasEntry(t.log, q.prev) /\ TermAt(t.log, q.prev) = q.prevTerm
             /\ r = Accepted(Appended(t, q), q.prev + Len(q.entries))
        BY <1>6, <2>1, HandledCases
    <2>3. CASE r.state = t
        BY <1>3, <1>4, <2>1, <2>3
    <2>4. CASE /\ HasEntry(t.log, q.prev) /\ TermAt(t.log, q.prev) = q.prevTerm
               /\ r.state = Appended(t, q)
        <3>1. Fits(q, K, t.log)
            BY <1>3, <2>4 DEF SentOK, Fits, HasEntry, K
        <3>2. Supersedes(t.log, Appended(t, q).log)
            BY <1>1, <1>2, <1>3, <3>1, AppendedSupersedes
        <3> QED BY <1>3, <2>1, <2>4, <3>2
    <2> QED BY <2>2, <2>3, <2>4 DEF Refused, Accepted
<1> QED BY <1>5, <1>6

\* What a leader sends.

Slice(E, l, from) ==
    /\ E \in Seq(Entry) /\ Len(E) \in Nat /\ (from - 1) + Len(E) <= Len(l)
    /\ \A k \in 1 .. Len(E) : E[k] = l[(from - 1) + k]

\* What is sent is a piece of the log.
LEMMA SendFacts ==
    ASSUME NEW l \in Seq(Entry), NEW from \in Nat \ {0}, from <= Len(l) + 1, NEW N \in Nat,
           NEW hi, hi = Least(Len(l), from + N - 1)
    PROVE  Slice(SubSeq(l, from, hi), l, from)
<1> DEFINE E == SubSeq(l, from, hi)
<1>1. Len(l) \in Nat
    BY LenProperties
<1>2. hi \in Int /\ hi <= Len(l) /\ hi >= from - 1
    BY <1>1 DEF Least
<1>3. \A i \in from .. hi : l[i] \in Entry
    BY <1>1, <1>2, ElementOfSeq
<1>4. /\ E \in Seq(Entry) /\ Len(E) = IF from <= hi THEN hi - from + 1 ELSE 0
      /\ \A i \in 1 .. hi - from + 1 : E[i] = l[from + i - 1]
    BY <1>2, <1>3, SubSeqProperties
<1> HIDE DEF E
<1>5. /\ E \in Seq(Entry) /\ Len(E) \in Nat /\ (from - 1) + Len(E) <= Len(l)
      /\ \A k \in 1 .. Len(E) : E[k] = l[(from - 1) + k]
    BY <1>1, <1>2, <1>4
<1> QED BY <1>5 DEF Slice, E

\* One request of the leader s.
Request(s, p, fresh) ==
    LET from == IF HasEntry(s.log, s.next[p] - 1) THEN s.next[p] ELSE 1
    IN  [stage |-> "sent", term |-> s.term, prev |-> from - 1,
         prevTerm |-> TermAt(s.log, from - 1),
         entries |-> SubSeq(s.log, from, Least(Len(s.log), from + MaxEntries - 1)),
         commit |-> s.commit, fresh |-> fresh]

\* The request a leader sends is true.
LEMMA RequestOK ==
    ASSUME NEW h, NEW tm, NEW lg, NEW n \in Node, NEW s, At(h, tm, lg, n, s), s.role = "leader",
           NEW p \in Node, p # n, NEW fresh
    PROVE  /\ Request(s, p, fresh).stage = "sent" /\ IsRequest(Request(s, p, fresh))
           /\ SentOK(h, p, Request(s, p, fresh))
<1> DEFINE from == IF HasEntry(s.log, s.next[p] - 1) THEN s.next[p] ELSE 1
           E == SubSeq(s.log, from, Least(Len(s.log), from + MaxEntries - 1))
           q == Request(s, p, fresh)
<1>1. /\ s \in Raft /\ s.term \in Nat /\ s.log \in Seq(Entry) /\ Len(s.log) \in Nat
      /\ s.commit \in Nat
      /\ s.next \in [Node -> Nat \ {0}] /\ MaxEntries \in Nat
    BY KVAssumption, RaftFields DEF At, NodeOK
<1>2. Leads(h, n, s) /\ Applies(h, s)
    BY DEF At, NodeOK
<1>3. from \in Nat \ {0} /\ from <= Len(s.log) + 1 /\ from - 1 \in Nat
    BY <1>1 DEF HasEntry
<1>4. /\ q.stage = "sent" /\ q.term = s.term /\ q.prev = from - 1
      /\ q.prevTerm = TermAt(s.log, from - 1)
      /\ q.entries = E /\ q.commit = s.commit /\ IsRequest(q)
    BY DEF Request, IsRequest
<1> HIDE DEF q, from
<1>5. /\ E \in Seq(Entry) /\ Len(E) \in Nat /\ (from - 1) + Len(E) <= Len(s.log)
      /\ \A k \in 1 .. Len(E) : E[k] = s.log[(from - 1) + k]
    <2> DEFINE hi == Least(Len(s.log), from + MaxEntries - 1)
    <2>1. hi = Least(Len(s.log), from + MaxEntries - 1)
        OBVIOUS
    <2> HIDE DEF hi
    <2>2. Slice(SubSeq(s.log, from, hi), s.log, from)
        BY <1>1, <1>3, <2>1, SendFacts
    <2> QED BY <2>2 DEF Slice, hi
<1> HIDE DEF E
<1>6. s.log = h.log[s.term] /\ s.log # <<>> /\ h.leader[s.term] = n
    BY <1>2 DEF Leads
<1>7. Settled(h, s.term, s.log, s.commit)
    BY <1>2 DEF Applies
<1>8. SentOK(h, p, q)
    BY <1>1, <1>3, <1>4, <1>5, <1>6, <1>7 DEF SentOK
<1> QED BY <1>4, <1>8 DEF q

\* The calls of a node after it sent.
LEMMA SentCalls ==
    ASSUME NEW h, NEW tm, NEW lg, NEW n \in Node, NEW s, At(h, tm, lg, n, s),
           NEW P, n \notin P, NEW calls, \A p \in Node : CallOK(h, p, calls[p]), NEW fresh,
           NEW now, now = Sent(s, P, calls, fresh)
    PROVE  /\ now = [p \in Node |-> now[p]]
           /\ \A p \in Node : CallOK(h, p, now[p]) /\ (now[p].stage = "answered" => now[p] = calls[p])
<1>1. now = [p \in Node |->
          IF p \notin P \/ calls[p].stage # "idle" \/ s.role # "leader" THEN calls[p] ELSE Request(s, p, fresh)]
    BY Zenon DEF Sent, Request
<1>2. ASSUME NEW p \in Node
      PROVE  CallOK(h, p, now[p]) /\ (now[p].stage = "answered" => now[p] = calls[p])
    <2>1. CASE p \notin P \/ calls[p].stage # "idle" \/ s.role # "leader"
        BY <1>1, <2>1
    <2>2. CASE /\ p \in P /\ s.role = "leader"
               /\ ~(p \notin P \/ calls[p].stage # "idle" \/ s.role # "leader")
        <3>1. now[p] = Request(s, p, fresh) /\ p # n
            BY <1>1, <2>2
        <3>2. /\ Request(s, p, fresh).stage = "sent" /\ IsRequest(Request(s, p, fresh))
              /\ SentOK(h, p, Request(s, p, fresh))
            BY <2>2, <3>1, RequestOK, Zenon
        <3> HIDE DEF Request
        <3> QED BY <3>1, <3>2 DEF CallOK
    <2> QED BY <2>1, <2>2
<1> QED BY <1>1, <1>2

\* onAppendResp is a move of its node.
LEMMA AppendRespMoves ==
    ASSUME NEW h, NEW tm, NEW lg, NEW n \in Node, NEW s, At(h, tm, lg, n, s),
           NEW p \in Node, NEW a, AnsweredOK(h, p, a),
           NEW t, t = IF a.term > s.term THEN Follower(s, a.term)
                      ELSE IF ~Current(s, a) THEN s
                      ELSE IF ~a.ok THEN [s EXCEPT !.next[p] = NextAfter(s, p, a)]
                      ELSE Acked(n, s, p, a)
    PROVE  Moves(h, h, tm, lg, n, s, t)
<1>1. /\ h \in History /\ s \in Raft /\ s.term \in Nat /\ s.commit \in Nat /\ NodeOK(h, n, s)
      /\ s.next \in [Node -> Nat \ {0}] /\ s.match \in [Node -> Nat] /\ s.next[p] \in Nat \ {0}
      /\ s.match[p] \in Nat
    BY RaftFields DEF At, Core, CoreTypes, NodeOK
<1>2. a.term \in Nat /\ a.match \in Nat /\ a.conflict \in Nat /\ a.asked \in Nat
    BY DEF AnsweredOK
<1>3. CASE a.term > s.term
    <2>1. t = Follower(s, a.term) /\ s.term <= a.term
        BY <1>1, <1>2, <1>3
    <2>2. Moves(h, h, tm, lg, n, s, Follower(s, a.term))
        BY <1>2, <2>1, FollowMoves, Zenon
    <2> QED BY <2>1, <2>2
<1>4. CASE ~(a.term > s.term) /\ ~Current(s, a)
    BY <1>4, MovesNowhere
<1>5. ASSUME NEW match \in [Node -> Nat],
             \A m \in Node : match[m] <= s.match[m] \/ match[m] <= h.ack[s.term][m],
             NEW next \in [Node -> Nat \ {0}], NEW c, c = [s EXCEPT !.match = match, !.next = next]
      PROVE  At(h, tm, lg, n, c) /\ Moves(h, h, tm, lg, n, s, c)
    <2>1. /\ c \in Raft /\ c.term = s.term /\ c.log = s.log /\ c.role = s.role
          /\ c.commit = s.commit
          /\ c.waiters = s.waiters /\ c.applied = s.applied /\ c.voted = s.voted
          /\ c.votes = s.votes
          /\ c.match = match
        BY <1>1, <1>5 DEF Raft
    <2>2. Leads(h, n, s) => Leads(h, n, c)
        <3>1. \A m \in Node : h.ack[s.term][m] \in Nat /\ match[m] \in Nat /\ s.match[m] \in Nat
            BY <1>1, HistoryTypes
        <3>2. (\A m \in Node : s.match[m] <= h.ack[s.term][m]) => \A m \in Node : match[m] <= h.ack[s.term][m]
            BY <1>5, <3>1
        <3> QED BY <2>1, <3>2 DEF Leads
    <2>3. Campaigns(h, n, s) => Campaigns(h, n, c)
        BY <2>1 DEF Campaigns
    <2>4. (Applies(h, s) => Applies(h, c)) /\ (Waits(h, n, s) => Waits(h, n, c))
        BY <2>1 DEF Applies, Waits
    <2>5. NodeOK(h, n, c)
        BY <1>1, <2>1, <2>2, <2>3, <2>4 DEF NodeOK
    <2> QED BY <2>1, <2>5, MovesAside
<1>6. CASE ~(a.term > s.term) /\ Current(s, a) /\ ~a.ok
    <2> DEFINE next == [s.next EXCEPT ![p] = NextAfter(s, p, a)]
    <2>1. NextAfter(s, p, a) \in Nat \ {0}
        BY <1>1, <1>2 DEF NextAfter
    <2>2. next \in [Node -> Nat \ {0}]
        BY <1>1, <2>1
    <2>3. t = [s EXCEPT !.next = next]
        BY <1>6
    <2> HIDE DEF next
    <2>4. [s EXCEPT !.next = next] = [s EXCEPT !.match = s.match, !.next = next]
        BY <1>1 DEF Raft
    <2>5. \A m \in Node : s.match[m] <= s.match[m]
        BY <1>1
    <2>6. Moves(h, h, tm, lg, n, s, [s EXCEPT !.match = s.match, !.next = next])
        BY <1>1, <1>5, <2>2, <2>5
    <2> QED BY <2>3, <2>4, <2>6
<1>7. CASE ~(a.term > s.term) /\ Current(s, a) /\ a.ok
    <2> DEFINE high == IF a.match > s.match[p] THEN a.match ELSE s.match[p]
               low == IF high + 1 > s.next[p] THEN high + 1 ELSE s.next[p]
               match == [s.match EXCEPT ![p] = high]
               next == [s.next EXCEPT ![p] = low]
               c == [s EXCEPT !.match = match, !.next = next]
    <2>1. high \in Nat /\ low \in Nat \ {0} /\ (high <= s.match[p] \/ high <= h.ack[s.term][p])
        <3>1. a.match <= h.ack[s.term][p]
            BY <1>7 DEF AnsweredOK, Current
        <3>2. h.ack[s.term][p] \in Nat
            BY <1>1, HistoryTypes
        <3> QED BY <1>1, <1>2, <3>1, <3>2
    <2>2. t = AdvanceCommit(n, c)
        BY <1>7 DEF Acked
    <2> HIDE DEF high, low
    <2>3. match \in [Node -> Nat] /\ next \in [Node -> Nat \ {0}]
        BY <1>1, <2>1
    <2>4. \A m \in Node : match[m] <= s.match[m] \/ match[m] <= h.ack[s.term][m]
        BY <1>1, <2>1
    <2> HIDE DEF match, next
    <2>5. At(h, tm, lg, n, c) /\ Moves(h, h, tm, lg, n, s, c)
        BY <1>5, <2>3, <2>4
    <2>6. /\ c.role = s.role /\ c.waiters = s.waiters /\ c.commit = s.commit /\ c.term = s.term
          /\ c.log = s.log
        BY <1>1 DEF Raft
    <2> HIDE DEF c
    <2>7. At(h, tm, lg, n, t) /\ Advanced(c, t)
        BY <2>2, <2>5, AdvanceOK
    <2>8. /\ t.role = "leader" => s.role = "leader" /\ t.term = s.term /\ s.commit <= t.commit
          /\ \A w \in s.waiters : w \notin t.waiters => w.index <= t.commit
          /\ s.term <= t.term
        <3>1. t.role = c.role /\ t.term = c.term /\ t.commit >= c.commit
              /\ \A w \in c.waiters : w \notin t.waiters => w.index <= t.commit
            BY <2>7 DEF Advanced
        <3>2. t.commit \in Nat
            BY <2>7, RaftFields DEF At, NodeOK
        <3> QED BY <1>1, <2>6, <3>1, <3>2
    <2>9. At(h, [tm EXCEPT ![n] = t.term], [lg EXCEPT ![n] = t.log], n, t)
        <3>1. /\ tm[n] = t.term /\ lg[n] = t.log /\ tm \in [Node -> Nat]
              /\ lg \in [Node -> Seq(Entry)]
            BY <2>7 DEF At, Core, CoreTypes
        <3>2. [tm EXCEPT ![n] = t.term] = tm /\ [lg EXCEPT ![n] = t.log] = lg
            BY <3>1
        <3> QED BY <2>7, <3>2
    <2>10. Extends(h, h, n, s.term)
        BY <1>1, ExtendsSelf
    <2> QED BY <2>8, <2>9, <2>10 DEF Moves
<1> QED BY <1>3, <1>4, <1>6, <1>7

\* The entry that w waits for has been applied: its client may be told.
LEMMA WaitedFor ==
    ASSUME NEW g, NEW tm, NEW lg, NEW n \in Node, NEW t, At(g, tm, lg, n, t),
           NEW w, WaitsFor(g, n, {w}, t.log), w.term \in Nat, Settled(g, t.term, t.log, w.index),
           t.role = "leader" /\ t.term = w.term => w.index <= t.commit,
           NEW nd, nd[n] = t, \A m \in Node : NodeOK(g, m, nd[m])
    PROVE  ClientOK(g, w.cmd, nd)
<1> DEFINE k == w.index
           l == t.log
           v == w.term
<1>1. /\ g \in History /\ l \in Seq(Entry) /\ Len(l) \in Nat /\ Grown(g, l)
      /\ k \in 1 .. Len(l) /\ l[k].term = v /\ l[k].cmd = w.cmd /\ g.leader[v] = n
    <2>1. g \in History /\ t \in Raft /\ lg[n] = t.log /\ Grown(g, lg[n])
        BY DEF At, Core, CoreTypes, NodesLogs, NodeOK
    <2> QED BY <2>1, RaftFields DEF WaitsFor
<1>2. k \in Nat /\ k # 0
    BY <1>1
<1>3. Shares(l, g.log[v], k)
    BY <1>1 DEF Grown
<1>4. k \in 1 .. Len(g.log[v]) /\ g.log[v][k] = l[k]
    <2>1. Len(g.log[v]) \in Nat /\ k \in 1 .. k
        BY <1>1, <1>2, HistoryTypes
    <2> QED BY <1>2, <1>3, <2>1 DEF Shares
<1>5. PICK u \in Nat : \E i \in Nat : Chosen(g, u, i) /\ k <= i /\ Shares(l, g.log[u], k)
    BY <1>2 DEF Settled
<1>6. PICK i \in Nat : Chosen(g, u, i) /\ k <= i /\ Shares(l, g.log[u], k)
    BY <1>5
<1>7. Shares(g.log[u], g.log[v], k)
    BY <1>3, <1>6, SharesSame
<1>8. Answered(g, w.cmd, v, k)
    BY <1>1, <1>4, <1>6, <1>7 DEF Answered
<1>9. ASSUME NEW m \in Node, nd[m].role = "leader", nd[m].term = v PROVE k <= nd[m].commit
    <2>1. Leads(g, m, nd[m])
        BY <1>9 DEF NodeOK
    <2>2. m = n
        BY <1>1, <1>9, <2>1 DEF Leads
    <2> QED BY <1>9, <2>2
<1> HIDE DEF k, v
<1> QED BY <1>2, <1>8, <1>9 DEF ClientOK, v, k

\* One that was told stays true.
LEMMA ToldStays ==
    ASSUME NEW h, NEW g, NEW tm, NEW lg, NEW n \in Node, NEW s, NEW t, h \in History, s \in Raft,
           Moves(h, g, tm, lg, n, s, t),
           NEW nd, NEW nt, nd[n] = s, nt[n] = t, \A m \in Node : m # n => nt[m] = nd[m],
           NEW c, ClientOK(h, c, nd)
    PROVE  ClientOK(g, c, nt)
<1>1. PICK v \in Nat : \E k \in Nat : /\ Answered(h, c, v, k)
                                      /\ \A m \in Node : nd[m].role = "leader" /\ nd[m].term = v => k <= nd[m].commit
    BY DEF ClientOK
<1>2. PICK k \in Nat : /\ Answered(h, c, v, k)
                       /\ \A m \in Node : nd[m].role = "leader" /\ nd[m].term = v => k <= nd[m].commit
    BY <1>1
<1>3. Extends(h, g, n, s.term) /\ t \in Raft
    BY DEF Moves, At, NodeOK
<1>4. Answered(g, c, v, k)
    BY <1>2, <1>3, AnsweredStays
<1>5. h.log[v] # <<>>
    <2>1. k \in 1 .. Len(h.log[v])
        BY <1>2 DEF Answered
    <2>2. SUFFICES ASSUME h.log[v] = <<>> PROVE FALSE
        OBVIOUS
    <2>3. Len(h.log[v]) = 0
        BY <2>2
    <2> QED BY <2>1, <2>3
<1>6. ASSUME NEW m \in Node, nt[m].role = "leader", nt[m].term = v PROVE k <= nt[m].commit
    <2>1. CASE m # n
        BY <1>2, <1>6, <2>1
    <2>2. CASE m = n
        <3>1. t.role = "leader" /\ t.term = v
            BY <1>6, <2>2
        <3>2. s.role = "leader" /\ t.term = s.term /\ s.commit <= t.commit
            BY <1>5, <3>1 DEF Moves
        <3>3. k <= s.commit
            BY <1>2, <3>1, <3>2
        <3>4. s.commit \in Nat /\ t.commit \in Nat
            BY <1>3, RaftFields
        <3> QED BY <2>2, <3>2, <3>3, <3>4
    <2> QED BY <2>1, <2>2
<1> QED BY <1>4, <1>6 DEF ClientOK

\* A waiter whose entry is applied, before: what it waits for is in the log after, too.
LEMMA StillWaits ==
    ASSUME NEW h, NEW g, NEW tm, NEW lg, NEW n \in Node, NEW s, NEW t, At(h, tm, lg, n, s),
           Moves(h, g, tm, lg, n, s, t), NEW w \in s.waiters, w.index <= Len(t.applied), t.applied[w.index].term = w.term
    PROVE  WaitsFor(g, n, {w}, t.log) /\ w.term \in Nat /\ Settled(g, t.term, t.log, w.index)
<1> DEFINE k == w.index
           v == w.term
<1>1. /\ h \in History /\ g \in History /\ s \in Raft /\ t \in Raft /\ Grown(h, s.log)
      /\ Grown(g, t.log)
      /\ Applies(g, t) /\ Waits(h, n, s) /\ Extends(h, g, n, s.term)
    <2>1. /\ h \in History /\ s \in Raft /\ Waits(h, n, s) /\ Grown(h, lg[n]) /\ lg[n] = s.log
        BY DEF At, Core, CoreTypes, NodesLogs, NodeOK
    <2>2. /\ At(g, [tm EXCEPT ![n] = t.term], [lg EXCEPT ![n] = t.log], n, t)
          /\ Extends(h, g, n, s.term)
        BY DEF Moves
    <2> HIDE DEF Moves
    <2>3. /\ g \in History /\ t \in Raft /\ Applies(g, t) /\ Grown(g, [lg EXCEPT ![n] = t.log][n])
          /\ [lg EXCEPT ![n] = t.log][n] = t.log
        BY <2>2 DEF At, Core, CoreTypes, NodesLogs, NodeOK
    <2> QED BY <2>1, <2>2, <2>3
<1>2. /\ s.log \in Seq(Entry) /\ t.log \in Seq(Entry) /\ Len(s.log) \in Nat /\ Len(t.log) \in Nat
      /\ t.applied \in Seq(Entry) /\ Len(t.applied) \in Nat /\ t.term \in Nat /\ w \in Waiter
    BY <1>1, RaftFields
<1>3. /\ k \in Nat /\ v \in Nat /\ k \in 1 .. Len(s.log) /\ s.log[k].term = v
      /\ s.log[k].cmd = w.cmd /\ h.leader[v] = n
    BY <1>1, <1>2 DEF Waiter, Waits
<1>4. Shares(t.applied, t.log, Len(t.applied)) /\ Settled(g, t.term, t.applied, Len(t.applied))
    BY <1>1 DEF Applies
<1>5. k \in 1 .. Len(t.applied)
    BY <1>2, <1>3
<1>6. k \in 1 .. Len(t.log) /\ t.log[k] = t.applied[k]
    BY <1>2, <1>4, <1>5 DEF Shares
<1>7. t.log[k] = s.log[k]
    <2>1. Shares(t.log, g.log[v], k)
        BY <1>1, <1>6 DEF Grown
    <2>2. Shares(s.log, h.log[v], k)
        BY <1>1, <1>3 DEF Grown
    <2>3. Shares(g.log[v], h.log[v], Len(h.log[v]))
        BY <1>1, <1>3 DEF Extends, Longer
    <2>4. k \in 1 .. Len(h.log[v]) /\ k \in 1 .. k
        <3>1. Len(h.log[v]) \in Nat
            BY <1>1, <1>3, HistoryTypes
        <3> QED BY <1>3, <2>2, <3>1 DEF Shares
    <2> QED BY <2>1, <2>2, <2>3, <2>4 DEF Shares
<1>8. g.leader[v] = n
    BY <1>1, <1>3, KVAssumption DEF Extends
<1>9. Settled(g, t.term, t.log, k)
    <2>1. Settled(g, t.term, t.applied, k)
        <3>1. k <= Len(t.applied)
            BY <1>5
        <3> QED BY <1>1, <1>2, <1>3, <1>4, <3>1, SettledLess
    <2>2. Shares(t.log, t.applied, k)
        BY <1>2, <1>3, <1>4, <1>5, <1>6 DEF Shares
    <2> QED BY <1>2, <1>3, <2>1, <2>2, SettledShared
<1> HIDE DEF k, v
<1>10. ASSUME NEW x \in {w}
       PROVE  /\ x.index \in 1 .. Len(t.log) /\ t.log[x.index].term = x.term
              /\ t.log[x.index].cmd = x.cmd /\ g.leader[x.term] = n
    <2>1. x = w
        OBVIOUS
    <2> QED BY <1>3, <1>6, <1>7, <1>8, <2>1 DEF k, v
<1> QED BY <1>3, <1>9, <1>10 DEF WaitsFor, k, v

\* The clients told when n goes from s to t.
LEMMA ToldOK ==
    ASSUME NEW h, NEW g, NEW tm, NEW lg, NEW n \in Node, NEW s, NEW t, At(h, tm, lg, n, s),
           Moves(h, g, tm, lg, n, s, t),
           NEW nd, NEW nt, nd[n] = s, nt[n] = t, \A m \in Node : m # n => nt[m] = nd[m],
           \A m \in Node : NodeOK(g, m, nt[m]),
           ClientsOK(h, client, nd)
    PROVE  ClientsOK(g, Told(s, t), nt)
<1> SUFFICES ASSUME NEW c \in Cmd, Told(s, t)[c] = "ok" PROVE ClientOK(g, c, nt)
    BY DEF ClientsOK
<1>0. h \in History /\ s \in Raft
    BY DEF At, Core, CoreTypes, NodeOK
<1>1. CASE \E w \in s.waiters \ t.waiters :
              w.cmd = c /\ w.index <= Len(t.applied) /\ t.applied[w.index].term = w.term
    <2>1. PICK w \in s.waiters \ t.waiters :
              w.cmd = c /\ w.index <= Len(t.applied) /\ t.applied[w.index].term = w.term
        BY <1>1
    <2>2. WaitsFor(g, n, {w}, t.log) /\ w.term \in Nat /\ Settled(g, t.term, t.log, w.index)
        BY <2>1, StillWaits
    <2>3. t.role = "leader" /\ t.term = w.term => w.index <= t.commit
        BY <2>1 DEF Moves
    <2> DEFINE tn == [tm EXCEPT ![n] = t.term]
               ln == [lg EXCEPT ![n] = t.log]
    <2>4. At(g, tn, ln, n, t)
        BY DEF Moves
    <2> HIDE DEF tn, ln
    <2>5. ClientOK(g, w.cmd, nt)
        BY <2>2, <2>3, <2>4, WaitedFor
    <2> QED BY <2>1, <2>5
<1>2. CASE ~ \E w \in s.waiters \ t.waiters :
              w.cmd = c /\ w.index <= Len(t.applied) /\ t.applied[w.index].term = w.term
    <2>1. client[c] = "ok"
        BY <1>2 DEF Told
    <2>2. ClientOK(h, c, nd)
        BY <2>1 DEF ClientsOK
    <2> QED BY <1>0, <2>2, ToldStays
<1> QED BY <1>1, <1>2

\* The invariant, of given values of the variables.
RaftOK(h, nd, d, calls, l, b, told, r) ==
    /\ Core(h, Terms(nd), Logs(nd)) /\ NodesOK(h, nd) /\ DiskOK(nd, d)
    /\ BallotsOK(h, Terms(nd), b) /\ CallsOK(h, calls) /\ LateOK(h, l)
    /\ ClientsOK(h, told, nd) /\ ReadsOK(h, Terms(nd), calls, r)

\* Node n has gone to t, the history from h to g.
Moved(h, g, n, t, nd, nt) ==
    /\ At(h, Terms(nd), Logs(nd), n, nd[n])
    /\ nt[n] = t /\ \A m \in Node : m # n => nt[m] = nd[m]
    /\ Core(g, Terms(nt), Logs(nt)) /\ NodesOK(g, nt)
    /\ \A m \in Node : Terms(nd)[m] <= Terms(nt)[m]

\* The nodes after a move of one.
LEMMA NodesMove ==
    ASSUME NEW h, NEW g, NEW n \in Node, NEW t, NEW nd, NodesOK(h, nd),
           Core(h, Terms(nd), Logs(nd)),
           Moves(h, g, Terms(nd), Logs(nd), n, nd[n], t), NEW nt, nt = [nd EXCEPT ![n] = t]
    PROVE  Moved(h, g, n, t, nd, nt)
<1>1. nd \in [Node -> Raft] /\ \A m \in Node : NodeOK(h, m, nd[m])
    BY DEF NodesOK
<1>2. nt[n] = t /\ \A m \in Node : m # n => nt[m] = nd[m]
    BY <1>1
<1>3. At(h, Terms(nd), Logs(nd), n, nd[n])
    BY <1>1 DEF At, Terms, Logs
<1>4. Terms(nt) = [Terms(nd) EXCEPT ![n] = t.term] /\ Logs(nt) = [Logs(nd) EXCEPT ![n] = t.log]
    BY <1>1, <1>2 DEF Terms, Logs
<1>5. At(g, Terms(nt), Logs(nt), n, t) /\ Extends(h, g, n, nd[n].term) /\ nd[n].term <= t.term
    BY <1>4 DEF Moves
<1>6. Core(g, Terms(nt), Logs(nt)) /\ NodeOK(g, n, t) /\ t \in Raft
    BY <1>5 DEF At, NodeOK
<1>7. ASSUME NEW m \in Node PROVE NodeOK(g, m, nt[m])
    <2>1. CASE m = n
        BY <1>2, <1>6, <2>1
    <2>2. CASE m # n
        <3>1. NodeOK(g, m, nd[m])
            BY <1>1, <1>5, <2>2, NodeStays
        <3> QED BY <1>2, <2>2, <3>1
    <2> QED BY <2>1, <2>2
<1>8. nt \in [Node -> Raft]
    BY <1>1, <1>6
<1>9. \A m \in Node : Terms(nd)[m] <= Terms(nt)[m]
    <2>1. \A m \in Node : nd[m].term \in Nat
        BY <1>1 DEF Raft
    <2> QED BY <1>2, <1>5, <2>1 DEF Terms
<1> QED BY <1>2, <1>3, <1>6, <1>7, <1>8, <1>9 DEF NodesOK, Moved

\* The messages and the reads when the history goes from h to g.
LEMMA MessagesStay ==
    ASSUME NEW h, NEW g, NEW n \in Node, NEW nd, NEW nt, Core(h, Terms(nd), Logs(nd)),
           Core(g, Terms(nt), Logs(nt)), Extends(h, g, n, nd[n].term),
           \A m \in Node : Terms(nd)[m] <= Terms(nt)[m],
           NEW b, BallotsOK(h, Terms(nd), b), NEW calls, CallsOK(h, calls), NEW l, LateOK(h, l),
           NEW r, ReadsOK(h, Terms(nd), calls, r)
    PROVE  BallotsOK(g, Terms(nt), b) /\ CallsOK(g, calls) /\ LateOK(g, l) /\ ReadsOK(g, Terms(nt), calls, r)
<1>1. /\ h \in History /\ Terms(nd) \in [Node -> Nat] /\ Terms(nt) \in [Node -> Nat]
      /\ Terms(nd)[n] = nd[n].term
    BY DEF Core, CoreTypes, Terms
<1>2. BallotsOK(g, Terms(nt), b)
    <2> SUFFICES ASSUME NEW q \in b PROVE BallotOK(g, Terms(nt), q)
        BY DEF BallotsOK
    <2>1. BallotOK(h, Terms(nd), q) /\ Extends(h, g, n, Terms(nd)[n])
        BY <1>1 DEF BallotsOK
    <2> QED BY <1>1, <2>1, BallotStays
<1>3. CallsOK(g, calls)
    <2>1. ASSUME NEW m \in Node, NEW p \in Node PROVE CallOK(g, p, calls[m][p])
        <3>1. CallOK(h, p, calls[m][p])
            BY DEF CallsOK
        <3> QED BY <3>1, CallStays
    <2> QED BY <2>1 DEF CallsOK
<1>4. LateOK(g, l)
    <2> SUFFICES ASSUME NEW q \in l PROVE q.to \in Node /\ SentOK(g, q.to, q.call)
        BY DEF LateOK
    <2>1. q.to \in Node /\ SentOK(h, q.to, q.call)
        BY DEF LateOK
    <2> QED BY <2>1, SentStays
<1>5. ReadsOK(g, Terms(nt), calls, r)
    <2> SUFFICES ASSUME NEW m \in Node, r[m] # NoRead PROVE ReadOK(g, m, r[m], Terms(nt), calls[m])
        BY DEF ReadsOK
    <2>1. ReadOK(h, m, r[m], Terms(nd), calls[m])
        BY DEF ReadsOK
    <2> QED BY <1>1, <2>1, ReadStays
<1> QED BY <1>2, <1>3, <1>4, <1>5

\* The invariant in terms of the variables' values.
LEMMA RaftInvIs ==
    ASSUME NEW h
    PROVE  RaftInv(h) <=> RaftOK(h, node, disk, append, late, ballots, client, read)
BY DEF RaftInv, RaftOK

\* What the invariant says of one node.
LEMMA NodeFacts ==
    ASSUME NEW h, NEW nd, NodesOK(h, nd), Core(h, Terms(nd), Logs(nd)), NEW n \in Node
    PROVE  /\ At(h, Terms(nd), Logs(nd), n, nd[n]) /\ h \in History /\ nd[n] \in Raft /\ nd \in [Node -> Raft]
           /\ Terms(nd) \in [Node -> Nat] /\ Terms(nd)[n] = nd[n].term
           /\ \A i \in 1 .. Len(nd[n].log) : nd[n].log[i].index = i
<1>1. nd \in [Node -> Raft] /\ \A m \in Node : NodeOK(h, m, nd[m])
    BY DEF NodesOK
<1>2. Terms(nd)[n] = nd[n].term /\ Logs(nd)[n] = nd[n].log
    BY DEF Terms, Logs
<1>3. Grown(h, Logs(nd)[n]) /\ h \in History /\ Terms(nd) \in [Node -> Nat]
    BY DEF Core, CoreTypes, NodesLogs
<1>4. \A i \in 1 .. Len(nd[n].log) : nd[n].log[i].index = i
    BY <1>2, <1>3 DEF Grown
<1> QED BY <1>1, <1>2, <1>3, <1>4 DEF At

\* A proposal appends.
LEMMA ProposedSupersedes ==
    ASSUME NEW n, NEW s \in Raft, NEW c \in Cmd
    PROVE  Supersedes(s.log, AdvanceCommit(n, Proposed(s, c)).log)
<1> DEFINE w0 == [index |-> Len(s.log) + 1, term |-> s.term, cmd |-> c]
           log == Append(s.log, NewEntry(s, c))
           waiters == s.waiters \cup {w0}
           p == Proposed(s, c)
<1>1. s.log \in Seq(Entry) /\ s.term \in Nat /\ Len(s.log) \in Nat /\ s.waiters \in SUBSET Waiter
    BY RaftFields
<1>2. NewEntry(s, c) \in Entry /\ w0 \in Waiter
    BY <1>1 DEF NewEntry, Entry, Waiter
<1>3. log \in Seq(Entry) /\ Supersedes(s.log, log)
    BY <1>1, <1>2, AppendFacts, AppendSupersedes
<1>4. waiters \in SUBSET Waiter
    BY <1>1, <1>2
<1>5. p = [s EXCEPT !.log = log, !.waiters = waiters]
    BY DEF Proposed
<1> HIDE DEF log, waiters, p
<1>6. p \in Raft /\ p.log = log
    BY <1>3, <1>4, <1>5 DEF Raft
<1> QED BY <1>3, <1>6, AdvanceLog DEF p

\* onAppendResp leaves the log.
LEMMA AppendRespSupersedes ==
    ASSUME NEW h, NEW tm, NEW lg, NEW n \in Node, NEW s, At(h, tm, lg, n, s),
           NEW p \in Node, NEW a, AnsweredOK(h, p, a),
           NEW t, t = IF a.term > s.term THEN Follower(s, a.term)
                      ELSE IF ~Current(s, a) THEN s
                      ELSE IF ~a.ok THEN [s EXCEPT !.next[p] = NextAfter(s, p, a)]
                      ELSE Acked(n, s, p, a)
    PROVE  Supersedes(s.log, t.log)
<1>1. s \in Raft /\ s.log \in Seq(Entry) /\ Len(s.log) \in Nat /\ s.term \in Nat
    BY RaftFields DEF At, NodeOK
<1>2. Supersedes(s.log, s.log)
    BY <1>1 DEF Supersedes
<1>3. a.term \in Nat /\ a.match \in Nat
    BY DEF AnsweredOK
<1>4. CASE t = Follower(s, a.term) \/ t = s \/ t = [s EXCEPT !.next[p] = NextAfter(s, p, a)]
    <2>1. Follower(s, a.term).log = s.log
        BY <1>1, <1>3, FollowerFields
    <2>2. [s EXCEPT !.next[p] = NextAfter(s, p, a)].log = s.log
        BY <1>1 DEF Raft
    <2> QED BY <1>2, <1>4, <2>1, <2>2
<1>5. CASE t = Acked(n, s, p, a)
    <2>1. s.match[p] \in Nat /\ s.next[p] \in Nat \ {0}
        BY <1>1, RaftFields
    <2> DEFINE match == IF a.match > s.match[p] THEN a.match ELSE s.match[p]
               next == IF match + 1 > s.next[p] THEN match + 1 ELSE s.next[p]
               b == [s EXCEPT !.match[p] = match, !.next[p] = next]
    <2>2. match \in Nat /\ next \in Nat \ {0}
        BY <1>3, <2>1
    <2>3. t = AdvanceCommit(n, b)
        BY <1>5 DEF Acked
    <2> HIDE DEF match, next
    <2>4. b \in Raft /\ b.log = s.log
        BY <1>1, <2>2 DEF Raft
    <2> HIDE DEF b
    <2> QED BY <1>2, <2>3, <2>4, AdvanceLog
<1> QED BY <1>4, <1>5

Indexed(l) == \A i \in 1 .. Len(l) : l[i].index = i

\* The records of a log that a node moves to follow one another.
LEMMA MovesIndexed ==
    ASSUME NEW h, NEW g, NEW tm, NEW lg, NEW n \in Node, NEW s, NEW t, Moves(h, g, tm, lg, n, s, t)
    PROVE  Indexed(t.log)
<1> DEFINE ln == [lg EXCEPT ![n] = t.log]
           tn == [tm EXCEPT ![n] = t.term]
<1>1. At(g, tn, ln, n, t)
    BY DEF Moves
<1> HIDE DEF ln, tn
<1>2. Grown(g, ln[n]) /\ ln[n] = t.log
    BY <1>1 DEF At, Core, NodesLogs
<1> QED BY <1>2 DEF Grown, Indexed

\* What is persisted follows.
LEMMA DiskStep ==
    ASSUME NEW h, NEW nd, NodesOK(h, nd), Core(h, Terms(nd), Logs(nd)), NEW n \in Node,
           NEW t \in Raft, \A i \in 1 .. Len(t.log) : t.log[i].index = i, Supersedes(nd[n].log, t.log),
           NEW d, DiskOK(nd, d)
    PROVE  DiskOK([nd EXCEPT ![n] = t],
                  [d EXCEPT ![n] = [term |-> t.term, voted |-> t.voted,
                                    wal |-> Stored(d[n].wal, nd[n].log, t.log)]])
<1> DEFINE wal == Stored(d[n].wal, nd[n].log, t.log)
           nt == [nd EXCEPT ![n] = t]
           dt == [d EXCEPT ![n] = [term |-> t.term, voted |-> t.voted, wal |-> wal]]
<1>1. nd \in [Node -> Raft] /\ \A i \in 1 .. Len(nd[n].log) : nd[n].log[i].index = i
    BY NodeFacts
<1>2. nd[n].log \in Seq(Entry) /\ t.log \in Seq(Entry)
    BY <1>1, RaftFields
<1>3. d[n].wal \in Seq(Entry) /\ (TornTails \/ Whole(d[n].wal))
    BY DEF DiskOK
<1>4. PICK k \in Nat : Keeps(d[n].wal, nd[n].log, k)
    BY DEF DiskOK
<1>5. /\ wal \in Seq(Entry) /\ (\E j \in Nat : Keeps(wal, t.log, j)) /\ (TornTails \/ Whole(wal))
    BY <1>1, <1>2, <1>3, <1>4, StoredKeeps
<1> HIDE DEF wal
<1>6. /\ d = [m \in Node |-> [term |-> nd[m].term, voted |-> nd[m].voted, wal |-> d[m].wal]]
      /\ \A m \in Node : /\ d[m].wal \in Seq(Entry) /\ \E k1 \in Nat : Keeps(d[m].wal, nd[m].log, k1)
                         /\ TornTails \/ Whole(d[m].wal)
    BY DEF DiskOK
<1>7. /\ nt[n] = t /\ (\A m \in Node : m # n => nt[m] = nd[m])
      /\ dt = [m \in Node |-> IF m = n THEN [term |-> t.term, voted |-> t.voted, wal |-> wal] ELSE d[m]]
    BY <1>1, <1>6
<1> HIDE DEF dt, nt
<1>8. /\ dt[n] = [term |-> t.term, voted |-> t.voted, wal |-> wal]
      /\ \A m \in Node : m # n => dt[m] = d[m]
    BY <1>7
<1>9. dt = [m \in Node |-> [term |-> nt[m].term, voted |-> nt[m].voted, wal |-> dt[m].wal]]
    <2>1. ASSUME NEW m \in Node
          PROVE  dt[m] = [term |-> nt[m].term, voted |-> nt[m].voted, wal |-> dt[m].wal]
        <3>1. CASE m = n
            BY <1>7, <1>8, <3>1
        <3>2. CASE m # n
            BY <1>6, <1>7, <1>8, <3>2
        <3> QED BY <3>1, <3>2
    <2>2. dt = [m \in Node |-> dt[m]]
        BY <1>7
    <2> QED BY <2>1, <2>2
<1>10. ASSUME NEW m \in Node
       PROVE  /\ dt[m].wal \in Seq(Entry) /\ \E k1 \in Nat : Keeps(dt[m].wal, nt[m].log, k1)
              /\ TornTails \/ Whole(dt[m].wal)
    <2>1. CASE m = n
        BY <1>5, <1>7, <1>8, <2>1
    <2>2. CASE m # n
        BY <1>6, <1>7, <1>8, <2>2
    <2> QED BY <2>1, <2>2
<1>11. DiskOK(nt, dt)
    BY <1>9, <1>10 DEF DiskOK
<1> QED BY <1>11 DEF nt, dt, wal

\* The clients after a move.
LEMMA ToldMoved ==
    ASSUME NEW h, NEW g, NEW n \in Node, NEW t, NEW nd, NEW nt, Moved(h, g, n, t, nd, nt),
           Moves(h, g, Terms(nd), Logs(nd), n, nd[n], t), ClientsOK(h, client, nd)
    PROVE  ClientsOK(g, Told(nd[n], t), nt)
<1>1. /\ At(h, Terms(nd), Logs(nd), n, nd[n])
      /\ nt[n] = t /\ (\A m \in Node : m # n => nt[m] = nd[m])
      /\ \A m \in Node : NodeOK(g, m, nt[m])
    BY DEF Moved, NodesOK
<1> QED BY <1>1, ToldOK

\* A node goes to another record: everything but the messages.
LEMMA GoesOK ==
    ASSUME NEW h, NEW nd, NEW d, NEW calls, NEW l, NEW b, NEW r,
           RaftOK(h, nd, d, calls, l, b, client, r),
           NEW n \in Node, NEW g, NEW t, Moves(h, g, Terms(nd), Logs(nd), n, nd[n], t),
           Supersedes(nd[n].log, t.log), NEW nt, nt = [nd EXCEPT ![n] = t],
           NEW dt, dt = [d EXCEPT ![n] = [term |-> t.term, voted |-> t.voted,
                                          wal |-> Stored(d[n].wal, nd[n].log, t.log)]]
    PROVE  RaftOK(g, nt, dt, calls, l, b, Told(nd[n], t), r)
<1>1. /\ Core(h, Terms(nd), Logs(nd)) /\ NodesOK(h, nd) /\ DiskOK(nd, d)
      /\ BallotsOK(h, Terms(nd), b) /\ CallsOK(h, calls) /\ LateOK(h, l)
      /\ ClientsOK(h, client, nd) /\ ReadsOK(h, Terms(nd), calls, r)
    BY DEF RaftOK
<1>2. Moved(h, g, n, t, nd, nt)
    BY <1>1, NodesMove
<1>3. t \in Raft /\ Extends(h, g, n, nd[n].term)
    BY DEF Moves, At, NodeOK
<1>4. DiskOK(nt, dt)
    <2>1. Indexed(t.log)
        BY MovesIndexed
    <2>2. \A i \in 1 .. Len(t.log) : t.log[i].index = i
        BY <2>1 DEF Indexed
    <2> QED BY <1>1, <1>3, <2>2, DiskStep
<1>5. ClientsOK(g, Told(nd[n], t), nt)
    BY <1>1, <1>2, ToldMoved
<1>6. /\ BallotsOK(g, Terms(nt), b) /\ CallsOK(g, calls) /\ LateOK(g, l)
      /\ ReadsOK(g, Terms(nt), calls, r)
    <2>1. Core(g, Terms(nt), Logs(nt)) /\ \A m \in Node : Terms(nd)[m] <= Terms(nt)[m]
        BY <1>2 DEF Moved
    <2> QED BY <1>1, <1>3, <2>1, MessagesStay
<1> QED BY <1>2, <1>4, <1>5, <1>6 DEF RaftOK, Moved

\* Becomes preserves the invariant.
LEMMA BecomesOK ==
    ASSUME NEW h, NEW calls, NEW l, NEW b, NEW r, RaftOK(h, node, disk, calls, l, b, client, r),
           NEW n \in Node, NEW g, NEW t, Moves(h, g, Terms(node), Logs(node), n, node[n], t),
           Supersedes(node[n].log, t.log), Becomes(n, t)
    PROVE  RaftOK(g, node', disk', calls, l, b, client', r)
<1>1. /\ node' = [node EXCEPT ![n] = t]
      /\ disk' = [disk EXCEPT ![n] = [term |-> t.term, voted |-> t.voted,
                                      wal |-> Stored(disk[n].wal, node[n].log, t.log)]]
      /\ client' = Told(node[n], t)
    BY DEF Becomes
<1>2. RaftOK(g, node', disk', calls, l, b, Told(node[n], t), r)
    BY <1>1, GoesOK
<1> QED BY <1>1, <1>2

\* What a read hears: the answers now are those before, or of nodes that have not left
\* the term they were asked in.
Heard(tm, calls, now) ==
    \A m, p \in Node :
        now[m][p].stage = "answered" /\ now[m][p].ok /\ now[m][p].fresh =>
            calls[m][p] = now[m][p] \/ (now[m][p].asked \in Nat /\ tm[p] <= now[m][p].asked)

\* The reads when calls change.
LEMMA ReadsHear ==
    ASSUME NEW h, NEW tm, NEW lg, Core(h, tm, lg), NEW calls, NEW now, Heard(tm, calls, now),
           NEW r, ReadsOK(h, tm, calls, r)
    PROVE  ReadsOK(h, tm, now, r)
<1> SUFFICES ASSUME NEW m \in Node, r[m] # NoRead PROVE ReadOK(h, m, r[m], tm, now[m])
    BY DEF ReadsOK
<1>1. h \in History /\ tm \in [Node -> Nat] /\ ReadOK(h, m, r[m], tm, calls[m])
    BY DEF Core, CoreTypes, ReadsOK
<1>2. \A p \in Node : now[m][p].stage = "answered" /\ now[m][p].ok /\ now[m][p].fresh =>
          calls[m][p] = now[m][p] \/ (now[m][p].asked \in Nat /\ tm[p] <= now[m][p].asked)
    BY DEF Heard
<1>3. Extends(h, h, m, 0) /\ \A p \in Node : tm[p] <= tm[p]
    BY <1>1, ExtendsSelf
<1> QED BY <1>1, <1>2, <1>3, ReadStays

\* New calls of one node.
LEMMA CallsMove ==
    ASSUME NEW h, NEW nd, NEW d, NEW calls, NEW l, NEW b, NEW c, NEW r,
           RaftOK(h, nd, d, calls, l, b, c, r),
           NEW n \in Node, NEW row, row = [p \in Node |-> row[p]],
           \A p \in Node : CallOK(h, p, row[p]),
           \A p \in Node : row[p].stage = "answered" /\ row[p].ok /\ row[p].fresh =>
               calls[n][p] = row[p] \/ (row[p].asked \in Nat /\ Terms(nd)[p] <= row[p].asked)
    PROVE  RaftOK(h, nd, d, [calls EXCEPT ![n] = row], l, b, c, r)
<1> DEFINE now == [calls EXCEPT ![n] = row]
<1>1. /\ calls = [m \in Node |-> [p \in Node |-> calls[m][p]]]
      /\ \A m, p \in Node : CallOK(h, p, calls[m][p])
      /\ ReadsOK(h, Terms(nd), calls, r) /\ Core(h, Terms(nd), Logs(nd))
    BY DEF RaftOK, CallsOK
<1>2. now[n] = row /\ \A m \in Node : m # n => now[m] = calls[m]
    BY <1>1
<1>3. now = [m \in Node |-> [p \in Node |-> now[m][p]]]
    <2>1. now = [m \in Node |-> now[m]]
        BY <1>1
    <2>2. \A m \in Node : now[m] = [p \in Node |-> now[m][p]]
        BY <1>1, <1>2
    <2> HIDE DEF now
    <2> QED BY <2>1, <2>2
<1> HIDE DEF now
<1>4. \A m, p \in Node : CallOK(h, p, now[m][p])
    BY <1>1, <1>2
<1>5. Heard(Terms(nd), calls, now)
    BY <1>2 DEF Heard
<1>6. ReadsOK(h, Terms(nd), now, r)
    BY <1>1, <1>5, ReadsHear
<1>7. CallsOK(h, now)
    BY <1>3, <1>4 DEF CallsOK
<1> QED BY <1>6, <1>7 DEF RaftOK, now

\* Messages that n sends in state t, in calls that may differ from those it had.
LEMMA SendsRow ==
    ASSUME NEW h, NEW nd, NEW d, NEW calls, NEW l, NEW b, NEW c, NEW r,
           RaftOK(h, nd, d, calls, l, b, c, r),
           NEW n \in Node, NEW P, n \notin P, NEW fresh, NEW row,
           \A p \in Node : CallOK(h, p, row[p]),
           \A p \in Node : row[p].stage = "answered" /\ row[p].ok /\ row[p].fresh => calls[n][p] = row[p]
    PROVE  RaftOK(h, nd, d, [calls EXCEPT ![n] = Sent(nd[n], P, row, fresh)], l, b, c, r)
<1> DEFINE now == Sent(nd[n], P, row, fresh)
<1>1. At(h, Terms(nd), Logs(nd), n, nd[n])
    BY NodeFacts DEF RaftOK
<1>2. now = Sent(nd[n], P, row, fresh)
    OBVIOUS
<1> HIDE DEF now
<1>3. /\ now = [p \in Node |-> now[p]]
      /\ \A p \in Node : CallOK(h, p, now[p]) /\ (now[p].stage = "answered" => now[p] = row[p])
    BY <1>1, <1>2, SentCalls
<1>4. RaftOK(h, nd, d, [calls EXCEPT ![n] = now], l, b, c, r)
    BY <1>3, CallsMove
<1> QED BY <1>2, <1>4

\* Sending preserves the invariant.
LEMMA SendsOK ==
    ASSUME NEW h, NEW nd, NEW d, NEW l, NEW b, NEW c, NEW r, RaftOK(h, nd, d, append, l, b, c, r),
           NEW n \in Node, Sends(n, nd[n], Peers(n))
    PROVE  RaftOK(h, nd, d, append', l, b, c, r)
<1>1. PICK Q \in SUBSET {p \in Peers(n) : append[n][p] = Idle} :
          append' = [append EXCEPT ![n] = Sent(nd[n], Q, append[n], Reading(n))]
    BY DEF Sends
<1>2. n \notin Q
    BY DEF Peers
<1>3. \A p \in Node : CallOK(h, p, append[n][p])
    BY DEF RaftOK, CallsOK
<1>4. RaftOK(h, nd, d, [append EXCEPT ![n] = Sent(nd[n], Q, append[n], Reading(n))], l, b, c, r)
    BY <1>2, <1>3, SendsRow
<1> QED BY <1>1, <1>4

\* The invariant holds after the step.
Preserved == \E g : RaftOK(g, node', disk', append', late', ballots', client', read')

\* onTick of a leader preserves the invariant.
LEMMA HeartbeatStep ==
    ASSUME NEW h, RaftOK(h, node, disk, append, late, ballots, client, read), NEW n \in Node,
           Heartbeat(n)
    PROVE  Preserved
<1>1. /\ Sends(n, node[n], Peers(n)) /\ node' = node /\ disk' = disk /\ late' = late
      /\ ballots' = ballots
      /\ client' = client /\ read' = read
    BY DEF Heartbeat
<1>2. RaftOK(h, node, disk, append', late, ballots, client, read)
    BY <1>1, SendsOK
<1> QED BY <1>1, <1>2 DEF Preserved

\* Messages that are gone, or that are new.
LEMMA BallotsMove ==
    ASSUME NEW h, NEW nd, NEW d, NEW calls, NEW l, NEW b, NEW c, NEW r,
           RaftOK(h, nd, d, calls, l, b, c, r),
           NEW new, \A q \in new : q \in b \/ BallotOK(h, Terms(nd), q)
    PROVE  RaftOK(h, nd, d, calls, l, new, c, r)
BY DEF RaftOK, BallotsOK

\* An election timeout preserves the invariant.
LEMMA BecomeCandidateStep ==
    ASSUME NEW h, RaftOK(h, node, disk, append, late, ballots, client, read), NEW n \in Node,
           BecomeCandidate(n)
    PROVE  Preserved
<1> DEFINE s == node[n]
           c == [s EXCEPT !.term = s.term + 1, !.voted = n, !.role = "candidate", !.votes = {n}]
           Ask(p) == [kind |-> "ask", from |-> n, to |-> p, term |-> c.term,
                      index |-> Len(s.log), last |-> LastTerm(s.log)]
<1>1. PICK Q \in SUBSET Peers(n) :
          /\ Becomes(n, c) /\ ballots' = ballots \cup {Ask(p) : p \in Q}
          /\ append' = append /\ late' = late /\ read' = read
    BY DEF BecomeCandidate
<1>2. NodesOK(h, node) /\ Core(h, Terms(node), Logs(node))
    BY DEF RaftOK
<1>3. At(h, Terms(node), Logs(node), n, s) /\ s \in Raft /\ node \in [Node -> Raft]
    BY <1>2, NodeFacts
<1>4. /\ c.term = s.term + 1 /\ c.role = "candidate" /\ c.log = s.log /\ s.term \in Nat
      /\ c.term \in Nat
    <2>1. s.term \in Nat
        BY <1>3, RaftFields
    <2> QED BY <1>3, <2>1 DEF Raft
<1>5. c = [s EXCEPT !.term = s.term + 1, !.voted = n, !.role = "candidate", !.votes = {n}]
    OBVIOUS
<1>6. node' = [node EXCEPT ![n] = c]
    BY <1>1 DEF Becomes
<1> HIDE DEF c
<1>7. PICK g : /\ At(g, [Terms(node) EXCEPT ![n] = c.term], Logs(node), n, c) /\ Extends(h, g, n, s.term)
               /\ g.cand[c.term][n] = s.log
    <2>1. Stands(h, Terms(node), Logs(node), n, s, c)
        BY <1>3, <1>5, StandOK
    <2> QED BY <2>1 DEF Stands
<1> HIDE DEF s
<1>8. Moves(h, g, Terms(node), Logs(node), n, s, c)
    <2>1. [Logs(node) EXCEPT ![n] = c.log] = Logs(node)
        BY <1>3, <1>4 DEF Logs, s
    <2>2. s.term <= c.term /\ c.role # "leader"
        BY <1>4
    <2> QED BY <1>7, <2>1, <2>2, MovesFollower
<1>9. RaftOK(g, node', disk', append, late, ballots, client', read)
    <2>1. Supersedes(node[n].log, c.log)
        BY <1>3, <1>4, RaftFields DEF Supersedes, s
    <2> QED BY <1>1, <1>8, <2>1, BecomesOK DEF s
<1>10. ASSUME NEW q \in ballots' PROVE q \in ballots \/ BallotOK(g, Terms(node'), q)
    <2> SUFFICES ASSUME NEW p \in Q, q = Ask(p) PROVE BallotOK(g, Terms(node'), q)
        BY <1>1
    <2>1. p \in Node /\ p # n
        BY DEF Peers
    <2>2. /\ q.kind = "ask" /\ q.from = n /\ q.to = p /\ q.term = c.term
          /\ q.index = Len(s.log) /\ q.last = LastTerm(s.log)
        OBVIOUS
    <2> HIDE DEF Ask
    <2>3. Terms(node')[n] = c.term
        BY <1>3, <1>6 DEF Terms
    <2>4. AskOK(g, Terms(node'), q)
        BY <1>4, <1>7, <2>1, <2>2, <2>3 DEF AskOK
    <2> QED BY <2>2, <2>4 DEF BallotOK
<1>11. RaftOK(g, node', disk', append, late, ballots', client', read)
    BY <1>9, <1>10, BallotsMove
<1> QED BY <1>1, <1>11 DEF Preserved

\* HandleVote preserves the invariant.
LEMMA HandleVoteStep ==
    ASSUME NEW h, RaftOK(h, node, disk, append, late, ballots, client, read), NEW n \in Node,
           NEW q \in ballots, HandleVote(n, q)
    PROVE  Preserved
<1> DEFINE s == Hearing(node[n], q)
           t == Voting(s, q)
           answer == [kind |-> "answer", from |-> n, to |-> q.from, asked |-> q.term,
                      term |-> s.term, granted |-> Granted(s, q)]
<1>1. /\ q.kind = "ask" /\ q.to = n /\ Becomes(n, t)
      /\ ballots' = (ballots \ {q}) \cup {answer} \/ ballots' = ballots \ {q}
      /\ append' = append /\ late' = late /\ read' = read
    BY DEF HandleVote, Hearing, Voting, Granted
<1>2. NodesOK(h, node) /\ Core(h, Terms(node), Logs(node)) /\ BallotOK(h, Terms(node), q)
    BY DEF RaftOK, BallotsOK
<1>3. At(h, Terms(node), Logs(node), n, node[n])
    BY <1>2, NodeFacts
<1>4. AskOK(h, Terms(node), q)
    BY <1>1, <1>2 DEF BallotOK
<1>5. VotesTo(h, Terms(node), Logs(node), n, node[n], q, s)
    BY <1>1, <1>3, <1>4, VoteMoves
<1>6. /\ answer.kind = "answer" /\ answer.from = n /\ answer.to = q.from /\ answer.asked = q.term
      /\ answer.term = s.term /\ (answer.granted = Granted(s, q))
    BY Zenon
<1>AA. Supersedes(node[n].log, t.log)
    <2>1. node[n] \in Raft /\ q.term \in Nat
        BY <1>2, <1>4, NodeFacts DEF AskOK
    <2>2. s \in Raft /\ s.log = node[n].log
        BY <2>1, FollowerFields DEF Hearing
    <2>3. t.log = s.log
        <3> HIDE DEF s
        <3> QED BY <2>2 DEF Voting, Raft
    <2> QED BY <2>1, <2>2, <2>3, RaftFields DEF Supersedes
<1> HIDE DEF answer, s
<1>7. s.term \in Nat
    BY <1>5 DEF VotesTo
<1>8. PICK g : Moves(h, g, Terms(node), Logs(node), n, node[n], t) /\ (Granted(s, q) => g.vote[q.term][n] = q.from)
    BY <1>5 DEF VotesTo
<1> HIDE DEF t
<1>9. RaftOK(g, node', disk', append, late, ballots, client', read)
    BY <1>1, <1>8, <1>AA, BecomesOK
<1>10. BallotOK(g, Terms(node'), answer)
    <2>1. q.term \in Nat /\ q.from \in Node
        BY <1>4 DEF AskOK
    <2>2. answer.granted => g.vote[answer.asked][answer.from] = answer.to
        BY <1>6, <1>8, Zenon
    <2>3. AnswerOK(g, answer)
        BY <1>6, <1>7, <2>1, <2>2 DEF AnswerOK
    <2> QED BY <1>6, <2>3 DEF BallotOK
<1>11. \A a \in ballots' : a \in ballots \/ BallotOK(g, Terms(node'), a)
    BY <1>1, <1>10
<1>12. RaftOK(g, node', disk', append, late, ballots', client', read)
    BY <1>9, <1>11, BallotsMove
<1> QED BY <1>1, <1>12 DEF Preserved

\* onVoteResp preserves the invariant.
LEMMA OnVoteRespStep ==
    ASSUME NEW h, RaftOK(h, node, disk, append, late, ballots, client, read), NEW n \in Node,
           NEW a \in ballots, OnVoteResp(n, a)
    PROVE  Preserved
<1> DEFINE s == node[n]
           t == IF a.term > s.term THEN Follower(s, a.term)
                ELSE IF s.role = "candidate" /\ a.asked = s.term /\ a.term = s.term /\ a.granted
                     THEN Elected(n, [s EXCEPT !.votes = @ \cup {a.from}])
                     ELSE s
<1>1. /\ a.kind = "answer" /\ a.to = n /\ Becomes(n, t) /\ ballots' = ballots \ {a}
      /\ Sends(n, t, Peers(n)) \/ append' = append
      /\ late' = late /\ read' = read
    BY DEF OnVoteResp
<1>2. NodesOK(h, node) /\ Core(h, Terms(node), Logs(node)) /\ BallotOK(h, Terms(node), a)
    BY DEF RaftOK, BallotsOK
<1>3. At(h, Terms(node), Logs(node), n, node[n]) /\ node \in [Node -> Raft]
    BY <1>2, NodeFacts
<1>4. AnswerOK(h, a)
    BY <1>1, <1>2 DEF BallotOK
<1>5. \E g : Moves(h, g, Terms(node), Logs(node), n, node[n], t)
    BY <1>1, <1>3, <1>4, VoteRespMoves
<1>AA. Supersedes(node[n].log, t.log)
    <2>1. s \in Raft /\ a.term \in Nat /\ a.from \in Node
        BY <1>2, <1>4, NodeFacts DEF AnswerOK
    <2>2. Supersedes(s.log, s.log)
        BY <2>1, RaftFields DEF Supersedes
    <2>3. CASE t = Follower(s, a.term)
        BY <2>1, <2>2, <2>3, FollowerFields
    <2>4. CASE t = Elected(n, [s EXCEPT !.votes = @ \cup {a.from}])
        <3> DEFINE b == [s EXCEPT !.votes = s.votes \cup {a.from}]
        <3>1. b \in Raft /\ b.log = s.log
            <4>1. s.votes \cup {a.from} \in SUBSET Node
                BY <2>1, RaftFields
            <4> DEFINE votes == s.votes \cup {a.from}
            <4> HIDE DEF votes, s
            <4> QED BY <2>1, <4>1 DEF Raft, votes
        <3>2. t = Elected(n, b)
            BY <2>4
        <3> HIDE DEF b, t, s
        <3>3. Supersedes(s.log, t.log)
            BY <3>1, <3>2, ElectedSupersedes
        <3> QED BY <3>3 DEF s
    <2> QED BY <2>2, <2>3, <2>4
<1> HIDE DEF t
<1>6. PICK g : Moves(h, g, Terms(node), Logs(node), n, node[n], t)
    BY <1>5
<1>7. RaftOK(g, node', disk', append, late, ballots, client', read)
    BY <1>1, <1>6, <1>AA, BecomesOK
<1>8. RaftOK(g, node', disk', append, late, ballots', client', read)
    <2>1. \A q \in ballots' : q \in ballots
        BY <1>1
    <2> QED BY <1>7, <2>1, BallotsMove
<1>9. node'[n] = t
    BY <1>1, <1>3 DEF Becomes
<1>10. RaftOK(g, node', disk', append', late, ballots', client', read)
    <2>1. CASE append' = append
        BY <1>8, <2>1
    <2>2. CASE Sends(n, t, Peers(n))
        <3>1. Sends(n, node'[n], Peers(n))
            BY <1>9, <2>2
        <3> QED BY <1>8, <3>1, SendsOK
    <2> QED BY <1>1, <2>1, <2>2
<1> QED BY <1>1, <1>10 DEF Preserved

\* A call in flight is a true request.
LEMMA SentFacts ==
    ASSUME NEW h, NEW calls, CallsOK(h, calls), NEW m \in Node, NEW n \in Node
    PROVE  /\ CallOK(h, n, calls[m][n])
           /\ calls[m][n].stage = "sent" => SentOK(h, n, calls[m][n])
           /\ calls[m][n].stage = "answered" => AnsweredOK(h, n, calls[m][n])
           /\ calls[m][n].stage = "idle" => calls[m][n] = Idle
<1>1. CallOK(h, n, calls[m][n])
    BY DEF CallsOK
<1> QED BY <1>1 DEF CallOK, Idle

\* HandleAppend preserves the invariant.
LEMMA HandleAppendStep ==
    ASSUME NEW h, RaftOK(h, node, disk, append, late, ballots, client, read), NEW n \in Node,
           NEW p \in Peers(n), HandleAppend(n, p)
    PROVE  Preserved
<1> DEFINE q == append[p][n]
           r == Handled(node[n], q)
           answer == [stage |-> "answered", asked |-> q.term, term |-> r.term, ok |-> r.ok,
                      match |-> r.match, conflict |-> r.conflict, fresh |-> q.fresh]
<1>1. /\ q.stage = "sent" /\ Becomes(n, r.state) /\ late' = late /\ ballots' = ballots
      /\ read' = read
      /\ append' = [append EXCEPT ![p][n] = answer] \/ append' = [append EXCEPT ![p][n] = Idle]
    BY DEF HandleAppend
<1>2. NodesOK(h, node) /\ Core(h, Terms(node), Logs(node)) /\ CallsOK(h, append) /\ p \in Node
    BY DEF RaftOK, Peers
<1>3. At(h, Terms(node), Logs(node), n, node[n]) /\ node \in [Node -> Raft]
    BY <1>2, NodeFacts
<1>4. SentOK(h, n, q)
    BY <1>1, <1>2, SentFacts
<1>5. r = Handled(node[n], q)
    OBVIOUS
<1> HIDE DEF r
<1>6. PICK g : Moves(h, g, Terms(node), Logs(node), n, node[n], r.state) /\ Answers(g, n, node[n], q, r)
    BY <1>3, <1>4, <1>5, HandledOK
<1>7. RaftOK(g, node', disk', append, late, ballots, client', read)
    <2>1. Supersedes(node[n].log, r.state.log)
        BY <1>3, <1>4, <1>5, HandledSupersedes
    <2> QED BY <1>1, <1>6, <2>1, BecomesOK
<1>8. node' = [node EXCEPT ![n] = r.state] /\ Terms(node')[n] = r.state.term
    BY <1>1, <1>3 DEF Becomes, Terms
<1>9. /\ q.term \in Nat /\ r.term \in Nat /\ r.match \in Nat /\ r.conflict \in Nat
      /\ r.ok => r.match <= g.ack[q.term][n] /\ r.state.term = q.term
    BY <1>4, <1>6 DEF SentOK, Answers
<1>10. /\ answer.stage = "answered" /\ answer.asked = q.term /\ answer.term = r.term
       /\ (answer.ok = r.ok)
       /\ answer.match = r.match /\ answer.conflict = r.conflict /\ IsAnswer(answer)
    BY DEF IsAnswer
<1> HIDE DEF answer, q
<1>11. CallOK(g, n, answer)
    <2>1. answer.ok => answer.match <= g.ack[answer.asked][n]
        BY <1>9, <1>10
    <2>2. AnsweredOK(g, n, answer)
        BY <1>9, <1>10, <2>1 DEF AnsweredOK
    <2> QED BY <1>10, <2>2 DEF CallOK
<1>12. answer.ok => answer.asked \in Nat /\ Terms(node')[n] <= answer.asked
    BY <1>8, <1>9, <1>10
<1>13. CallsOK(g, append)
    BY <1>7 DEF RaftOK
<1>14. ASSUME NEW c, CallOK(g, n, c),
              c.stage = "answered" /\ c.ok => c.asked \in Nat /\ Terms(node')[n] <= c.asked
       PROVE  RaftOK(g, node', disk', [append EXCEPT ![p][n] = c], late, ballots, client', read)
    <2> DEFINE row == [append[p] EXCEPT ![n] = c]
    <2>1. append[p] = [m \in Node |-> append[p][m]] /\ append = [m \in Node |-> append[m]]
        BY <1>2 DEF CallsOK
    <2>2. /\ row = [m \in Node |-> row[m]] /\ row[n] = c
          /\ \A m \in Node : m # n => row[m] = append[p][m]
        BY <2>1
    <2>3. [append EXCEPT ![p][n] = c] = [append EXCEPT ![p] = row]
        BY <1>2, <2>1
    <2> HIDE DEF row
    <2>4. \A m \in Node : CallOK(g, m, row[m])
        <3>1. \A m \in Node : CallOK(g, m, append[p][m])
            BY <1>2, <1>13 DEF CallsOK
        <3> QED BY <1>14, <2>2, <3>1
    <2>5. \A m \in Node : row[m].stage = "answered" /\ row[m].ok /\ row[m].fresh =>
              append[p][m] = row[m] \/ (row[m].asked \in Nat /\ Terms(node')[m] <= row[m].asked)
        BY <1>14, <2>2
    <2>6. RaftOK(g, node', disk', [append EXCEPT ![p] = row], late, ballots, client', read)
        BY <1>2, <1>7, <2>2, <2>4, <2>5, CallsMove
    <2> QED BY <2>3, <2>6
<1>15. CallOK(g, n, Idle) /\ Idle.stage # "answered"
    BY DEF CallOK, Idle
<1>16. RaftOK(g, node', disk', append', late, ballots, client', read)
    <2>1. CASE append' = [append EXCEPT ![p][n] = answer]
        BY <1>11, <1>12, <1>14, <2>1
    <2>2. CASE append' = [append EXCEPT ![p][n] = Idle]
        BY <1>14, <1>15, <2>2
    <2> QED BY <1>1, <2>1, <2>2
<1> QED BY <1>1, <1>16 DEF Preserved

\* A request that arrives late preserves the invariant.
LEMMA HandleLateStep ==
    ASSUME NEW h, RaftOK(h, node, disk, append, late, ballots, client, read), NEW q \in late,
           HandleLate(q)
    PROVE  Preserved
<1> DEFINE n == q.to
           r == Handled(node[n], q.call)
<1>1. /\ Becomes(n, r.state) /\ late' = late \ {q} /\ append' = append /\ ballots' = ballots
      /\ read' = read
    BY DEF HandleLate
<1>2. NodesOK(h, node) /\ Core(h, Terms(node), Logs(node)) /\ n \in Node /\ SentOK(h, n, q.call)
    BY DEF RaftOK, LateOK
<1>3. At(h, Terms(node), Logs(node), n, node[n])
    BY <1>2, NodeFacts
<1>4. r = Handled(node[n], q.call)
    OBVIOUS
<1> HIDE DEF n, r
<1>5. PICK g : Moves(h, g, Terms(node), Logs(node), n, node[n], r.state) /\ Answers(g, n, node[n], q.call, r)
    BY <1>2, <1>3, <1>4, HandledOK
<1>6. RaftOK(g, node', disk', append, late, ballots, client', read)
    <2>1. Supersedes(node[n].log, r.state.log)
        BY <1>2, <1>3, <1>4, HandledSupersedes
    <2> QED BY <1>1, <1>2, <1>5, <2>1, BecomesOK
<1>7. RaftOK(g, node', disk', append, late', ballots, client', read)
    BY <1>1, <1>6 DEF RaftOK, LateOK
<1> QED BY <1>1, <1>7 DEF Preserved

\* The timeout of an AppendEntries preserves the invariant.
LEMMA AppendTimesOutStep ==
    ASSUME NEW h, RaftOK(h, node, disk, append, late, ballots, client, read), NEW n \in Node,
           NEW p \in Peers(n), AppendTimesOut(n, p)
    PROVE  Preserved
<1> DEFINE row == [append[n] EXCEPT ![p] = Idle]
           gone == [to |-> p, call |-> append[n][p]]
<1>1. /\ append[n][p].stage = "sent" /\ append' = [append EXCEPT ![n][p] = Idle]
      /\ late' = late \cup {gone}
      /\ node' = node /\ disk' = disk /\ ballots' = ballots /\ client' = client /\ read' = read
    BY DEF AppendTimesOut
<1>2. CallsOK(h, append) /\ LateOK(h, late) /\ p \in Node
    BY DEF RaftOK, Peers
<1>3. append[n] = [m \in Node |-> append[n][m]] /\ append = [m \in Node |-> append[m]]
    BY <1>2 DEF CallsOK
<1>4. /\ row = [m \in Node |-> row[m]] /\ row[p] = Idle
      /\ \A m \in Node : m # p => row[m] = append[n][m]
    BY <1>2, <1>3
<1>5. append' = [append EXCEPT ![n] = row]
    BY <1>1, <1>3
<1>6. gone.to = p /\ gone.call = append[n][p]
    OBVIOUS
<1> HIDE DEF row, gone
<1>7. \A m \in Node : CallOK(h, m, row[m])
    BY <1>2, <1>4 DEF CallsOK, CallOK
<1>8. \A m \in Node : row[m].stage = "answered" /\ row[m].ok /\ row[m].fresh => append[n][m] = row[m]
    BY <1>4 DEF Idle
<1>9. RaftOK(h, node, disk, [append EXCEPT ![n] = row], late, ballots, client, read)
    BY <1>4, <1>7, <1>8, CallsMove
<1>10. SentOK(h, p, append[n][p])
    BY <1>1, <1>2, SentFacts
<1>11. LateOK(h, late')
    BY <1>1, <1>2, <1>6, <1>10 DEF LateOK
<1>12. RaftOK(h, node, disk, append', late', ballots, client, read)
    BY <1>5, <1>9, <1>11 DEF RaftOK
<1> QED BY <1>1, <1>12 DEF Preserved

\* An acknowledgement is counted for the read in progress.
LEMMA AckCounts ==
    ASSUME NEW h, NEW tm, NEW calls, NEW r, ReadsOK(h, tm, calls, r), NEW n \in Node,
           NEW p \in Node,
           r[n].stage = "confirm", calls[n][p].stage = "answered", calls[n][p].ok, calls[n][p].fresh,
           calls[n][p].asked = tm[n]
    PROVE  ReadsOK(h, tm, calls, [r EXCEPT ![n].acks = @ \cup {p}])
<1> DEFINE x == r[n]
           acks == x.acks \cup {p}
           y == [x EXCEPT !.acks = acks]
           now == [r EXCEPT ![n] = y]
<1>1. r = [m \in Node |-> r[m]] /\ \A m \in Node : r[m] = NoRead \/ ReadOK(h, m, r[m], tm, calls[m])
    BY DEF ReadsOK
<1>2. ReadOK(h, n, x, tm, calls[n])
    BY <1>1 DEF NoRead
<1>3. IsRead(x) /\ x.acks \subseteq Node
    BY <1>2 DEF ReadOK
<1>4. acks \subseteq Node /\ x.acks \subseteq acks /\ \A m \in acks : m \notin x.acks => m = p
    BY <1>3
<1> HIDE DEF acks
<1>5. /\ IsRead(y) /\ y.stage = x.stage /\ y.term = x.term /\ y.index = x.index /\ y.floor = x.floor
      /\ y.acks = acks
    BY <1>3 DEF IsRead
<1>6. now = [r EXCEPT ![n].acks = @ \cup {p}]
    BY <1>1 DEF acks
<1> HIDE DEF y, x
<1>7. Deposed(x, tm, calls[n]) /\ tm[n] = x.term => Deposed(y, tm, calls[n])
    <2> SUFFICES ASSUME Deposed(x, tm, calls[n]), tm[n] = x.term PROVE Deposed(y, tm, calls[n])
        OBVIOUS
    <2>1. PICK Q \in SUBSET Node :
              /\ Quorum(Q)
              /\ \A m \in Q : /\ tm[m] > x.term /\ m \notin x.acks
                              /\ calls[n][m].stage = "answered" /\ calls[n][m].ok /\ calls[n][m].fresh
                                    => calls[n][m].asked # x.term
        BY DEF Deposed
    <2>2. p \notin Q
        BY <2>1
    <2> QED BY <1>4, <1>5, <2>1, <2>2 DEF Deposed
<1>8. Holds(h, x) => Holds(h, y)
    BY <1>5 DEF Holds
<1>9. ReadOK(h, n, y, tm, calls[n])
    <2>1. /\ x.stage \in {"confirm", "apply"} /\ x.term \in Nat /\ x.index \in Nat
          /\ x.term <= tm[n]
          /\ h.log[x.term] # <<>> /\ x.index <= Len(h.log[x.term])
          /\ Settled(h, x.term, h.log[x.term], x.index)
          /\ x.stage = "confirm"
        BY <1>2 DEF ReadOK, x
    <2>2. Holds(h, x) \/ tm[n] # x.term \/ Deposed(x, tm, calls[n])
        BY <1>2, <2>1 DEF ReadOK
    <2>3. Holds(h, y) \/ tm[n] # y.term \/ Deposed(y, tm, calls[n])
        BY <1>5, <1>7, <1>8, <2>2
    <2> QED BY <1>4, <1>5, <2>1, <2>3 DEF ReadOK
<1>10. now = [m \in Node |-> now[m]] /\ now[n] = y /\ \A m \in Node : m # n => now[m] = r[m]
    BY <1>1
<1> HIDE DEF now
<1>11. ReadsOK(h, tm, calls, now)
    BY <1>1, <1>9, <1>10 DEF ReadsOK
<1> QED BY <1>6, <1>11

\* onAppendResp preserves the invariant.
LEMMA OnAppendRespStep ==
    ASSUME NEW h, RaftOK(h, node, disk, append, late, ballots, client, read), NEW n \in Node,
           NEW p \in Peers(n), OnAppendResp(n, p)
    PROVE  Preserved
<1> DEFINE s == node[n]
           a == append[n][p]
           row == [append[n] EXCEPT ![p] = Idle]
           t == IF a.term > s.term THEN Follower(s, a.term)
                ELSE IF ~Current(s, a) THEN s
                ELSE IF ~a.ok THEN [s EXCEPT !.next[p] = NextAfter(s, p, a)]
                ELSE Acked(n, s, p, a)
<1>1. PICK P \in SUBSET {p} :
          /\ a.stage = "answered" /\ Becomes(n, t)
          /\ append' = [append EXCEPT ![n] = Sent(t, P, row, Reading(n))]
          /\ read' = IF Reading(n) /\ Current(s, a) /\ a.ok /\ a.fresh
                     THEN [read EXCEPT ![n].acks = @ \cup {p}] ELSE read
          /\ late' = late /\ ballots' = ballots
    <2>1. \E P \in SUBSET (IF Current(s, a) /\ (~a.ok \/ Len(t.log) >= t.next[p]) THEN {p} ELSE {}) :
              append' = [append EXCEPT ![n] = Sent(t, P, row, Reading(n))]
        BY DEF OnAppendResp
    <2>2. /\ a.stage = "answered" /\ Becomes(n, t) /\ late' = late /\ ballots' = ballots
          /\ read' = IF Reading(n) /\ Current(s, a) /\ a.ok /\ a.fresh
                     THEN [read EXCEPT ![n].acks = @ \cup {p}] ELSE read
        BY DEF OnAppendResp
    <2> HIDE DEF t, row, s, a
    <2> QED BY <2>1, <2>2
<1>2. /\ NodesOK(h, node) /\ Core(h, Terms(node), Logs(node)) /\ CallsOK(h, append) /\ p \in Node
      /\ p # n
      /\ ReadsOK(h, Terms(node), append, read)
    BY DEF RaftOK, Peers
<1>3. /\ At(h, Terms(node), Logs(node), n, node[n]) /\ node \in [Node -> Raft]
      /\ Terms(node)[n] = s.term
    BY <1>2, NodeFacts
<1>4. AnsweredOK(h, p, a)
    BY <1>1, <1>2, SentFacts
<1>5. t = IF a.term > s.term THEN Follower(s, a.term)
          ELSE IF ~Current(s, a) THEN s
          ELSE IF ~a.ok THEN [s EXCEPT !.next[p] = NextAfter(s, p, a)]
          ELSE Acked(n, s, p, a)
    OBVIOUS
<1> HIDE DEF t
<1>6. Moves(h, h, Terms(node), Logs(node), n, node[n], t)
    BY <1>2, <1>3, <1>4, <1>5, AppendRespMoves
<1>7. ReadsOK(h, Terms(node), append, read')
    <2>1. CASE Reading(n) /\ Current(s, a) /\ a.ok /\ a.fresh
        <3>1. /\ read' = [read EXCEPT ![n].acks = @ \cup {p}] /\ read[n].stage = "confirm"
              /\ a.asked = Terms(node)[n]
            BY <1>1, <1>3, <2>1 DEF Reading, Current
        <3>2. /\ append[n][p].stage = "answered" /\ append[n][p].ok /\ append[n][p].fresh
              /\ append[n][p].asked = Terms(node)[n]
            BY <1>1, <2>1, <3>1
        <3>3. ReadsOK(h, Terms(node), append, [read EXCEPT ![n].acks = @ \cup {p}])
            BY <1>2, <3>1, <3>2, AckCounts
        <3> QED BY <3>1, <3>3
    <2>2. CASE ~(Reading(n) /\ Current(s, a) /\ a.ok /\ a.fresh)
        BY <1>1, <1>2, <2>2
    <2> QED BY <2>1, <2>2
<1>8. RaftOK(h, node, disk, append, late, ballots, client, read')
    BY <1>7 DEF RaftOK
<1>9. RaftOK(h, node', disk', append, late, ballots, client', read')
    <2>1. Supersedes(node[n].log, t.log)
        BY <1>2, <1>3, <1>4, <1>5, AppendRespSupersedes
    <2> QED BY <1>1, <1>6, <1>8, <2>1, BecomesOK
<1>10. node'[n] = t
    BY <1>1, <1>3 DEF Becomes
<1>11. /\ \A m \in Node : CallOK(h, m, row[m])
       /\ \A m \in Node : row[m].stage = "answered" /\ row[m].ok /\ row[m].fresh => append[n][m] = row[m]
    <2>1. append[n] = [m \in Node |-> append[n][m]] /\ \A m \in Node : CallOK(h, m, append[n][m])
        BY <1>2 DEF CallsOK
    <2>2. row[p] = Idle /\ \A m \in Node : m # p => row[m] = append[n][m]
        BY <1>2, <2>1
    <2>3. CallOK(h, p, Idle) /\ Idle.stage # "answered"
        BY DEF CallOK, Idle
    <2> HIDE DEF row
    <2> QED BY <2>1, <2>2, <2>3
<1> HIDE DEF row
<1>12. n \notin P
    BY <1>1, <1>2
<1>13. RaftOK(h, node', disk', [append EXCEPT ![n] = Sent(node'[n], P, row, Reading(n))], late, ballots, client', read')
    BY <1>9, <1>11, <1>12, SendsRow
<1>14. RaftOK(h, node', disk', append', late, ballots, client', read')
    BY <1>1, <1>10, <1>13
<1> QED BY <1>1, <1>14 DEF Preserved

\* The leader s goes to t; p is between.
ProposedTo(h, tm, lg, n, s, p, t) ==
    /\ t.term = s.term /\ t.voted = s.voted
    /\ \E g : /\ Moves(h, g, tm, lg, n, s, t) /\ At(g, tm, [lg EXCEPT ![n] = t.log], n, t)
              /\ \A w \in p.waiters : w \notin t.waiters =>
                     w.index <= t.commit /\ WaitsFor(g, n, {w}, t.log) /\ w.term \in Nat

\* Propose is a move of its node, and the client is told the truth.
LEMMA ProposeMoves ==
    ASSUME NEW h, NEW tm, NEW lg, NEW n \in Node, NEW s, At(h, tm, lg, n, s), s.role = "leader",
           NEW c \in Cmd,
           NEW p, p = Proposed(s, c), NEW t, t = AdvanceCommit(n, p)
    PROVE  ProposedTo(h, tm, lg, n, s, p, t)
<1>1. /\ h \in History /\ s \in Raft /\ s.term \in Nat /\ s.commit \in Nat /\ tm[n] = s.term
      /\ tm \in [Node -> Nat]
    BY RaftFields DEF At, Core, CoreTypes, NodeOK
<1>2. Proposes(h, tm, lg, n, s, p, t)
    BY ProposeOK
<1>3. /\ t.role = "leader" /\ t.term = s.term /\ t.commit >= s.commit /\ t.voted = s.voted
      /\ \A w \in p.waiters : w \notin t.waiters => w.index <= t.commit
    BY <1>2 DEF Proposes
<1>4. PICK g : /\ At(g, tm, [lg EXCEPT ![n] = p.log], n, p) /\ At(g, tm, [lg EXCEPT ![n] = t.log], n, t)
               /\ Extends(h, g, n, s.term)
    BY <1>2 DEF Proposes
<1>5. s.waiters \subseteq p.waiters
    BY <1>1 DEF Proposed, Raft
<1>6. [tm EXCEPT ![n] = t.term] = tm
    BY <1>1, <1>3
<1>7. t.commit \in Nat
    BY <1>4, RaftFields DEF At, NodeOK
<1>8. Moves(h, g, tm, lg, n, s, t)
    <2>1. At(g, [tm EXCEPT ![n] = t.term], [lg EXCEPT ![n] = t.log], n, t)
        BY <1>4, <1>6
    <2>2. s.term <= t.term /\ s.commit <= t.commit
        BY <1>1, <1>3, <1>7
    <2> QED BY <1>3, <1>4, <1>5, <2>1, <2>2 DEF Moves
<1>9. p.log = t.log
    <2>1. Advanced(p, AdvanceCommit(n, p))
        BY <1>4, AdvanceOK
    <2> QED BY <2>1 DEF Advanced
<1>10. ASSUME NEW w \in p.waiters, w \notin t.waiters
       PROVE  w.index <= t.commit /\ WaitsFor(g, n, {w}, t.log) /\ w.term \in Nat
    <2>1. p \in Raft /\ Waits(g, n, p)
        BY <1>4 DEF At, NodeOK
    <2>2. WaitsFor(g, n, {w}, p.log)
        BY <2>1 DEF Waits, WaitsFor
    <2>3. w \in Waiter
        BY <2>1, RaftFields
    <2> QED BY <1>3, <1>9, <1>10, <2>2, <2>3 DEF Waiter
<1> QED BY <1>3, <1>4, <1>8, <1>10 DEF ProposedTo

\* A proposal preserves the invariant.
LEMMA ProposeStep ==
    ASSUME NEW h, RaftOK(h, node, disk, append, late, ballots, client, read), NEW n \in Node,
           NEW c \in Cmd, Propose(n, c)
    PROVE  Preserved
<1> DEFINE s == node[n]
           p == Proposed(s, c)
           t == AdvanceCommit(n, p)
           w0 == [index |-> Len(s.log) + 1, term |-> s.term, cmd |-> c]
<1>1. /\ s.role = "leader" /\ node' = [node EXCEPT ![n] = t]
      /\ disk' = [disk EXCEPT ![n].wal = Stored(disk[n].wal, s.log, t.log)]
      /\ client' = [Told(s, t) EXCEPT ![c] = IF \E w \in t.waiters : w.cmd = c THEN "waiting" ELSE "ok"]
      /\ Sends(n, t, Peers(n)) /\ late' = late /\ ballots' = ballots /\ read' = read
    BY DEF Propose, Proposed
<1>2. /\ NodesOK(h, node) /\ Core(h, Terms(node), Logs(node)) /\ DiskOK(node, disk)
    BY DEF RaftOK
<1>3. At(h, Terms(node), Logs(node), n, s) /\ node \in [Node -> Raft] /\ s \in Raft
    BY <1>2, NodeFacts
<1>4. w0 \in p.waiters /\ w0.cmd = c
    BY <1>3 DEF Proposed, Raft
<1>5. p = Proposed(s, c) /\ t = AdvanceCommit(n, p)
    OBVIOUS
<1> HIDE DEF p, t, w0, s
<1>AA. Supersedes(s.log, t.log)
    BY <1>3, <1>5, ProposedSupersedes
<1>6. /\ t.term = s.term /\ t.voted = s.voted
      /\ \E g : /\ Moves(h, g, Terms(node), Logs(node), n, s, t)
                /\ At(g, Terms(node), [Logs(node) EXCEPT ![n] = t.log], n, t)
                /\ \A w \in p.waiters : w \notin t.waiters =>
                       w.index <= t.commit /\ WaitsFor(g, n, {w}, t.log) /\ w.term \in Nat
    <2>1. ProposedTo(h, Terms(node), Logs(node), n, s, p, t)
        BY <1>1, <1>3, <1>5, ProposeMoves
    <2> QED BY <2>1 DEF ProposedTo
<1>7. PICK g : /\ Moves(h, g, Terms(node), Logs(node), n, s, t)
               /\ At(g, Terms(node), [Logs(node) EXCEPT ![n] = t.log], n, t)
               /\ \A w \in p.waiters : w \notin t.waiters =>
                      w.index <= t.commit /\ WaitsFor(g, n, {w}, t.log) /\ w.term \in Nat
    BY <1>6
<1>8. disk' = [disk EXCEPT ![n] = [term |-> t.term, voted |-> t.voted,
                                   wal |-> Stored(disk[n].wal, node[n].log, t.log)]]
    <2> DEFINE wal == Stored(disk[n].wal, s.log, t.log)
    <2>0. s.voted = node[n].voted /\ s.term = node[n].term
        BY DEF s
    <2>1. disk[n] = [term |-> t.term, voted |-> t.voted, wal |-> disk[n].wal]
        BY <1>2, <1>3, <1>6, <2>0 DEF DiskOK, s
    <2>2. disk' = [disk EXCEPT ![n].wal = wal]
        BY <1>1
    <2> HIDE DEF wal
    <2>3. disk' = [disk EXCEPT ![n] = [term |-> t.term, voted |-> t.voted, wal |-> wal]]
        <3>1. disk' = [disk EXCEPT ![n] = [disk[n] EXCEPT !.wal = wal]]
            BY <2>2
        <3>2. [disk[n] EXCEPT !.wal = wal] = [term |-> t.term, voted |-> t.voted, wal |-> wal]
            BY <2>1
        <3> QED BY <3>1, <3>2
    <2> QED BY <2>3 DEF wal, s
<1>9. RaftOK(g, node', disk', append, late, ballots, Told(s, t), read)
    <2>1. node' = [node EXCEPT ![n] = t] /\ Moves(h, g, Terms(node), Logs(node), n, node[n], t)
        BY <1>1, <1>7 DEF s
    <2>2. Supersedes(node[n].log, t.log)
        BY <1>AA DEF s
    <2>3. RaftOK(g, node', disk', append, late, ballots, Told(node[n], t), read)
        BY <1>8, <2>1, <2>2, GoesOK
    <2> QED BY <2>3 DEF s
<1>10. node'[n] = t
    BY <1>1, <1>3
<1>11. ClientsOK(g, client', node')
    <2> SUFFICES ASSUME NEW d \in Cmd, client'[d] = "ok" PROVE ClientOK(g, d, node')
        BY DEF ClientsOK
    <2>1. ClientsOK(g, Told(s, t), node') /\ NodesOK(g, node')
        BY <1>9 DEF RaftOK
    <2>2. CASE d # c
        <3>1. Told(s, t)[d] = "ok"
            BY <1>1, <2>2 DEF Told
        <3> QED BY <2>1, <3>1 DEF ClientsOK
    <2>3. CASE d = c
        <3>1. w0 \notin t.waiters
            BY <1>1, <1>4, <2>3 DEF Told
        <3>2. w0.index <= t.commit /\ WaitsFor(g, n, {w0}, t.log) /\ w0.term \in Nat
            BY <1>4, <1>7, <3>1
        <3>3. Settled(g, t.term, t.log, w0.index)
            <4>1. g \in History /\ t \in Raft /\ Settled(g, t.term, t.log, t.commit)
                BY <1>7 DEF At, Core, CoreTypes, NodeOK, Applies
            <4>2. t.term \in Nat /\ t.log \in Seq(Entry) /\ t.commit \in Nat
                BY <4>1, RaftFields
            <4>3. w0.index \in Nat
                <5>1. w0.index = Len(s.log) + 1 /\ Len(s.log) \in Nat
                    BY <1>3, RaftFields DEF w0
                <5> QED BY <5>1
            <4> QED BY <3>2, <4>1, <4>2, <4>3, SettledLess
        <3>4. \A m \in Node : NodeOK(g, m, node'[m])
            BY <2>1 DEF NodesOK
        <3> DEFINE ln == [Logs(node) EXCEPT ![n] = t.log]
        <3>5. At(g, Terms(node), ln, n, t)
            BY <1>7
        <3> HIDE DEF ln
        <3>6. ClientOK(g, w0.cmd, node')
            BY <1>10, <3>2, <3>3, <3>4, <3>5, WaitedFor
        <3> QED BY <1>4, <2>3, <3>6
    <2> QED BY <2>2, <2>3
<1>12. RaftOK(g, node', disk', append, late, ballots, client', read)
    BY <1>9, <1>11 DEF RaftOK
<1>13. Sends(n, node'[n], Peers(n))
    BY <1>1, <1>10
<1>14. RaftOK(g, node', disk', append', late, ballots, client', read)
    BY <1>12, <1>13, SendsOK
<1> QED BY <1>1, <1>14 DEF Preserved

\* When a leader that may read takes its commit index, what a client was told of is in its
\* log up to there, or a quorum has left its term.
LEMMA ReadBegins ==
    ASSUME NEW h, NEW tm, NEW lg, NEW n \in Node, NEW s, At(h, tm, lg, n, s), MayRead(s),
           NEW nd, nd[n] = s, NEW c, ClientOK(h, c, nd),
           NEW calls,
           \A m \in Node : ~(calls[m].stage = "answered" /\ calls[m].ok /\ calls[m].fresh),
           NEW r, r.term = s.term, r.index = s.commit, r.acks = {}
    PROVE  (\E k \in 1 .. r.index : h.log[r.term][k].cmd = c) \/ Deposed(r, tm, calls)
<1> DEFINE T == s.term
           K == h.log[T]
<1>1. /\ h \in History /\ s \in Raft /\ T \in Nat /\ s.commit \in Nat /\ Core(h, tm, lg)
      /\ tm \in [Node -> Nat]
    BY RaftFields DEF At, Core, CoreTypes, NodeOK
<1>2. /\ s.role = "leader" /\ TermAt(K, s.commit) = T /\ K # <<>> /\ s.commit <= Len(K)
    <2>1. Leads(h, n, s) /\ Applies(h, s) /\ s.role = "leader" /\ TermAt(s.log, s.commit) = s.term
        BY DEF At, NodeOK, MayRead
    <2> QED BY <2>1 DEF Leads, Applies
<1>3. /\ Grown(h, K) /\ LeadersLogs(h) /\ K \in Seq(Entry) /\ Len(K) \in Nat /\ K[Len(K)].term = T
    BY <1>1, <1>2, HistoryTypes DEF Core, LeadersLogs
<1>4. T >= 1
    <2>1. Len(K) \in 1 .. Len(K)
        BY <1>2, <1>3
    <2> QED BY <1>3, <2>1 DEF Grown
<1>5. s.commit \in 1 .. Len(K) /\ K[s.commit].term = T
    BY <1>1, <1>2, <1>3, <1>4 DEF TermAt
<1>6. PICK u \in Nat : \E i \in Nat : /\ Answered(h, c, u, i)
                                      /\ \A m \in Node : nd[m].role = "leader" /\ nd[m].term = u => i <= nd[m].commit
    BY DEF ClientOK
<1>7. PICK i \in Nat : /\ Answered(h, c, u, i)
                       /\ \A m \in Node : nd[m].role = "leader" /\ nd[m].term = u => i <= nd[m].commit
    BY <1>6
<1>8. PICK v \in Nat : \E j \in Nat : Chosen(h, v, j) /\ i <= j /\ Shares(h.log[v], h.log[u], i)
    BY <1>7 DEF Answered
<1>9. PICK j \in Nat : Chosen(h, v, j) /\ i <= j /\ Shares(h.log[v], h.log[u], i)
    BY <1>8
<1>10. i \in 1 .. Len(h.log[u]) /\ h.log[u][i].term = u /\ h.log[u][i].cmd = c /\ i >= 1
    BY <1>7 DEF Answered
<1>11. CASE v > T
    <2> DEFINE Q == {p \in Node : h.ack[v][p] >= j}
    <2>1. Quorum(Q) /\ Q \in SUBSET Node
        BY <1>9 DEF Chosen
    <2>2. ASSUME NEW m \in Q PROVE tm[m] > T
        <3>1. m \in Node /\ h.ack[v][m] \in Nat /\ h.ack[v][m] >= j
            BY <1>1, HistoryTypes
        <3>2. h.ack[v][m] > 0
            BY <1>9, <1>10, <3>1
        <3>3. v <= tm[m] /\ tm[m] \in Nat
            BY <1>1, <3>1, <3>2 DEF Core, AcksInv
        <3> QED BY <1>1, <1>11, <3>3
    <2> HIDE DEF Q
    <2>3. Deposed(r, tm, calls)
        BY <2>1, <2>2 DEF Deposed
    <2> QED BY <2>3
<1>12. CASE v <= T
    <2>1. Shares(K, h.log[v], j)
        <3>1. CASE v = T
            <4>1. j \in 1 .. Len(h.log[v])
                BY <1>9 DEF Chosen
            <4> QED BY <1>3, <3>1, <4>1 DEF Shares
        <3>2. CASE v # T
            BY <1>1, <1>2, <1>9, <1>12, <3>2, Safety
        <3> QED BY <3>1, <3>2
    <2>2. Shares(K, h.log[u], i)
        <3>1. Shares(K, h.log[v], i)
            <4>1. h.log[v] \in Seq(Entry)
                BY <1>1, HistoryTypes
            <4> QED BY <1>3, <1>9, <2>1, <4>1, SharesLess
        <3> QED BY <1>9, <3>1, SharesSame
    <2>3. i \in 1 .. Len(K) /\ K[i] = h.log[u][i]
        BY <1>3, <1>10, <2>2 DEF Shares
    <2>4. K[i].term = u /\ K[i].cmd = c
        BY <1>10, <2>3
    <2>5. i <= s.commit
        <3>1. u <= T
            <4>1. K[i].term <= T
                BY <1>1, <2>3 DEF Core, LeadersLogs
            <4> QED BY <2>4, <4>1
        <3>2. CASE u = T
            BY <1>2, <1>7, <3>2
        <3>3. CASE u < T
            <4> SUFFICES ASSUME i > s.commit PROVE FALSE
                BY <1>1
            <4>1. K[s.commit].term <= K[i].term
                BY <1>1, <1>3, <1>5, <2>3, Ordered
            <4> QED BY <1>1, <1>5, <2>4, <3>3, <4>1
        <3> QED BY <1>1, <3>1, <3>2, <3>3
    <2>6. i \in 1 .. r.index /\ h.log[r.term][i].cmd = c
        BY <1>1, <1>10, <2>4, <2>5
    <2> QED BY <2>6
<1> QED BY <1>1, <1>11, <1>12

\* A new read, or one that ends.
LEMMA ReadsMove ==
    ASSUME NEW h, NEW nd, NEW d, NEW calls, NEW l, NEW b, NEW c, NEW r,
           RaftOK(h, nd, d, calls, l, b, c, r),
           NEW n \in Node, NEW x, x = NoRead \/ ReadOK(h, n, x, Terms(nd), calls[n])
    PROVE  RaftOK(h, nd, d, calls, l, b, c, [r EXCEPT ![n] = x])
<1> DEFINE now == [r EXCEPT ![n] = x]
<1>1. /\ r = [m \in Node |-> r[m]]
      /\ \A m \in Node : r[m] = NoRead \/ ReadOK(h, m, r[m], Terms(nd), calls[m])
    BY DEF RaftOK, ReadsOK
<1>2. now = [m \in Node |-> now[m]] /\ now[n] = x /\ \A m \in Node : m # n => now[m] = r[m]
    BY <1>1
<1> HIDE DEF now
<1>3. ReadsOK(h, Terms(nd), calls, now)
    BY <1>1, <1>2 DEF ReadsOK
<1> QED BY <1>3 DEF RaftOK, now

\* A call that is no longer fresh.
LEMMA StaleRequest ==
    ASSUME NEW a0, NEW a1, NEW a2, NEW a3, NEW a4, NEW a5, NEW a6, NEW b,
           NEW c,
           c = [stage |-> a0, term |-> a1, prev |-> a2, prevTerm |-> a3, entries |-> a4, commit |-> a5, fresh |-> a6],
           NEW o, o = [c EXCEPT !.fresh = b],
           NEW q,
           q = [stage |-> a0, term |-> a1, prev |-> a2, prevTerm |-> a3, entries |-> a4, commit |-> a5, fresh |-> b]
    PROVE  o = q
<1>1. o = [x \in DOMAIN c |-> o[x]] /\ q = [x \in DOMAIN c |-> q[x]]
    OBVIOUS
<1>2. DOMAIN c = {"stage", "term", "prev", "prevTerm", "entries", "commit", "fresh"}
    OBVIOUS
<1>3. /\ o.stage = q.stage /\ o.term = q.term /\ o.prev = q.prev /\ o.prevTerm = q.prevTerm
      /\ o.entries = q.entries /\ o.commit = q.commit
      /\ o.fresh = q.fresh
    OBVIOUS
<1>4. \A x \in DOMAIN c : o[x] = q[x]
    BY <1>2, <1>3
<1> QED BY <1>1, <1>4, Zenon

\* An answer that is no longer fresh.
LEMMA StaleAnswer ==
    ASSUME NEW a0, NEW a1, NEW a2, NEW a3, NEW a4, NEW a5, NEW a6, NEW b,
           NEW c,
           c = [stage |-> a0, asked |-> a1, term |-> a2, ok |-> a3, match |-> a4, conflict |-> a5, fresh |-> a6],
           NEW o, o = [c EXCEPT !.fresh = b],
           NEW q,
           q = [stage |-> a0, asked |-> a1, term |-> a2, ok |-> a3, match |-> a4, conflict |-> a5, fresh |-> b]
    PROVE  o = q
<1>1. o = [x \in DOMAIN c |-> o[x]] /\ q = [x \in DOMAIN c |-> q[x]]
    OBVIOUS
<1>2. DOMAIN c = {"stage", "asked", "term", "ok", "match", "conflict", "fresh"}
    OBVIOUS
<1>3. /\ o.stage = q.stage /\ o.asked = q.asked /\ o.term = q.term /\ o.ok = q.ok
      /\ o.match = q.match /\ o.conflict = q.conflict
      /\ o.fresh = q.fresh
    OBVIOUS
<1>4. \A x \in DOMAIN c : o[x] = q[x]
    BY <1>2, <1>3
<1> QED BY <1>1, <1>4, Zenon

\* A call that is no longer fresh is true still.
LEMMA StaleCall ==
    ASSUME NEW h, NEW p, NEW c, CallOK(h, p, c), c # Idle, NEW o, o = [c EXCEPT !.fresh = FALSE]
    PROVE  CallOK(h, p, o) /\ ~(o.stage = "answered" /\ o.ok /\ o.fresh)
<1>1. CASE c.stage = "sent" /\ IsRequest(c) /\ SentOK(h, p, c)
    <2> DEFINE a1 == c.term a2 == c.prev a3 == c.prevTerm a4 == c.entries a5 == c.commit a6 == c.fresh
    <2>1. c = [stage |-> "sent", term |-> a1, prev |-> a2, prevTerm |-> a3,
               entries |-> a4, commit |-> a5, fresh |-> a6]
        BY <1>1 DEF IsRequest
    <2> HIDE DEF a1, a2, a3, a4, a5, a6
    <2>2. o = [stage |-> "sent", term |-> a1, prev |-> a2, prevTerm |-> a3,
               entries |-> a4, commit |-> a5, fresh |-> FALSE]
        BY <2>1, StaleRequest
    <2>3. /\ o.stage = "sent" /\ o.term = a1 /\ o.prev = a2 /\ o.prevTerm = a3 /\ o.entries = a4
          /\ o.commit = a5 /\ o.fresh = FALSE
        BY <2>2
    <2>4. IsRequest(o)
        BY <2>2, <2>3 DEF IsRequest
    <2>5. SentOK(h, p, o)
        BY <1>1, <2>3 DEF SentOK, a1, a2, a3, a4, a5
    <2> QED BY <2>3, <2>4, <2>5 DEF CallOK
<1>2. CASE c.stage = "answered" /\ IsAnswer(c) /\ AnsweredOK(h, p, c)
    <2> DEFINE a1 == c.asked a2 == c.term a3 == c.ok a4 == c.match a5 == c.conflict a6 == c.fresh
    <2>1. c = [stage |-> "answered", asked |-> a1, term |-> a2, ok |-> a3,
               match |-> a4, conflict |-> a5, fresh |-> a6]
        BY <1>2 DEF IsAnswer
    <2> HIDE DEF a1, a2, a3, a4, a5, a6
    <2>2. o = [stage |-> "answered", asked |-> a1, term |-> a2, ok |-> a3,
               match |-> a4, conflict |-> a5, fresh |-> FALSE]
        BY <2>1, StaleAnswer
    <2>3. /\ o.stage = "answered" /\ o.asked = a1 /\ o.term = a2 /\ o.ok = a3 /\ o.match = a4
          /\ o.conflict = a5 /\ o.fresh = FALSE
        BY <2>2
    <2>4. IsAnswer(o)
        BY <2>2, <2>3 DEF IsAnswer
    <2>5. AnsweredOK(h, p, o)
        BY <1>2, <2>3 DEF AnsweredOK, a1, a2, a3, a4, a5
    <2> QED BY <2>3, <2>4, <2>5 DEF CallOK
<1> QED BY <1>1, <1>2 DEF CallOK
SentFrom(h, calls, now) ==
    /\ now = [p \in Node |-> now[p]]
    /\ \A p \in Node : CallOK(h, p, now[p]) /\ (now[p].stage = "answered" => now[p] = calls[p])

\* The same, of the calls one by one.
LEMMA SentFromOK ==
    ASSUME NEW h, NEW tm, NEW lg, NEW n \in Node, NEW s, At(h, tm, lg, n, s),
           NEW P, n \notin P, NEW calls, \A p \in Node : CallOK(h, p, calls[p]), NEW fresh,
           NEW now, now = Sent(s, P, calls, fresh)
    PROVE  SentFrom(h, calls, now)
BY SentCalls DEF SentFrom

\* ReadIndex up to its heartbeats preserves the invariant.
LEMMA StartReadStep ==
    ASSUME NEW h, RaftOK(h, node, disk, append, late, ballots, client, read), NEW n \in Node,
           StartRead(n)
    PROVE  Preserved
<1> DEFINE s == node[n]
           old == [p \in Node |-> IF append[n][p].stage = "idle" THEN Idle
                                  ELSE [append[n][p] EXCEPT !.fresh = FALSE]]
           r == [stage |-> "confirm", term |-> s.term, index |-> s.commit, floor |-> Acknowledged, acks |-> {}]
<1>1. PICK P \in SUBSET {p \in Peers(n) : old[p] = Idle} : append' = [append EXCEPT ![n] = Sent(s, P, old, TRUE)]
    BY DEF StartRead
<1>2. /\ MayRead(s) /\ read' = [read EXCEPT ![n] = r]
      /\ node' = node /\ disk' = disk /\ late' = late /\ ballots' = ballots /\ client' = client
    BY DEF StartRead
<1>3. /\ NodesOK(h, node) /\ Core(h, Terms(node), Logs(node)) /\ CallsOK(h, append)
      /\ ClientsOK(h, client, node)
    BY DEF RaftOK
<1>4. At(h, Terms(node), Logs(node), n, s) /\ s \in Raft /\ Terms(node)[n] = s.term
    BY <1>3, NodeFacts
<1>5. n \notin P
    BY DEF Peers
<1>6. ASSUME NEW p \in Node
      PROVE  CallOK(h, p, old[p]) /\ ~(old[p].stage = "answered" /\ old[p].ok /\ old[p].fresh)
    <2> DEFINE c == append[n][p]
               o == [c EXCEPT !.fresh = FALSE]
    <2>1. CallOK(h, p, c)
        BY <1>3 DEF CallsOK
    <2>2. old[p] = IF c.stage = "idle" THEN Idle ELSE o
        OBVIOUS
    <2> HIDE DEF old, c
    <2>3. CASE c = Idle
        BY <2>2, <2>3 DEF CallOK, Idle
    <2>4. CASE c # Idle
        <3>1. c.stage # "idle"
            BY <2>1, <2>4 DEF CallOK
        <3>2. old[p] = o
            BY <2>2, <3>1
        <3>3. o = [c EXCEPT !.fresh = FALSE]
            OBVIOUS
        <3> HIDE DEF o
        <3>4. CallOK(h, p, o) /\ ~(o.stage = "answered" /\ o.ok /\ o.fresh)
            BY <2>1, <2>4, <3>3, StaleCall
        <3> QED BY <3>2, <3>4
    <2> QED BY <2>3, <2>4
<1> HIDE DEF old
<1> DEFINE now == Sent(s, P, old, TRUE)
<1>7. /\ RaftOK(h, node, disk, [append EXCEPT ![n] = now], late, ballots, client, read)
    BY <1>5, <1>6, SendsRow
<1>8. \A m \in Node : ~(now[m].stage = "answered" /\ now[m].ok /\ now[m].fresh)
    <2>1. now = Sent(s, P, old, TRUE)
        OBVIOUS
    <2> HIDE DEF now
    <2>2. \A p \in Node : CallOK(h, p, old[p])
        BY <1>6
    <2>3. SentFrom(h, old, now)
        BY <1>4, <1>5, <2>1, <2>2, SentFromOK
    <2>4. \A p \in Node : now[p].stage = "answered" => now[p] = old[p]
        BY <2>3 DEF SentFrom
    <2> QED BY <1>6, <2>4
<1>9. append' = [append EXCEPT ![n] = now] /\ append'[n] = now
    BY <1>1, <1>3 DEF CallsOK
<1> HIDE DEF now
<1>10. /\ r.stage = "confirm" /\ r.term = s.term /\ r.index = s.commit /\ r.floor = Acknowledged
       /\ r.acks = {}
       /\ IsRead(r)
    BY DEF IsRead, Acknowledged
<1> HIDE DEF r
<1>11. Holds(h, r) \/ Deposed(r, Terms(node), now)
    <2> SUFFICES ASSUME NEW c \in r.floor, ~Deposed(r, Terms(node), now)
                 PROVE  \E k \in 1 .. r.index : h.log[r.term][k].cmd = c
        BY DEF Holds
    <2>1. ClientOK(h, c, node)
        BY <1>3, <1>10 DEF Acknowledged, ClientsOK
    <2> QED BY <1>2, <1>4, <1>8, <1>10, <2>1, ReadBegins
<1>12. ReadOK(h, n, r, Terms(node), now)
    <2>1. /\ s.term \in Nat /\ s.commit \in Nat
        BY <1>4, RaftFields
    <2>2. Leads(h, n, s) /\ Applies(h, s)
        BY <1>2, <1>4 DEF At, NodeOK, MayRead
    <2>3. /\ s.log = h.log[s.term] /\ s.log # <<>> /\ s.commit <= Len(s.log)
          /\ Settled(h, s.term, s.log, s.commit)
        BY <2>2 DEF Leads, Applies
    <2>4. Terms(node)[n] >= s.term
        BY <1>4, <2>1
    <2> QED BY <1>10, <1>11, <2>1, <2>3, <2>4 DEF ReadOK
<1>13. RaftOK(h, node, disk, append', late, ballots, client, read')
    BY <1>2, <1>7, <1>9, <1>12, ReadsMove
<1> QED BY <1>2, <1>13 DEF Preserved

\* The confirmation of a read preserves the invariant: a quorum that answered in the
\* leader's term is one that has not left it.
LEMMA ConfirmReadStep ==
    ASSUME NEW h, RaftOK(h, node, disk, append, late, ballots, client, read), NEW n \in Node,
           ConfirmRead(n)
    PROVE  Preserved
<1> DEFINE r == read[n]
           x == [r EXCEPT !.stage = "apply"]
<1>1. /\ r.stage = "confirm" /\ node[n].term = r.term /\ Quorum({n} \cup r.acks)
      /\ read' = [read EXCEPT ![n].stage = "apply"]
      /\ node' = node /\ disk' = disk /\ append' = append /\ late' = late /\ ballots' = ballots
      /\ client' = client
    BY DEF ConfirmRead, Reading
<1>2. ReadOK(h, n, r, Terms(node), append[n]) /\ read = [m \in Node |-> read[m]]
    BY <1>1 DEF RaftOK, ReadsOK, NoRead
<1>3. Terms(node)[n] = r.term
    BY <1>1 DEF Terms
<1>4. read' = [read EXCEPT ![n] = x]
    BY <1>1, <1>2
<1> HIDE DEF r
<1>5. /\ IsRead(r) /\ r.term \in Nat /\ r.index \in Nat /\ r.acks \subseteq Node
      /\ r.term <= Terms(node)[n]
      /\ h.log[r.term] # <<>> /\ r.index <= Len(h.log[r.term])
      /\ Settled(h, r.term, h.log[r.term], r.index)
      /\ Holds(h, r) \/ Terms(node)[n] # r.term \/ Deposed(r, Terms(node), append[n])
    BY <1>1, <1>2 DEF ReadOK
<1>6. Holds(h, r)
    <2> SUFFICES ASSUME Deposed(r, Terms(node), append[n]) PROVE FALSE
        BY <1>3, <1>5
    <2>1. PICK Q \in SUBSET Node : Quorum(Q) /\ \A m \in Q : Terms(node)[m] > r.term /\ m \notin r.acks
        BY DEF Deposed
    <2>2. {n} \cup r.acks \in SUBSET Node
        BY <1>5
    <2>3. PICK m \in Q : m \in {n} \cup r.acks
        BY <1>1, <2>1, <2>2, QuorumsMeet
    <2>4. m = n
        BY <2>1, <2>3
    <2>5. Terms(node)[n] > r.term
        BY <2>1, <2>4
    <2> QED BY <1>3, <1>5, <2>5
<1>7. /\ x.stage = "apply" /\ x.term = r.term /\ x.index = r.index /\ x.floor = r.floor
      /\ x.acks = r.acks /\ IsRead(x)
    BY <1>5 DEF IsRead
<1> HIDE DEF x
<1>8. Holds(h, x)
    BY <1>6, <1>7 DEF Holds
<1>9. ReadOK(h, n, x, Terms(node), append[n])
    BY <1>5, <1>7, <1>8 DEF ReadOK
<1>10. RaftOK(h, node, disk, append, late, ballots, client, read')
    BY <1>4, <1>9, ReadsMove
<1> QED BY <1>1, <1>10 DEF Preserved

\* The end of a read preserves the invariant.
LEMMA FinishReadStep ==
    ASSUME NEW h, RaftOK(h, node, disk, append, late, ballots, client, read), NEW n \in Node,
           FinishRead(n)
    PROVE  Preserved
<1>1. /\ read' = [read EXCEPT ![n] = NoRead]
      /\ node' = node /\ disk' = disk /\ append' = append /\ late' = late /\ ballots' = ballots
      /\ client' = client
    BY DEF FinishRead
<1>2. RaftOK(h, node, disk, append, late, ballots, client, read')
    BY <1>1, ReadsMove
<1> QED BY <1>1, <1>2 DEF Preserved

\* The fields of a node that starts.
LEMMA FreshFields ==
    ASSUME NEW u \in Nat, NEW v \in Node \cup {Nobody}, NEW l \in Seq(Entry), NEW t,
           t = Fresh(u, v, l)
    PROVE  /\ t \in Raft /\ t.term = u /\ t.log = l /\ t.role = "follower" /\ t.voted = v
           /\ t.commit = 0 /\ t.applied = <<>> /\ t.waiters = {}
<1> DEFINE next == [p \in Node |-> 1]
           match == [p \in Node |-> 0]
<1>1. /\ next \in [Node -> Nat \ {0}] /\ match \in [Node -> Nat] /\ <<>> \in Seq(Entry)
      /\ {} \in SUBSET Node /\ {} \in SUBSET Waiter /\ 0 \in Nat
    OBVIOUS
<1>2. t = [term |-> u, voted |-> v, log |-> l, role |-> "follower", commit |-> 0,
           applied |-> <<>>, votes |-> {}, next |-> next, match |-> match, waiters |-> {}]
    BY DEF Fresh
<1> HIDE DEF next, match
<1> QED BY <1>1, <1>2 DEF Raft

\* A node whose record is new keeps term, vote and log.
LEMMA FreshOK ==
    ASSUME NEW h, NEW tm, NEW lg, NEW n \in Node, NEW s, At(h, tm, lg, n, s),
           NEW t, t = Fresh(s.term, s.voted, s.log)
    PROVE  Moves(h, h, tm, lg, n, s, t) /\ t \in Raft
<1>1. /\ h \in History /\ s \in Raft /\ tm \in [Node -> Nat] /\ lg \in [Node -> Seq(Entry)]
      /\ tm[n] = s.term /\ lg[n] = s.log /\ s.voted = h.vote[s.term][n] /\ Core(h, tm, lg)
    BY DEF At, Core, CoreTypes, NodeOK
<1>2. s.term \in Nat /\ s.voted \in Node \cup {Nobody} /\ s.log \in Seq(Entry) /\ Len(s.log) \in Nat
    BY <1>1, RaftFields
<1>3. /\ t \in Raft /\ t.term = s.term /\ t.log = s.log /\ t.role = "follower" /\ t.voted = s.voted
      /\ t.commit = 0 /\ t.applied = <<>> /\ t.waiters = {}
    <2> DEFINE u == s.term
               v == s.voted
               l == s.log
    <2>1. u \in Nat /\ v \in Node \cup {Nobody} /\ l \in Seq(Entry) /\ t = Fresh(u, v, l)
        BY <1>2
    <2> HIDE DEF u, v, l
    <2>2. /\ t \in Raft /\ t.term = u /\ t.log = l /\ t.role = "follower" /\ t.voted = v
          /\ t.commit = 0 /\ t.applied = <<>> /\ t.waiters = {}
        BY <2>1, FreshFields
    <2> QED BY <2>2 DEF u, v, l
<1>4. Applies(h, t)
    <2>1. Len(t.applied) = 0
        BY <1>3
    <2>2. Shares(t.applied, t.log, 0)
        BY <1>2, <1>3, <2>1 DEF Shares
    <2> QED BY <1>2, <1>3, <2>1, <2>2 DEF Applies, Settled
<1>5. Waits(h, n, t)
    BY <1>3 DEF Waits
<1>6. NodeOK(h, n, t)
    BY <1>1, <1>3, <1>4, <1>5 DEF NodeOK
<1>7. [tm EXCEPT ![n] = t.term] = tm /\ [lg EXCEPT ![n] = t.log] = lg
    BY <1>1, <1>3
<1>8. Extends(h, h, n, s.term)
    BY <1>1, ExtendsSelf
<1>9. At(h, [tm EXCEPT ![n] = t.term], [lg EXCEPT ![n] = t.log], n, t)
    BY <1>1, <1>3, <1>6, <1>7 DEF At
<1> QED BY <1>2, <1>3, <1>8, <1>9, MovesFollower

\* A crash of a node whose log no earlier crash has torn: it loads as it was, torn by this
\* one or not.
LEMMA RestartLoads ==
    ASSUME NEW h, NodesOK(h, node), Core(h, Terms(node), Logs(node)), DiskOK(node, disk),
           NEW n \in Node, Restart(n), Whole(disk[n].wal)
    PROVE  /\ node' = [node EXCEPT ![n] = Fresh(node[n].term, node[n].voted, node[n].log)]
           /\ DiskOK(node', disk')
<1> DEFINE s == node[n]
           t == Fresh(s.term, s.voted, s.log)
           torn == [disk EXCEPT ![n].wal = Append(@, Torn)]
<1>1. /\ node' = [node EXCEPT ![n] = Fresh(disk[n].term, disk[n].voted, Loaded(disk'[n].wal))]
      /\ disk' = disk \/ (TornTails /\ disk' = torn)
    BY DEF Restart
<1>2. /\ s \in Raft /\ node \in [Node -> Raft] /\ \A i \in 1 .. Len(s.log) : s.log[i].index = i
    BY NodeFacts
<1>3. s.log \in Seq(Entry) /\ Len(s.log) \in Nat /\ s.term \in Nat /\ s.voted \in Node \cup {Nobody}
    BY <1>2, RaftFields
<1>4. /\ disk = [m \in Node |-> [term |-> node[m].term, voted |-> node[m].voted, wal |-> disk[m].wal]]
      /\ \A m \in Node : /\ disk[m].wal \in Seq(Entry)
                         /\ \E k \in Nat : Keeps(disk[m].wal, node[m].log, k)
                         /\ TornTails \/ Whole(disk[m].wal)
    BY DEF DiskOK
<1>5. PICK k \in Nat : Keeps(disk[n].wal, s.log, k)
    BY <1>4
<1>6. disk[n].wal = s.log /\ k = Len(s.log)
    BY <1>2, <1>3, <1>4, <1>5, WholeKeeps
<1> DEFINE wal == disk'[n].wal
<1>7. /\ wal \in Seq(Entry) /\ Keeps(wal, s.log, k) /\ (TornTails \/ Whole(wal))
    <2>1. CASE disk' = disk
        BY <1>4, <1>5, <2>1
    <2>2. CASE TornTails /\ disk' = torn
        <3>1. wal = Append(disk[n].wal, Torn)
            BY <1>4, <2>2
        <3> QED BY <1>3, <1>4, <1>5, <2>2, <3>1, TornKeeps
    <2> QED BY <1>1, <2>1, <2>2
<1>8. /\ disk' = [m \in Node |-> [term |-> node[m].term, voted |-> node[m].voted, wal |-> disk'[m].wal]]
      /\ \A m \in Node : m # n => disk'[m].wal = disk[m].wal
    <2>1. CASE disk' = disk
        BY <1>4, <2>1
    <2>2. CASE disk' = torn
        <3>1. disk' = [m \in Node |-> IF m = n THEN [disk[n] EXCEPT !.wal = Append(@, Torn)] ELSE disk[m]]
            BY <1>4, <2>2
        <3>2. ASSUME NEW m \in Node
              PROVE  /\ disk'[m] = [term |-> node[m].term, voted |-> node[m].voted, wal |-> disk'[m].wal]
                     /\ m # n => disk'[m].wal = disk[m].wal
            <4>1. disk[m] = [term |-> node[m].term, voted |-> node[m].voted, wal |-> disk[m].wal]
                BY <1>4
            <4>2. CASE m = n
                <5> DEFINE x == Append(disk[n].wal, Torn)
                <5>1. disk'[n] = [disk[n] EXCEPT !.wal = x]
                    BY <3>1
                <5> HIDE DEF x
                <5>2. disk'[n] = [term |-> node[n].term, voted |-> node[n].voted, wal |-> x]
                    BY <4>1, <4>2, <5>1
                <5> QED BY <4>2, <5>2
            <4>3. CASE m # n
                BY <3>1, <4>1, <4>3
            <4> QED BY <4>2, <4>3
        <3>3. disk' = [m \in Node |-> disk'[m]]
            BY <3>1
        <3> QED BY <3>2, <3>3
    <2> QED BY <1>1, <2>1, <2>2
<1> HIDE DEF wal, torn
<1>9. Loaded(wal) = s.log
    <2>1. Loaded(wal) = SubSeq(wal, 1, k) /\ k <= Len(wal) /\ \A i \in 1 .. k : wal[i] = s.log[i]
        BY <1>2, <1>3, <1>7, KeepsLoaded DEF Keeps
    <2>2. /\ SubSeq(wal, 1, k) \in Seq(Entry) /\ Len(SubSeq(wal, 1, k)) = k
          /\ \A i \in 1 .. k : SubSeq(wal, 1, k)[i] = wal[i]
        BY <1>7, <2>1, PrefixIs
    <2> DEFINE w == SubSeq(wal, 1, k)
    <2> HIDE DEF w
    <2>3. w = s.log
        <3>1. w \in Seq(Entry) /\ Len(w) = Len(s.log) /\ \A i \in 1 .. Len(w) : w[i] = s.log[i]
            BY <1>6, <2>1, <2>2 DEF w
        <3> QED BY <1>3, <3>1, SeqEqual
    <2> QED BY <2>1, <2>3 DEF w
<1>10. node' = [node EXCEPT ![n] = t]
    <2>1. disk[n].term = s.term /\ disk[n].voted = s.voted
        BY <1>4
    <2> QED BY <1>1, <1>9, <2>1 DEF wal
<1>11. t.term = s.term /\ t.voted = s.voted /\ t.log = s.log
    BY DEF Fresh
<1> HIDE DEF t
<1>12. ASSUME NEW m \in Node
       PROVE  /\ node'[m].term = node[m].term /\ node'[m].voted = node[m].voted
              /\ node'[m].log = node[m].log
              /\ disk'[m].wal \in Seq(Entry) /\ \E j \in Nat : Keeps(disk'[m].wal, node[m].log, j)
              /\ TornTails \/ Whole(disk'[m].wal)
    <2>1. CASE m = n
        BY <1>2, <1>7, <1>10, <1>11, <2>1 DEF wal
    <2>2. CASE m # n
        <3>1. node'[m] = node[m] /\ disk'[m].wal = disk[m].wal
            BY <1>8, <1>10, <2>2
        <3> QED BY <1>4, <3>1
    <2> QED BY <2>1, <2>2
<1>13. disk' = [m \in Node |-> [term |-> node'[m].term, voted |-> node'[m].voted, wal |-> disk'[m].wal]]
    BY <1>8, <1>12
<1>14. DiskOK(node', disk')
    <2>1. \A m \in Node : /\ disk'[m].wal \in Seq(Entry)
                          /\ \E j \in Nat : Keeps(disk'[m].wal, node'[m].log, j)
                          /\ TornTails \/ Whole(disk'[m].wal)
        BY <1>12
    <2> QED BY <1>13, <2>1 DEF DiskOK
<1> QED BY <1>10, <1>14 DEF t

\* A crash and restart preserves the invariant: the log, the term and the vote load as they
\* were.
LEMMA RestartStep ==
    ASSUME NEW h, RaftOK(h, node, disk, append, late, ballots, client, read), NEW n \in Node,
           Restart(n), Whole(disk[n].wal)
    PROVE  Preserved
<1> DEFINE s == node[n]
           t == Fresh(s.term, s.voted, s.log)
<1>1. /\ late' = late
      /\ client' = [c \in Cmd |-> IF \E w \in node[n].waiters : w.cmd = c THEN "unknown" ELSE client[c]]
      /\ append' = [m \in Node |-> [p \in Node |-> IF n \in {m, p} THEN Idle ELSE append[m][p]]]
      /\ ballots' = {q \in ballots : q.to # n}
      /\ read' = [read EXCEPT ![n] = NoRead]
    BY DEF Restart
<1>2. /\ NodesOK(h, node) /\ Core(h, Terms(node), Logs(node)) /\ DiskOK(node, disk)
      /\ CallsOK(h, append)
      /\ ClientsOK(h, client, node)
    BY DEF RaftOK
<1>3. /\ At(h, Terms(node), Logs(node), n, s) /\ h \in History /\ s \in Raft
    BY <1>2, NodeFacts
<1>4. s.log \in Seq(Entry)
    BY <1>3, RaftFields
<1>6. DiskOK(node', disk')
    BY <1>2, RestartLoads
<1>7. node' = [node EXCEPT ![n] = t]
    BY <1>2, RestartLoads
<1>8. t = Fresh(s.term, s.voted, s.log)
    OBVIOUS
<1> HIDE DEF s, t
<1>9. Moves(h, h, Terms(node), Logs(node), n, s, t) /\ t \in Raft
    BY <1>3, <1>8, FreshOK
<1>AA. s.term \in Nat /\ s.voted \in Node \cup {Nobody}
    BY <1>3, RaftFields
<1>10. t.term = s.term /\ t.voted = s.voted /\ t.log = s.log /\ t.waiters = {} /\ t.applied = <<>>
    BY <1>4, <1>8, <1>AA, FreshFields
<1>11. Supersedes(s.log, t.log)
    BY <1>4, <1>10, LenProperties DEF Supersedes
<1>12. RaftOK(h, node', disk', append, late, ballots, Told(node[n], t), read)
    <2> DEFINE dt == [disk EXCEPT ![n] = [term |-> t.term, voted |-> t.voted,
                                          wal |-> Stored(disk[n].wal, node[n].log, t.log)]]
    <2>1. dt = [disk EXCEPT ![n] = [term |-> t.term, voted |-> t.voted,
                                    wal |-> Stored(disk[n].wal, node[n].log, t.log)]]
        OBVIOUS
    <2> HIDE DEF dt
    <2>2. RaftOK(h, node', dt, append, late, ballots, Told(node[n], t), read)
        BY <1>7, <1>9, <1>11, <2>1, GoesOK DEF s
    <2> QED BY <1>6, <2>2 DEF RaftOK
<1>13. RaftOK(h, node', disk', append, late, ballots, client', read)
    <2>1. ClientsOK(h, Told(node[n], t), node')
        BY <1>12 DEF RaftOK
    <2>2. ASSUME NEW c \in Cmd, client'[c] = "ok" PROVE Told(node[n], t)[c] = "ok"
        <3>1. client[c] = "ok" /\ ~ \E w \in node[n].waiters : w.cmd = c
            BY <1>1, <2>2
        <3> QED BY <3>1 DEF Told
    <2>3. ClientsOK(h, client', node')
        BY <2>1, <2>2 DEF ClientsOK
    <2> QED BY <1>12, <2>3 DEF RaftOK
<1>14. \A q \in ballots' : q \in ballots \/ BallotOK(h, Terms(node'), q)
    BY <1>1
<1>15. RaftOK(h, node', disk', append, late, ballots', client', read)
    BY <1>13, <1>14, BallotsMove
<1>16. RaftOK(h, node', disk', append, late, ballots', client', read')
    BY <1>1, <1>15, ReadsMove
<1>17. Core(h, Terms(node'), Logs(node')) /\ ReadsOK(h, Terms(node'), append, read')
    BY <1>16 DEF RaftOK
<1>18. \A m, p \in Node : append'[m][p] = Idle \/ append'[m][p] = append[m][p]
    BY <1>1
<1>19. append' = [m \in Node |-> [p \in Node |-> append'[m][p]]]
    BY <1>1
<1>20. CallsOK(h, append')
    BY <1>2, <1>18, <1>19 DEF CallsOK, CallOK
<1>21. Heard(Terms(node'), append, append')
    BY <1>18 DEF Heard, Idle
<1>22. ReadsOK(h, Terms(node'), append', read')
    BY <1>17, <1>21, ReadsHear
<1>23. RaftOK(h, node', disk', append', late, ballots', client', read')
    BY <1>16, <1>20, <1>22 DEF RaftOK
<1> QED BY <1>1, <1>23 DEF Preserved

\* Before anything has happened.
Nothing ==
    [log |-> [t \in Nat |-> <<>>], leader |-> [t \in Nat |-> Nobody],
     vote |-> [t \in Nat |-> [m \in Node |-> Nobody]], cand |-> [t \in Nat |-> [m \in Node |-> <<>>]],
     ack |-> [t \in Nat |-> [m \in Node |-> 0]]]

\* The fields of the empty history.
LEMMA NothingFacts ==
    /\ Nothing \in History
    /\ \A t \in Nat : Nothing.log[t] = <<>> /\ Nothing.leader[t] = Nobody
    /\ \A t \in Nat, m \in Node :
          Nothing.vote[t][m] = Nobody /\ Nothing.cand[t][m] = <<>> /\ Nothing.ack[t][m] = 0
<1>1. <<>> \in Seq(Entry)
    OBVIOUS
<1> DEFINE log == [t \in Nat |-> <<>>]
           leader == [t \in Nat |-> Nobody]
           vote == [t \in Nat |-> [m \in Node |-> Nobody]]
           cand == [t \in Nat |-> [m \in Node |-> <<>>]]
           ack == [t \in Nat |-> [m \in Node |-> 0]]
<1>2. /\ log \in [Nat -> Seq(Entry)] /\ leader \in [Nat -> Node \cup {Nobody}]
      /\ vote \in [Nat -> [Node -> Node \cup {Nobody}]] /\ cand \in [Nat -> [Node -> Seq(Entry)]]
      /\ ack \in [Nat -> [Node -> Nat]]
    BY <1>1
<1>3. /\ \A t \in Nat : log[t] = <<>> /\ leader[t] = Nobody
      /\ \A t \in Nat, m \in Node : vote[t][m] = Nobody /\ cand[t][m] = <<>> /\ ack[t][m] = 0
    OBVIOUS
<1>4. Nothing = [log |-> log, leader |-> leader, vote |-> vote, cand |-> cand, ack |-> ack]
    BY DEF Nothing
<1> HIDE DEF log, leader, vote, cand, ack
<1>5. /\ Nothing.log = log /\ Nothing.leader = leader /\ Nothing.vote = vote /\ Nothing.cand = cand
      /\ Nothing.ack = ack
    BY <1>4
<1> QED BY <1>2, <1>3, <1>4, <1>5 DEF History

\* The core of the empty history.
LEMMA NothingCore ==
    ASSUME NEW tm \in [Node -> Nat], NEW lg \in [Node -> Seq(Entry)], \A m \in Node : lg[m] = <<>>
    PROVE  Core(Nothing, tm, lg)
<1> DEFINE h == Nothing
<1>1. /\ h \in History
      /\ \A t \in Nat : h.log[t] = <<>> /\ h.leader[t] = Nobody
      /\ \A t \in Nat, m \in Node : h.vote[t][m] = Nobody /\ h.cand[t][m] = <<>> /\ h.ack[t][m] = 0
    BY NothingFacts
<1>2. Len(<<>>) = 0 /\ <<>> \in Seq(Entry)
    OBVIOUS
<1> HIDE DEF h
<1>3. Grown(h, <<>>)
    BY <1>2 DEF Grown
<1>4. LeadersLogs(h) /\ NodesLogs(h, tm, lg) /\ CandidatesLogs(h)
    BY <1>1, <1>2, <1>3 DEF LeadersLogs, NodesLogs, CandidatesLogs
<1>5. VotesInv(h, tm) /\ AcksInv(h, tm)
    BY <1>1, <1>2 DEF VotesInv, AcksInv
<1>6. AckedStays(h, tm, lg)
    BY <1>1 DEF AckedStays
<1>7. VotersCarry(h) /\ LeadersElected(h, tm)
    BY <1>1 DEF VotersCarry, LeadersElected
<1> QED BY <1>1, <1>4, <1>5, <1>6, <1>7 DEF Core, CoreTypes, h

\* The invariant holds at first.
LEMMA InitOK ==
    ASSUME Init
    PROVE  RaftOK(Nothing, node, disk, append, late, ballots, client, read)
<1> DEFINE h == Nothing
           s == Fresh(0, Nobody, <<>>)
<1>1. /\ h \in History /\ \A t \in Nat, m \in Node : h.vote[t][m] = Nobody
    BY NothingFacts
<1>2. 0 \in Nat /\ Nobody \in Node \cup {Nobody} /\ <<>> \in Seq(Entry) /\ Len(<<>>) = 0
    OBVIOUS
<1>3. /\ s \in Raft /\ s.term = 0 /\ s.log = <<>> /\ s.role = "follower" /\ s.voted = Nobody
      /\ s.commit = 0 /\ s.applied = <<>> /\ s.waiters = {}
    BY <1>2, FreshFields
<1>4. \A m \in Node : node[m] = s
    BY DEF Init
<1>5. node \in [Node -> Raft]
    BY <1>3 DEF Init
<1> HIDE DEF h, s
<1>6. /\ Terms(node) \in [Node -> Nat] /\ Logs(node) \in [Node -> Seq(Entry)]
      /\ \A m \in Node : Logs(node)[m] = <<>>
    BY <1>2, <1>3, <1>4 DEF Terms, Logs
<1>7. Core(h, Terms(node), Logs(node))
    BY <1>6, NothingCore DEF h
<1>8. NodesOK(h, node)
    <2>1. Applies(h, s)
        BY <1>2, <1>3 DEF Applies, Settled, Shares
    <2>2. \A m \in Node : NodeOK(h, m, s)
        BY <1>1, <1>2, <1>3, <2>1 DEF NodeOK, Waits
    <2> QED BY <1>4, <1>5, <2>2 DEF NodesOK
<1>9. DiskOK(node, disk)
    <2>1. /\ disk = [m \in Node |-> [term |-> 0, voted |-> Nobody, wal |-> <<>>]]
          /\ \A m \in Node : disk[m].wal = <<>> /\ node[m].log = <<>>
        BY <1>3, <1>4 DEF Init
    <2>2. Keeps(<<>>, <<>>, 0) /\ Whole(<<>>)
        BY <1>2 DEF Keeps, Whole
    <2> QED BY <1>2, <1>3, <1>4, <2>1, <2>2 DEF DiskOK
<1>10. CallsOK(h, append)
    BY DEF CallsOK, CallOK, Init
<1>11. /\ BallotsOK(h, Terms(node), ballots) /\ LateOK(h, late)
       /\ ReadsOK(h, Terms(node), append, read)
    BY DEF BallotsOK, LateOK, ReadsOK, Init
<1>12. ClientsOK(h, client, node)
    BY DEF ClientsOK, Init
<1> QED BY <1>7, <1>8, <1>9, <1>10, <1>11, <1>12 DEF RaftOK, h

\* Every step preserves the invariant.
LEMMA NextOK ==
    ASSUME NEW h, RaftOK(h, node, disk, append, late, ballots, client, read), Next, RestartsWhole
    PROVE  Preserved
<1>1. ASSUME NEW n \in Node, NEW q \in ballots, HandleVote(n, q) \/ OnVoteResp(n, q)
      PROVE  Preserved
    BY <1>1, HandleVoteStep, OnVoteRespStep
<1>2. ASSUME NEW n \in Node, NEW p \in Peers(n),
             HandleAppend(n, p) \/ OnAppendResp(n, p) \/ AppendTimesOut(n, p)
      PROVE  Preserved
    BY <1>2, HandleAppendStep, OnAppendRespStep, AppendTimesOutStep DEF Peers
<1>3. ASSUME NEW n \in Node, NEW c \in Cmd, Propose(n, c)
      PROVE  Preserved
    BY <1>3, ProposeStep
<1>4. ASSUME NEW n \in Node, Heartbeat(n) \/ BecomeCandidate(n)
      PROVE  Preserved
    BY <1>4, HeartbeatStep, BecomeCandidateStep
<1>5. ASSUME NEW n \in Node, StartRead(n) \/ ConfirmRead(n) \/ FinishRead(n)
      PROVE  Preserved
    BY <1>5, StartReadStep, ConfirmReadStep, FinishReadStep
<1>6. ASSUME NEW n \in Node, Restart(n)
      PROVE  Preserved
    BY <1>6, RestartStep DEF RestartsWhole
<1>7. ASSUME NEW q \in late, HandleLate(q)
      PROVE  Preserved
    BY <1>7, HandleLateStep
<1> QED BY <1>1, <1>2, <1>3, <1>4, <1>5, <1>6, <1>7, Zenon DEF Next

\* The invariant holds at first.
LEMMA RaftInit == Init => IInv
<1> SUFFICES ASSUME Init PROVE IInv
    OBVIOUS
<1>1. RaftInv(Nothing)
    BY InitOK, RaftInvIs
<1> QED BY <1>1 DEF IInv

\* A step under the assumption on crashes preserves it.
LEMMA RaftStep == IInv /\ [Next]_vars /\ [RestartsWhole]_vars => IInv'
<1> SUFFICES ASSUME IInv, [Next]_vars, [RestartsWhole]_vars PROVE IInv'
    OBVIOUS
<1>1. PICK h : RaftInv(h)
    BY DEF IInv
<1>2. RaftOK(h, node, disk, append, late, ballots, client, read)
    BY <1>1, RaftInvIs
<1>3. Preserved
    <2>1. CASE Next /\ RestartsWhole
        BY <1>2, <2>1, NextOK
    <2>2. CASE UNCHANGED vars
        BY <1>2, <2>2 DEF vars, Preserved
    <2> QED BY <2>1, <2>2
<1>4. PICK g : RaftOK(g, node', disk', append', late', ballots', client', read')
    BY <1>3 DEF Preserved
<1>5. RaftInv(g)'
    BY <1>4 DEF RaftInv, RaftOK
<1> QED BY <1>5 DEF IInv

\* Under some history of elections, logs, votes and acknowledgements every node, its disk,
\* every message, every answer to a client and every read is true to that history, for any
\* number of nodes, terms, commands, losses, delays and crashes, in the middle of an append
\* too, of nodes whose log is whole.
THEOREM RaftIsInductive == Spec /\ [][RestartsWhole]_vars => []IInv
BY RaftInit, RaftStep, PTL DEF Spec

\* Where crashes do not tear logs every log stays whole: then the theorems below need no
\* assumption on crashes.
THEOREM WholeAlways ==
    ASSUME TornTails = FALSE
    PROVE  Spec => [][RestartsWhole]_vars
<1>1. IInv => RestartsWhole
    BY DEF IInv, RaftInv, DiskOK, RestartsWhole
<1> QED BY <1>1, RaftInit, RaftStep, PTL DEF Spec

\* Two nodes have applied the same at the same index.
LEMMA AppliedAgree ==
    ASSUME NEW h, NEW nd, NodesOK(h, nd), Core(h, Terms(nd), Logs(nd)), NEW m \in Node,
           NEW n \in Node,
           NEW i \in Nat, i >= 1, i <= Len(nd[m].applied), i <= Len(nd[n].applied)
    PROVE  nd[m].applied[i] = nd[n].applied[i]
<1> DEFINE a == nd[m].applied
           b == nd[n].applied
           j == Len(a)
           k == Len(b)
           t == nd[m].term
           u == nd[n].term
<1>1. nd[m] \in Raft /\ nd[n] \in Raft /\ Applies(h, nd[m]) /\ Applies(h, nd[n])
    BY DEF NodesOK, NodeOK
<1>2. /\ a \in Seq(Entry) /\ b \in Seq(Entry) /\ j \in Nat /\ k \in Nat /\ t \in Nat /\ u \in Nat
    BY <1>1, RaftFields
<1>3. Settled(h, t, a, j) /\ Settled(h, u, b, k) /\ i <= j /\ i <= k
    BY <1>1 DEF Applies
<1> HIDE DEF a, b, j, k, t, u
<1>4. a[i] = b[i]
    BY <1>2, <1>3, SettledAgree
<1> QED BY <1>4 DEF a, b

\* Two nodes never apply different entries at one index, for any number of nodes.
THEOREM StateMachinesAgreeAlways == Spec /\ [][RestartsWhole]_vars => []StateMachinesAgree
<1>1. IInv => StateMachinesAgree
    <2> SUFFICES ASSUME IInv, NEW m \in Node, NEW n \in Node,
                        NEW i \in 1 .. Least(Len(node[m].applied), Len(node[n].applied))
                 PROVE  node[m].applied[i] = node[n].applied[i]
        BY DEF StateMachinesAgree
    <2>1. PICK h : NodesOK(h, node) /\ Core(h, Terms(node), Logs(node))
        BY DEF IInv, RaftInv
    <2>2. node[m] \in Raft /\ node[n] \in Raft
        BY <2>1 DEF NodesOK, NodeOK
    <2>3. Len(node[m].applied) \in Nat /\ Len(node[n].applied) \in Nat
        BY <2>2, RaftFields
    <2>4. i \in Nat /\ i >= 1 /\ i <= Len(node[m].applied) /\ i <= Len(node[n].applied)
        BY <2>3 DEF Least
    <2> QED BY <2>1, <2>4, AppliedAgree
<1> QED BY <1>1, RaftIsInductive, PTL

\* What was chosen is in the log of everyone who acknowledged it.
LEMMA ChosenIsKept ==
    ASSUME NEW h, NEW tm, NEW lg, Core(h, tm, lg), NEW u \in Nat, NEW i, Chosen(h, u, i),
           NEW p \in Node, h.ack[u][p] >= i
    PROVE  Shares(lg[p], h.log[u], i)
<1>1. h \in History /\ h.ack[u][p] \in Nat
    BY HistoryTypes DEF Core, CoreTypes
<1>2. i \in 1 .. h.ack[u][p] /\ h.log[u][i].term = u
    BY <1>1, HistoryTypes DEF Chosen
<1>3. \/ Shares(lg[p], h.log[u], i)
      \/ \E v \in Nat : u < v /\ v <= tm[p] /\ Differs(h.log[v], h.log[u], i)
    BY <1>2 DEF Core, AckedStays
<1>4. ASSUME NEW v \in Nat, u < v, Differs(h.log[v], h.log[u], i) PROVE FALSE
    <2>1. h.log[v] # <<>>
        BY <1>1, <1>4, HistoryTypes DEF Differs
    <2>2. Shares(h.log[v], h.log[u], i)
        BY <1>4, <2>1, Safety
    <2> QED BY <1>4, <2>2 DEF Shares, Differs
<1> QED BY <1>3, <1>4

\* A write a client was told of is held by a majority, for any number of nodes and crashes:
\* a restart of any of them would read it, or, where a crash has torn the log and nothing
\* has rewritten it, it is in memory until that node crashes again.
THEOREM AckedIsDurableAlways == Spec /\ [][RestartsWhole]_vars => []AckedIsDurable
<1>1. IInv => AckedIsDurable
    <2> DEFINE S(c) == {n \in Node : \E i \in DOMAIN Held(n) : Held(n)[i].cmd = c}
    <2> SUFFICES ASSUME IInv, NEW c \in Cmd, client[c] = "ok" PROVE Quorum(S(c))
        BY DEF AckedIsDurable, Acknowledged
    <2>1. PICK h : /\ NodesOK(h, node) /\ Core(h, Terms(node), Logs(node)) /\ DiskOK(node, disk)
                   /\ ClientsOK(h, client, node)
        BY DEF IInv, RaftInv
    <2>2. PICK t \in Nat : \E k \in Nat : Answered(h, c, t, k)
        BY <2>1 DEF ClientsOK, ClientOK
    <2>3. PICK k \in Nat : Answered(h, c, t, k)
        BY <2>2
    <2>4. PICK u \in Nat : \E i \in Nat : Chosen(h, u, i) /\ k <= i /\ Shares(h.log[u], h.log[t], k)
        BY <2>3 DEF Answered
    <2>5. PICK i \in Nat : Chosen(h, u, i) /\ k <= i /\ Shares(h.log[u], h.log[t], k)
        BY <2>4
    <2>6. k >= 1 /\ h.log[u][k].cmd = c
        BY <2>3, <2>5 DEF Answered, Shares
    <2> DEFINE P == {p \in Node : h.ack[u][p] >= i}
    <2>7. P \subseteq S(c)
        <3> SUFFICES ASSUME NEW p \in Node, h.ack[u][p] >= i PROVE p \in S(c)
            OBVIOUS
        <3>1. Shares(Logs(node)[p], h.log[u], i)
            BY <2>1, <2>5, ChosenIsKept
        <3>2. /\ node[p] \in Raft /\ Logs(node)[p] = node[p].log
              /\ \A j \in 1 .. Len(node[p].log) : node[p].log[j].index = j
            BY <2>1, NodeFacts DEF Logs
        <3>3. node[p].log \in Seq(Entry) /\ Len(node[p].log) \in Nat
            BY <3>2, RaftFields
        <3>a. Shares(node[p].log, h.log[u], i) /\ k \in 1 .. i
            BY <2>5, <2>6, <3>1, <3>2
        <3>b. i <= Len(node[p].log) /\ node[p].log[k] = h.log[u][k]
            BY <3>a DEF Shares
        <3>4. k \in 1 .. Len(node[p].log) /\ node[p].log[k].cmd = c
            BY <2>6, <3>3, <3>a, <3>b
        <3>5. Held(p) = node[p].log
            <4>1. disk[p].wal \in Seq(Entry) /\ \E j \in Nat : Keeps(disk[p].wal, node[p].log, j)
                BY <2>1 DEF DiskOK
            <4>2. Whole(disk[p].wal) => disk[p].wal = node[p].log
                BY <3>2, <3>3, <4>1, WholeKeeps
            <4>3. Loaded(node[p].log) = node[p].log
                BY <3>2, <3>3, LoadedIs, SubSeqFull
            <4> QED BY <4>2, <4>3 DEF Held
        <3>6. DOMAIN node[p].log = 1 .. Len(node[p].log)
            BY <3>3
        <3>7. k \in DOMAIN Held(p) /\ Held(p)[k].cmd = c
            BY <3>4, <3>5, <3>6
        <3> QED BY <3>7
    <2>8. Quorum(P)
        BY <2>5 DEF Chosen
    <2> HIDE DEF P
    <2>9. P \in SUBSET Node
        BY DEF P
    <2> QED BY <2>7, <2>8, <2>9, QuorumGrows
<1> QED BY <1>1, RaftIsInductive, PTL

\* A read through ReadIndex returns every write that was acknowledged before it began, for
\* any number of nodes.
THEOREM ReadsAreCurrentAlways == Spec /\ [][RestartsWhole]_vars => ReadsAreCurrent
<1>1. IInv => \A n \in Node : FinishRead(n) => read[n].floor \subseteq Effects(node[n])
    <2> SUFFICES ASSUME IInv, NEW n \in Node, FinishRead(n), NEW c \in read[n].floor
                 PROVE  c \in Effects(node[n])
        OBVIOUS
    <2> DEFINE r == read[n]
               s == node[n]
    <2>1. PICK h : /\ NodesOK(h, node) /\ Core(h, Terms(node), Logs(node))
                   /\ ReadsOK(h, Terms(node), append, read)
        BY DEF IInv, RaftInv
    <2>2. r.stage = "apply" /\ Len(s.applied) >= r.index
        BY DEF FinishRead
    <2>3. ReadOK(h, n, r, Terms(node), append[n])
        BY <2>1, <2>2 DEF ReadsOK, NoRead
    <2>4. s \in Raft /\ Applies(h, s) /\ h \in History
        BY <2>1, NodeFacts DEF NodesOK, NodeOK
    <2> HIDE DEF r, s
    <2>5. /\ s.applied \in Seq(Entry) /\ Len(s.applied) \in Nat /\ s.term \in Nat
          /\ Settled(h, s.term, s.applied, Len(s.applied))
        BY <2>4, RaftFields DEF Applies
    <2>6. /\ r.term \in Nat /\ r.index \in Nat /\ Settled(h, r.term, h.log[r.term], r.index)
          /\ r.floor \subseteq Cmd /\ Holds(h, r)
        BY <2>2, <2>3 DEF ReadOK, IsRead
    <2>7. h.log[r.term] \in Seq(Entry)
        BY <2>4, <2>6, HistoryTypes
    <2>8. PICK k \in 1 .. r.index : h.log[r.term][k].cmd = c
        BY <2>6 DEF Holds, r
    <2>9. k \in Nat /\ k >= 1 /\ k <= r.index /\ k <= Len(s.applied)
        BY <2>2, <2>5, <2>6, <2>8
    <2>10. s.applied[k] = h.log[r.term][k]
        <3> DEFINE a == s.applied
                   b == h.log[r.term]
                   i == Len(a)
                   j == r.index
                   t == s.term
                   u == r.term
        <3>1. /\ a \in Seq(Entry) /\ b \in Seq(Entry) /\ i \in Nat /\ j \in Nat /\ t \in Nat /\ u \in Nat
              /\ Settled(h, t, a, i) /\ Settled(h, u, b, j) /\ k \in Nat /\ k >= 1 /\ k <= i /\ k <= j
            BY <2>5, <2>6, <2>7, <2>9
        <3> HIDE DEF a, b, i, j, t, u
        <3>2. a[k] = b[k]
            BY <2>1, <3>1, SettledAgree
        <3> QED BY <3>2 DEF a, b
    <2>11. k \in DOMAIN s.applied /\ s.applied[k].cmd = c /\ c \in Cmd
        BY <2>5, <2>6, <2>8, <2>9, <2>10 DEF r
    <2> QED BY <2>11 DEF Effects, s
<1> QED BY <1>1, RaftIsInductive, PTL DEF ReadsAreCurrent

\* The entries of a log, of a node, and of an AppendEntries.
EntriesOf(l) == {l[i] : i \in 1 .. Len(l)}
NodeEntries(s) == EntriesOf(s.log) \cup EntriesOf(s.applied)
CallEntries(c) == IF c.stage = "sent" THEN EntriesOf(c.entries) ELSE {}

\* Every entry that is anywhere.
Carried(nd, calls, l) ==
    UNION ({NodeEntries(nd[n]) : n \in Node} \cup {CallEntries(calls[n][p]) : n, p \in Node}
               \cup {EntriesOf(q.call.entries) : q \in l})

\* A command of a client is in one entry, wherever it is, and its client has proposed it.
Once(S, told) ==
    \A e, f \in S : e.cmd \in Cmd => told[e.cmd] # "new" /\ (e.cmd = f.cmd => e = f)

OnceInv == Once(Carried(node, append, late), client)

\* The entries of T come from S, but for the no-ops of leaders.
Comes(T, S) == \A e \in T : e \in S \/ e.cmd = Noop

\* The entries of two logs in a row.
LEMMA ConcatEntries ==
    ASSUME NEW l \in Seq(Entry), NEW m \in Seq(Entry)
    PROVE  /\ l \o m \in Seq(Entry) /\ Len(l \o m) = Len(l) + Len(m)
           /\ EntriesOf(l \o m) \subseteq EntriesOf(l) \cup EntriesOf(m)
<1>1. /\ l \o m \in Seq(Entry) /\ Len(l \o m) = Len(l) + Len(m) /\ Len(l) \in Nat /\ Len(m) \in Nat
      /\ \A i \in 1 .. Len(l) + Len(m) : (l \o m)[i] = IF i <= Len(l) THEN l[i] ELSE m[i - Len(l)]
    BY ConcatProperties
<1>2. ASSUME NEW i \in 1 .. Len(l \o m)
      PROVE  (l \o m)[i] \in EntriesOf(l) \cup EntriesOf(m)
    <2>1. CASE i <= Len(l)
        <3>1. i \in 1 .. Len(l) /\ (l \o m)[i] = l[i]
            BY <1>1, <2>1
        <3> QED BY <3>1 DEF EntriesOf
    <2>2. CASE ~(i <= Len(l))
        <3>1. i - Len(l) \in 1 .. Len(m) /\ (l \o m)[i] = m[i - Len(l)]
            BY <1>1, <2>2
        <3> QED BY <3>1 DEF EntriesOf
    <2> QED BY <2>1, <2>2
<1> QED BY <1>1, <1>2 DEF EntriesOf

\* The entries of a part of a log.
LEMMA PartEntries ==
    ASSUME NEW l \in Seq(Entry), NEW i \in Nat, i >= 1, NEW j \in Int, j <= Len(l)
    PROVE  /\ SubSeq(l, i, j) \in Seq(Entry) /\ EntriesOf(SubSeq(l, i, j)) \subseteq EntriesOf(l)
           /\ Len(SubSeq(l, i, j)) = IF i <= j THEN j - i + 1 ELSE 0
           /\ \A k \in 1 .. Len(SubSeq(l, i, j)) : SubSeq(l, i, j)[k] = l[i + k - 1]
<1>1. Len(l) \in Nat
    OBVIOUS
<1>2. /\ Len(SubSeq(l, i, j)) = IF i <= j THEN j - i + 1 ELSE 0
      /\ \A k \in 1 .. Len(SubSeq(l, i, j)) : SubSeq(l, i, j)[k] = l[i + k - 1]
    BY <1>1
<1>3. SubSeq(l, i, j) \in Seq(Entry)
    BY <1>1
<1>4. ASSUME NEW k \in 1 .. Len(SubSeq(l, i, j)) PROVE i + k - 1 \in 1 .. Len(l)
    BY <1>1, <1>2
<1>5. ASSUME NEW k \in 1 .. Len(SubSeq(l, i, j)) PROVE SubSeq(l, i, j)[k] \in EntriesOf(l)
    BY <1>2, <1>4 DEF EntriesOf
<1> QED BY <1>2, <1>3, <1>5 DEF EntriesOf

\* What applying leaves in the state and the entries.
LEMMA ApplyEntries ==
    ASSUME NEW s \in Raft
    PROVE  /\ ApplyCommitted(s) \in Raft /\ ApplyCommitted(s).log = s.log
           /\ NodeEntries(ApplyCommitted(s)) \subseteq NodeEntries(s)
<1> DEFINE last == Least(s.commit, Len(s.log))
           a == s.applied \o SubSeq(s.log, Len(s.applied) + 1, last)
           r == ApplyCommitted(s)
<1>1. /\ s.log \in Seq(Entry) /\ Len(s.log) \in Nat /\ s.commit \in Nat
      /\ s.applied \in Seq(Entry) /\ Len(s.applied) \in Nat /\ s.waiters \in SUBSET Waiter
    BY RaftFields
<1>2. last \in Nat /\ last <= Len(s.log)
    BY <1>1 DEF Least
<1>3. r = [s EXCEPT !.applied = a, !.waiters = {w \in s.waiters : w.index > last}]
    BY DEF ApplyCommitted
<1> HIDE DEF last
<1>4. /\ SubSeq(s.log, Len(s.applied) + 1, last) \in Seq(Entry)
      /\ EntriesOf(SubSeq(s.log, Len(s.applied) + 1, last)) \subseteq EntriesOf(s.log)
    BY <1>1, <1>2, PartEntries
<1>5. a \in Seq(Entry) /\ EntriesOf(a) \subseteq EntriesOf(s.applied) \cup EntriesOf(s.log)
    BY <1>1, <1>4, ConcatEntries
<1> HIDE DEF a
<1>6. r \in Raft /\ r.log = s.log /\ r.applied = a
    BY <1>1, <1>3, <1>5 DEF Raft
<1> QED BY <1>5, <1>6 DEF NodeEntries

\* A commit index that may be advanced to.
LEMMA CommitEntries ==
    ASSUME NEW s \in Raft, NEW n
    PROVE  /\ AdvanceCommit(n, s) \in Raft /\ AdvanceCommit(n, s).log = s.log
           /\ NodeEntries(AdvanceCommit(n, s)) \subseteq NodeEntries(s)
<1>1. CASE s.role # "leader" \/ Commits(n, s) = {}
    BY <1>1 DEF AdvanceCommit
<1>2. CASE s.role = "leader" /\ Commits(n, s) # {}
    <2> DEFINE i == CHOOSE x \in Commits(n, s) : \A y \in Commits(n, s) : y <= x
               b == [s EXCEPT !.commit = i]
    <2>1. s.commit \in Nat /\ Len(s.log) \in Nat
        BY RaftFields
    <2>2. Commits(n, s) \subseteq 0 .. Len(s.log)
        BY <2>1 DEF Commits
    <2>3. \E x \in Commits(n, s) : \A y \in Commits(n, s) : y <= x
        BY <1>2, <2>1, <2>2, GreatestOf
    <2>4. i \in Commits(n, s)
        BY <2>3
    <2>5. i \in Nat
        BY <2>1, <2>2, <2>4
    <2>6. AdvanceCommit(n, s) = ApplyCommitted(b)
        BY <1>2 DEF AdvanceCommit
    <2> HIDE DEF i
    <2>7. b \in Raft /\ b.log = s.log /\ b.applied = s.applied
        BY <2>5 DEF Raft
    <2> HIDE DEF b
    <2>8. /\ ApplyCommitted(b) \in Raft /\ ApplyCommitted(b).log = b.log
          /\ NodeEntries(ApplyCommitted(b)) \subseteq NodeEntries(b)
        BY <2>7, ApplyEntries
    <2> QED BY <2>6, <2>7, <2>8 DEF NodeEntries
<1> QED BY <1>1, <1>2

\* The entries of a log that grows by one.
LEMMA AppendEntries ==
    ASSUME NEW l \in Seq(Entry), NEW e \in Entry
    PROVE  EntriesOf(Append(l, e)) \subseteq EntriesOf(l) \cup {e}
<1>1. /\ Len(Append(l, e)) = Len(l) + 1 /\ Len(l) \in Nat /\ Append(l, e)[Len(l) + 1] = e
      /\ \A i \in 1 .. Len(l) : Append(l, e)[i] = l[i]
    BY AppendFacts
<1>2. ASSUME NEW i \in 1 .. Len(Append(l, e)) PROVE Append(l, e)[i] \in EntriesOf(l) \cup {e}
    <2>1. CASE i = Len(l) + 1
        BY <1>1, <2>1
    <2>2. CASE i # Len(l) + 1
        BY <1>1, <2>2 DEF EntriesOf
    <2> QED BY <2>1, <2>2
<1> QED BY <1>2 DEF EntriesOf

\* A proposed command is one more entry.
LEMMA ProposedEntries ==
    ASSUME NEW s \in Raft, NEW c \in Cmd \cup {Noop}
    PROVE  /\ NewEntry(s, c) \in Entry /\ NewEntry(s, c).cmd = c
           /\ Append(s.log, NewEntry(s, c)) \in Seq(Entry)
           /\ EntriesOf(Append(s.log, NewEntry(s, c))) \subseteq EntriesOf(s.log) \cup {NewEntry(s, c)}
<1>1. s.term \in Nat /\ Len(s.log) \in Nat /\ s.log \in Seq(Entry)
    BY RaftFields
<1>2. NewEntry(s, c) \in Entry /\ NewEntry(s, c).cmd = c
    BY <1>1 DEF NewEntry, Entry
<1> QED BY <1>1, <1>2, AppendFacts, AppendEntries

\* What a leader that is elected adds is a no-op.
LEMMA ElectedEntries ==
    ASSUME NEW s \in Raft, NEW n
    PROVE  /\ Elected(n, s) \in Raft /\ Comes(NodeEntries(Elected(n, s)), NodeEntries(s))
<1>1. CASE s.role = "candidate" /\ Quorum(s.votes)
    <2> DEFINE e == NewEntry(s, Noop)
               next == [p \in Node |-> Len(s.log) + 1]
               match == [p \in Node |-> 0]
               log == Append(s.log, e)
               b == [s EXCEPT !.role = "leader", !.votes = {}, !.next = next, !.match = match,
                              !.log = log]
    <2>1. Elected(n, s) = AdvanceCommit(n, b)
        BY <1>1 DEF Elected, Leader
    <2>2. /\ log \in Seq(Entry) /\ EntriesOf(log) \subseteq EntriesOf(s.log) \cup {e} /\ e.cmd = Noop
        BY ProposedEntries
    <2>3. Len(s.log) \in Nat
        BY RaftFields
    <2>4. next \in [Node -> Nat \ {0}] /\ match \in [Node -> Nat] /\ {} \in SUBSET Node
        BY <2>3
    <2> HIDE DEF next, match, log, e
    <2>5. b \in Raft /\ b.log = log /\ b.applied = s.applied
        BY <2>2, <2>4 DEF Raft
    <2> HIDE DEF b
    <2>6. AdvanceCommit(n, b) \in Raft /\ NodeEntries(AdvanceCommit(n, b)) \subseteq NodeEntries(b)
        BY <2>5, CommitEntries
    <2>7. \A x \in NodeEntries(b) : x \in NodeEntries(s) \/ x.cmd = Noop
        BY <2>2, <2>5 DEF NodeEntries
    <2> QED BY <2>1, <2>6, <2>7 DEF Comes
<1>2. CASE ~(s.role = "candidate" /\ Quorum(s.votes))
    BY <1>2 DEF Elected, Comes
<1> QED BY <1>1, <1>2

\* What a node waits for is in its log, and is what it has applied if it has applied so much.
Sound(s) ==
    \A w \in s.waiters :
        /\ w.index \in 1 .. Len(s.log) /\ s.log[w.index].term = w.term
        /\ w.index <= Len(s.applied) => s.applied[w.index] = s.log[w.index]

\* As s becomes t, the waiter w is told that its command was applied.
ToldOk(w, t) == w.index <= Len(t.applied) /\ t.applied[w.index].term = w.term

Tells(s, t) == \A w \in s.waiters \ t.waiters : ToldOk(w, t)

\* Applying tells a waiter the truth.
LEMMA ApplyTells ==
    ASSUME NEW s \in Raft, Sound(s)
    PROVE  Tells(s, ApplyCommitted(s)) /\ ApplyCommitted(s).waiters \subseteq s.waiters
<1> DEFINE last == Least(s.commit, Len(s.log))
           L == Len(s.applied)
           b == SubSeq(s.log, L + 1, last)
           a == s.applied \o b
           r == ApplyCommitted(s)
<1>1. /\ s.log \in Seq(Entry) /\ Len(s.log) \in Nat /\ s.commit \in Nat
      /\ s.applied \in Seq(Entry) /\ L \in Nat /\ s.waiters \in SUBSET Waiter
    BY RaftFields
<1>2. last \in Nat /\ last <= Len(s.log)
    BY <1>1 DEF Least
<1>3. /\ r.applied = a /\ r.waiters = {w \in s.waiters : w.index > last}
    BY DEF ApplyCommitted, Raft
<1> HIDE DEF last
<1>4. /\ b \in Seq(Entry) /\ Len(b) = IF L + 1 <= last THEN last - (L + 1) + 1 ELSE 0
      /\ \A k \in 1 .. Len(b) : b[k] = s.log[L + 1 + k - 1]
    <2> DEFINE f == L + 1
    <2>1. f \in Nat /\ f >= 1 /\ last \in Int /\ s.log \in Seq(Entry)
        BY <1>1, <1>2
    <2> HIDE DEF f
    <2>2. /\ SubSeq(s.log, f, last) \in Seq(Entry)
          /\ Len(SubSeq(s.log, f, last)) = IF f <= last THEN last - f + 1 ELSE 0
          /\ \A k \in 1 .. Len(SubSeq(s.log, f, last)) : SubSeq(s.log, f, last)[k] = s.log[f + k - 1]
        BY <1>2, <2>1, PartEntries
    <2> QED BY <2>2 DEF f
<1> HIDE DEF b
<1>5. /\ Len(a) = L + Len(b)
      /\ \A i \in 1 .. L + Len(b) : a[i] = IF i <= L THEN s.applied[i] ELSE b[i - L]
    BY <1>1, <1>4, ConcatProperties
<1> HIDE DEF a, r
<1>6. ASSUME NEW w \in s.waiters, w \notin r.waiters PROVE ToldOk(w, r)
    <2>1. w.index \in 1 .. Len(s.log) /\ s.log[w.index].term = w.term
        BY DEF Sound
    <2>2. w.index <= last /\ w.index \in Nat /\ w.index >= 1
        BY <1>1, <1>2, <1>3, <1>6, <2>1
    <2>3. w.index <= Len(a)
        <3>1. CASE L + 1 <= last
            <4>1. Len(b) = last - (L + 1) + 1
                BY <1>4, <3>1
            <4> QED BY <1>1, <1>2, <1>5, <2>2, <4>1
        <3>2. CASE ~(L + 1 <= last)
            <4>1. Len(b) = 0
                BY <1>4, <3>2
            <4> QED BY <1>1, <1>2, <1>5, <2>2, <3>2, <4>1
        <3> QED BY <3>1, <3>2
    <2>4. a[w.index] = s.log[w.index]
        <3>1. CASE w.index <= L
            <4>1. a[w.index] = s.applied[w.index]
                BY <1>1, <1>4, <1>5, <2>2, <2>3, <3>1
            <4> QED BY <1>1, <2>2, <3>1, <4>1 DEF Sound
        <3>2. CASE ~(w.index <= L)
            <4>1. w.index - L \in 1 .. Len(b) /\ a[w.index] = b[w.index - L]
                BY <1>1, <1>4, <1>5, <2>2, <2>3, <3>2
            <4>2. L + 1 + (w.index - L) - 1 = w.index
                BY <1>1, <2>2
            <4> QED BY <1>4, <4>1, <4>2
        <3> QED BY <3>1, <3>2
    <2> QED BY <1>3, <2>1, <2>3, <2>4 DEF ToldOk
<1> QED BY <1>3, <1>6 DEF Tells, r

\* A leader that commits tells a waiter the truth.
LEMMA CommitTells ==
    ASSUME NEW s \in Raft, Sound(s), NEW n
    PROVE  Tells(s, AdvanceCommit(n, s))
<1>1. CASE s.role # "leader" \/ Commits(n, s) = {}
    BY <1>1 DEF AdvanceCommit, Tells
<1>2. CASE s.role = "leader" /\ Commits(n, s) # {}
    <2> DEFINE i == CHOOSE x \in Commits(n, s) : \A y \in Commits(n, s) : y <= x
               b == [s EXCEPT !.commit = i]
    <2>1. s.commit \in Nat /\ Len(s.log) \in Nat
        BY RaftFields
    <2>2. Commits(n, s) \subseteq 0 .. Len(s.log)
        BY <2>1 DEF Commits
    <2>3. \E x \in Commits(n, s) : \A y \in Commits(n, s) : y <= x
        BY <1>2, <2>1, <2>2, GreatestOf
    <2>4. i \in Commits(n, s)
        BY <2>3
    <2>5. i \in Nat
        BY <2>1, <2>2, <2>4
    <2>6. AdvanceCommit(n, s) = ApplyCommitted(b)
        BY <1>2 DEF AdvanceCommit
    <2> HIDE DEF i
    <2>7. b \in Raft /\ b.log = s.log /\ b.applied = s.applied /\ b.waiters = s.waiters
        BY <2>5 DEF Raft
    <2> HIDE DEF b
    <2>8. Sound(b)
        BY <2>7 DEF Sound
    <2>9. Tells(b, ApplyCommitted(b))
        BY <2>7, <2>8, ApplyTells
    <2> QED BY <2>6, <2>7, <2>9 DEF Tells
<1> QED BY <1>1, <1>2

\* A request that could be under way.
Sendable(q) == q.prev \in Nat /\ q.entries \in Seq(Entry) /\ q.commit \in Nat

\* A node whose log was cut behind c and gets the entries of E behind the first k.
Cut(s, c, E, k) ==
    [s EXCEPT !.log = SubSeq(s.log, 1, c) \o SubSeq(E, k + 1, Len(E)),
              !.waiters = {w \in s.waiters : w.index <= c}]

\* The fields of such a node.
LEMMA CutFacts ==
    ASSUME NEW s \in Raft, Sound(s), NEW c \in Nat, c <= Len(s.log), NEW E \in Seq(Entry),
           NEW k \in Nat, k < Len(E), NEW t, t = Cut(s, c, E, k)
    PROVE  /\ t \in Raft /\ Sound(t) /\ t.waiters = {w \in s.waiters : w.index <= c}
           /\ NodeEntries(t) \subseteq NodeEntries(s) \cup EntriesOf(E)
           /\ t.term = s.term /\ t.applied = s.applied
<1> DEFINE l == SubSeq(s.log, 1, c) \o SubSeq(E, k + 1, Len(E))
           W == {w \in s.waiters : w.index <= c}
<1>1. /\ s.log \in Seq(Entry) /\ Len(s.log) \in Nat /\ Len(E) \in Nat /\ s.waiters \in SUBSET Waiter
    BY RaftFields, LenProperties
<1>2. /\ SubSeq(s.log, 1, c) \in Seq(Entry) /\ EntriesOf(SubSeq(s.log, 1, c)) \subseteq EntriesOf(s.log)
    BY <1>1, PartEntries
<1>3. /\ SubSeq(E, k + 1, Len(E)) \in Seq(Entry) /\ EntriesOf(SubSeq(E, k + 1, Len(E))) \subseteq EntriesOf(E)
    BY <1>1, PartEntries
<1>4. l \in Seq(Entry) /\ EntriesOf(l) \subseteq EntriesOf(s.log) \cup EntriesOf(E)
    <2> DEFINE a == SubSeq(s.log, 1, c)
               b == SubSeq(E, k + 1, Len(E))
    <2>1. a \in Seq(Entry) /\ b \in Seq(Entry)
        BY <1>2, <1>3
    <2>2. EntriesOf(a) \subseteq EntriesOf(s.log) /\ EntriesOf(b) \subseteq EntriesOf(E)
        BY <1>2, <1>3
    <2> HIDE DEF a, b
    <2>3. a \o b \in Seq(Entry) /\ EntriesOf(a \o b) \subseteq EntriesOf(a) \cup EntriesOf(b)
        BY <2>1, ConcatEntries
    <2>4. a \o b \in Seq(Entry) /\ EntriesOf(a \o b) \subseteq EntriesOf(s.log) \cup EntriesOf(E)
        BY <2>2, <2>3
    <2> QED BY <2>4 DEF a, b
<1>5. Len(l) = c + (Len(E) - k) /\ \A i \in 1 .. c : l[i] = s.log[i]
    <2>1. Spliced(Splice(s.log, c, E, k), s.log, c, E, k)
        BY <1>1, SpliceFacts
    <2> QED BY <2>1 DEF Spliced, Splice
<1>6. t = [s EXCEPT !.log = l, !.waiters = W]
    BY DEF Cut
<1> HIDE DEF l
<1>7. W \in SUBSET Waiter
    BY <1>1
<1> HIDE DEF W
<1>8. /\ t \in Raft /\ t.log = l /\ t.waiters = W /\ t.applied = s.applied /\ t.term = s.term
    BY <1>4, <1>6, <1>7 DEF Raft
<1>9. ASSUME NEW w \in W
      PROVE  /\ w.index \in 1 .. Len(l) /\ l[w.index].term = w.term
             /\ w.index <= Len(s.applied) => s.applied[w.index] = l[w.index]
    <2>1. w \in s.waiters /\ w.index <= c
        BY DEF W
    <2>2. /\ w.index \in 1 .. Len(s.log) /\ s.log[w.index].term = w.term
          /\ w.index <= Len(s.applied) => s.applied[w.index] = s.log[w.index]
        BY <2>1 DEF Sound
    <2>3. w.index \in 1 .. c /\ w.index \in 1 .. Len(l)
        BY <1>1, <1>5, <2>1, <2>2
    <2>4. l[w.index] = s.log[w.index]
        BY <1>5, <2>3
    <2> QED BY <2>2, <2>3, <2>4
<1>10. Sound(t)
    BY <1>8, <1>9 DEF Sound
<1> QED BY <1>4, <1>8, <1>10 DEF NodeEntries, W

\* The waiters of s that a request refused: those behind where the log was cut.
Refusable(s, q, w) == Have(s.log, q) < Len(q.entries) /\ w.index > q.prev + Have(s.log, q)

\* A request that fits brings nothing but its entries, and whom it refuses waited for one
\* that it replaces.
LEMMA AppendedFacts ==
    ASSUME NEW s \in Raft, Sound(s), NEW q, Sendable(q), q.prev <= Len(s.log),
           NEW r, r = Appended(s, q)
    PROVE  /\ NodeEntries(r) \subseteq NodeEntries(s) \cup EntriesOf(q.entries)
           /\ \A w \in s.waiters \ r.waiters : ToldOk(w, r) \/ Refusable(s, q, w)
<1> DEFINE k == Have(s.log, q)
           c == q.prev + k
           match == q.prev + Len(q.entries)
           t == IF k = Len(q.entries) THEN s ELSE Cut(s, c, q.entries, k)
           b == [t EXCEPT !.commit = Least(q.commit, match)]
<1>1. /\ s.log \in Seq(Entry) /\ Len(s.log) \in Nat /\ Len(q.entries) \in Nat /\ q.prev \in Nat
      /\ q.entries \in Seq(Entry) /\ q.commit \in Nat /\ s.waiters \in SUBSET Waiter
    BY RaftFields, LenProperties DEF Sendable
<1>2. /\ k \in 0 .. Len(q.entries)
      /\ \A i \in 1 .. k : HasEntry(s.log, q.prev + i) /\ s.log[q.prev + i].term = q.entries[i].term
    BY <1>1, HaveFacts
<1>3. r = IF q.commit > t.commit THEN ApplyCommitted(b) ELSE t
    BY DEF Appended, Cut
<1>5. k \in Nat /\ c \in Nat /\ c <= Len(s.log)
    <2>1. CASE k = 0
        BY <1>1, <2>1
    <2>2. CASE k # 0
        <3>1. HasEntry(s.log, q.prev + k)
            BY <1>2, <2>2
        <3> QED BY <1>1, <1>2, <3>1 DEF HasEntry
    <2> QED BY <2>1, <2>2
<1>6. \A w : Refusable(s, q, w) <=> k < Len(q.entries) /\ w.index > c
    BY DEF Refusable
<1> HIDE DEF k, c
<1>7. /\ t \in Raft /\ Sound(t) /\ NodeEntries(t) \subseteq NodeEntries(s) \cup EntriesOf(q.entries)
      /\ \A w \in s.waiters \ t.waiters : Refusable(s, q, w)
      /\ t.waiters \subseteq s.waiters
    <2>1. CASE k = Len(q.entries)
        BY <2>1
    <2>2. CASE k # Len(q.entries)
        <3>1. k < Len(q.entries) /\ t = Cut(s, c, q.entries, k)
            BY <1>1, <1>2, <2>2
        <3>2. /\ t \in Raft /\ Sound(t) /\ t.waiters = {w \in s.waiters : w.index <= c}
              /\ NodeEntries(t) \subseteq NodeEntries(s) \cup EntriesOf(q.entries)
            BY <1>1, <1>5, <3>1, CutFacts
        <3>3. ASSUME NEW w \in s.waiters, w \notin t.waiters PROVE w.index > c
            <4>1. w.index \in Nat /\ ~(w.index <= c)
                BY <1>1, <3>2, <3>3 DEF Waiter
            <4> QED BY <1>5, <4>1
        <3> QED BY <1>6, <3>1, <3>2, <3>3
    <2> QED BY <2>1, <2>2
<1> HIDE DEF t
<1>8. CASE ~(q.commit > t.commit)
    BY <1>3, <1>7, <1>8
<1>9. CASE q.commit > t.commit
    <2>1. Least(q.commit, match) \in Nat
        BY <1>1 DEF Least
    <2>2. /\ b \in Raft /\ b.log = t.log /\ b.applied = t.applied /\ b.waiters = t.waiters
        BY <1>7, <2>1 DEF Raft
    <2>3. r = ApplyCommitted(b)
        BY <1>3, <1>9
    <2> HIDE DEF b
    <2>4. Sound(b) /\ NodeEntries(b) = NodeEntries(t)
        BY <1>7, <2>2 DEF Sound, NodeEntries
    <2>5. Tells(b, r) /\ NodeEntries(r) \subseteq NodeEntries(b)
        BY <2>2, <2>3, <2>4, ApplyTells, ApplyEntries
    <2>6. \A w \in s.waiters \ r.waiters : ToldOk(w, r) \/ Refusable(s, q, w)
        BY <1>7, <2>2, <2>5 DEF Tells
    <2> QED BY <1>7, <2>4, <2>5, <2>6
<1> QED BY <1>8, <1>9

\* A node that answers an AppendEntries: what it has then comes from what it had and from
\* the request, and whom it refuses waited for an entry that the request replaces.
LEMMA HandledFacts ==
    ASSUME NEW s \in Raft, Sound(s), NEW q, Sendable(q), q.term \in Nat,
           NEW t, t = Handled(s, q).state
    PROVE  /\ NodeEntries(t) \subseteq NodeEntries(s) \cup EntriesOf(q.entries)
           /\ \A w \in s.waiters \ t.waiters :
                 \/ ToldOk(w, t)
                 \/ /\ Refusable(s, q, w) /\ t.term = q.term /\ q.prev <= Len(s.log)
                    /\ TermAt(s.log, q.prev) = q.prevTerm
<1> DEFINE f == Following(s, q.term)
           r == Handled(s, q)
<1>1. s.term \in Nat /\ Len(s.log) \in Nat
    BY RaftFields
<1>2. CASE q.term < s.term
    <2>1. t = s
        BY <1>2 DEF Handled
    <2> QED BY <2>1
<1>3. CASE ~(q.term < s.term)
    <2>1. /\ f \in Raft /\ f.term = q.term /\ f.log = s.log /\ f.applied = s.applied
          /\ f.waiters = s.waiters
        <3>1. /\ Follower(s, q.term) \in Raft /\ Follower(s, q.term).term = q.term
              /\ Follower(s, q.term).log = s.log /\ Follower(s, q.term).applied = s.applied
              /\ Follower(s, q.term).waiters = s.waiters
            BY FollowerFields
        <3>2. f = Follower(s, q.term) \/ (f = s /\ q.term = s.term)
            BY <1>1, <1>3 DEF Following
        <3> QED BY <3>1, <3>2
    <2>2. f = Following(s, q.term) /\ r = Handled(s, q)
        OBVIOUS
    <2>3. t = r.state
        OBVIOUS
    <2> HIDE DEF f, r
    <2>4. \/ r = Refused(f, Len(f.log) + 1)
          \/ /\ HasEntry(f.log, q.prev) /\ TermAt(f.log, q.prev) # q.prevTerm
             /\ r = Refused(f, FirstIndexOfTerm(f.log, TermAt(f.log, q.prev)))
          \/ r = Refused(f, 0)
          \/ /\ HasEntry(f.log, q.prev) /\ TermAt(f.log, q.prev) = q.prevTerm
             /\ r = Accepted(Appended(f, q), q.prev + Len(q.entries))
        BY <1>3, <2>2, HandledCases
    <2>5. CASE t = f
        BY <2>1, <2>5 DEF NodeEntries
    <2>6. CASE /\ HasEntry(f.log, q.prev) /\ TermAt(f.log, q.prev) = q.prevTerm /\ t = Appended(f, q)
        <3>1. q.prev <= Len(f.log)
            BY <2>6 DEF HasEntry
        <3>2. Sound(f)
            BY <2>1 DEF Sound
        <3>3. /\ NodeEntries(t) \subseteq NodeEntries(f) \cup EntriesOf(q.entries)
              /\ \A w \in f.waiters \ t.waiters : ToldOk(w, t) \/ Refusable(f, q, w)
            BY <2>1, <2>6, <3>1, <3>2, AppendedFacts
        <3>4. \A w : Refusable(f, q, w) <=> Refusable(s, q, w)
            BY <2>1 DEF Refusable
        <3>5. t.term = q.term
            BY <2>1, <2>6 DEF Appended, ApplyCommitted, Raft
        <3> QED BY <2>1, <2>6, <3>1, <3>3, <3>4, <3>5 DEF NodeEntries
    <2> QED BY <2>3, <2>4, <2>5, <2>6 DEF Refused, Accepted
<1> QED BY <1>2, <1>3

\* The entries of nodes, of the calls under way and of late requests come from S.
NodesCome(nd, S) == \A m \in Node : Comes(NodeEntries(nd[m]), S)
CallsCome(calls, S) == \A m, p \in Node : Comes(CallEntries(calls[m][p]), S)
LateComes(l, S) == \A q \in l : Comes(EntriesOf(q.call.entries), S)

\* They are all there is.
LEMMA CarriedComes ==
    ASSUME NEW nd, NEW calls, NEW l, NEW S
    PROVE  Comes(Carried(nd, calls, l), S) <=> NodesCome(nd, S) /\ CallsCome(calls, S) /\ LateComes(l, S)
<1> DEFINE A == {NodeEntries(nd[n]) : n \in Node}
           B == {CallEntries(calls[n][p]) : n, p \in Node}
           C == {EntriesOf(q.call.entries) : q \in l}
<1>1. \A e : e \in Carried(nd, calls, l) <=> \E X \in A \cup B \cup C : e \in X
    BY DEF Carried
<1>2. Comes(Carried(nd, calls, l), S) <=> \A X \in A \cup B \cup C : Comes(X, S)
    BY <1>1 DEF Comes
<1>3. /\ (\A X \in A : Comes(X, S)) <=> NodesCome(nd, S)
      /\ (\A X \in B : Comes(X, S)) <=> CallsCome(calls, S)
      /\ (\A X \in C : Comes(X, S)) <=> LateComes(l, S)
    BY DEF NodesCome, CallsCome, LateComes
<1> HIDE DEF A, B, C
<1> QED BY <1>2, <1>3

\* What there is comes from what there is.
LEMMA ComesSelf ==
    ASSUME NEW nd, NEW calls, NEW l, NEW S, S = Carried(nd, calls, l)
    PROVE  NodesCome(nd, S) /\ CallsCome(calls, S) /\ LateComes(l, S)
<1>1. Comes(Carried(nd, calls, l), S)
    BY DEF Comes
<1> QED BY <1>1, CarriedComes

\* A command stays in one entry when no entry of a client is new.
LEMMA OnceComes ==
    ASSUME NEW S, NEW told, Once(S, told), NEW T, Comes(T, S), NEW now,
           \A c \in Cmd : told[c] # "new" => now[c] # "new"
    PROVE  Once(T, now)
<1> SUFFICES ASSUME NEW e \in T, NEW f \in T, e.cmd \in Cmd
             PROVE  now[e.cmd] # "new" /\ (e.cmd = f.cmd => e = f)
    BY DEF Once
<1>1. e \in S /\ (e.cmd = f.cmd => f \in S)
    BY KVAssumption DEF Comes
<1> QED BY <1>1 DEF Once

\* What a node sends is of its log.
LEMMA SentEntries ==
    ASSUME NEW s \in Raft, NEW P, NEW calls, NEW fresh, NEW p \in Node
    PROVE  CallEntries(Sent(s, P, calls, fresh)[p]) \subseteq CallEntries(calls[p]) \cup EntriesOf(s.log)
<1>1. Sent(s, P, calls, fresh)[p] =
          IF p \notin P \/ calls[p].stage # "idle" \/ s.role # "leader" THEN calls[p] ELSE Request(s, p, fresh)
    BY Zenon DEF Sent, Request
<1>2. CallEntries(Request(s, p, fresh)) \subseteq EntriesOf(s.log)
    <2> DEFINE from == IF HasEntry(s.log, s.next[p] - 1) THEN s.next[p] ELSE 1
               hi == Least(Len(s.log), from + MaxEntries - 1)
    <2>1. /\ s.log \in Seq(Entry) /\ Len(s.log) \in Nat /\ s.next[p] \in Nat \ {0} /\ MaxEntries \in Nat
        BY KVAssumption, RaftFields
    <2>2. from \in Nat /\ from >= 1
        BY <2>1
    <2>3. Request(s, p, fresh).stage = "sent" /\ Request(s, p, fresh).entries = SubSeq(s.log, from, hi)
        BY DEF Request
    <2> HIDE DEF from
    <2>4. hi \in Int /\ hi <= Len(s.log)
        BY <2>1, <2>2 DEF Least
    <2> HIDE DEF hi
    <2>5. EntriesOf(SubSeq(s.log, from, hi)) \subseteq EntriesOf(s.log)
        BY <2>1, <2>2, <2>4, PartEntries
    <2> QED BY <2>3, <2>5 DEF CallEntries
<1> QED BY <1>1, <1>2

\* The calls of a node that sends, when its log comes from S.
LEMMA SentComes ==
    ASSUME NEW h, CallsOK(h, append), NEW S, CallsCome(append, S), NEW n \in Node,
           NEW s \in Raft, Comes(NodeEntries(s), S), NEW P, NEW row, NEW fresh,
           \A p \in Node : Comes(CallEntries(row[p]), S),
           append' = [append EXCEPT ![n] = Sent(s, P, row, fresh)]
    PROVE  CallsCome(append', S)
<1>1. append = [m \in Node |-> [p \in Node |-> append[m][p]]]
    BY DEF CallsOK
<1>2. \A m \in Node : append'[m] = IF m = n THEN Sent(s, P, row, fresh) ELSE append[m]
    BY <1>1
<1> SUFFICES ASSUME NEW m \in Node, NEW p \in Node PROVE Comes(CallEntries(append'[m][p]), S)
    BY DEF CallsCome
<1>3. CASE m # n
    BY <1>2, <1>3 DEF CallsCome
<1>4. CASE m = n
    <2>0. CallEntries(Sent(s, P, row, fresh)[p]) \subseteq CallEntries(row[p]) \cup EntriesOf(s.log)
        BY SentEntries
    <2>1. CallEntries(append'[m][p]) \subseteq CallEntries(row[p]) \cup EntriesOf(s.log)
        BY <1>2, <1>4, <2>0
    <2> QED BY <2>1 DEF Comes, NodeEntries
<1> QED BY <1>3, <1>4

\* The same of Sends.
LEMMA SendsComes ==
    ASSUME NEW h, CallsOK(h, append), NEW S, CallsCome(append, S), NEW n \in Node,
           NEW s \in Raft, Comes(NodeEntries(s), S), NEW P, Sends(n, s, P)
    PROVE  CallsCome(append', S)
<1>1. PICK Q : append' = [append EXCEPT ![n] = Sent(s, Q, append[n], Reading(n))]
    BY DEF Sends
<1>2. \A p \in Node : Comes(CallEntries(append[n][p]), S)
    BY DEF CallsCome
<1> QED BY <1>1, <1>2, SentComes

\* A node that comes from S, among the others.
LEMMA NodeComes ==
    ASSUME NEW S, NodesCome(node, S), node \in [Node -> Raft], NEW n \in Node, NEW t,
           Comes(NodeEntries(t), S), node' = [node EXCEPT ![n] = t]
    PROVE  NodesCome(node', S)
BY DEF NodesCome

\* No client is told that it has proposed nothing.
LEMMA ToldLater ==
    ASSUME NEW s, NEW t, NEW c \in Cmd, client[c] # "new"
    PROVE  Told(s, t)[c] # "new"
BY DEF Told

\* No entry of a client is new after a step.
Spreads ==
    /\ Comes(Carried(node', append', late'), Carried(node, append, late))
    /\ \A c \in Cmd : client[c] # "new" => client'[c] # "new"

\* A node becomes something that comes from what there was, and the rest of the step too.
LEMMA BecomesSpreads ==
    ASSUME NEW h, NodesOK(h, node), NEW S, S = Carried(node, append, late), NEW n \in Node, NEW t,
           Becomes(n, t), Comes(NodeEntries(t), S), CallsCome(append', S), LateComes(late', S)
    PROVE  Spreads
<1>1. node \in [Node -> Raft] /\ node' = [node EXCEPT ![n] = t] /\ client' = Told(node[n], t)
    BY DEF NodesOK, Becomes
<1>2. NodesCome(node, S)
    BY ComesSelf
<1>3. NodesCome(node', S)
    BY <1>1, <1>2, NodeComes
<1>4. Comes(Carried(node', append', late'), S)
    BY <1>3, CarriedComes
<1> QED BY <1>1, <1>4, ToldLater DEF Spreads

\* What the invariant says of a node, for these lemmas.
LEMMA NodeSound ==
    ASSUME NEW h, NEW nd, NodesOK(h, nd), Core(h, Terms(nd), Logs(nd)), NEW n \in Node
    PROVE  /\ nd[n] \in Raft /\ Sound(nd[n]) /\ nd \in [Node -> Raft]
           /\ Len(nd[n].applied) <= Len(nd[n].log)
<1>1. nd[n] \in Raft /\ Applies(h, nd[n]) /\ Waits(h, n, nd[n]) /\ nd \in [Node -> Raft]
    BY DEF NodesOK, NodeOK
<1>2. Shares(nd[n].applied, nd[n].log, Len(nd[n].applied)) /\ Len(nd[n].applied) \in Nat
    BY <1>1, RaftFields DEF Applies
<1>3. ASSUME NEW w \in nd[n].waiters
      PROVE  /\ w.index \in 1 .. Len(nd[n].log) /\ nd[n].log[w.index].term = w.term
             /\ w.index <= Len(nd[n].applied) => nd[n].applied[w.index] = nd[n].log[w.index]
    <2>1. w.index \in 1 .. Len(nd[n].log) /\ nd[n].log[w.index].term = w.term /\ Len(nd[n].log) \in Nat
        BY <1>1, RaftFields DEF Waits
    <2>2. w.index <= Len(nd[n].applied) => w.index \in 1 .. Len(nd[n].applied)
        BY <1>2, <2>1
    <2> QED BY <1>2, <2>1, <2>2 DEF Shares
<1> QED BY <1>1, <1>2, <1>3 DEF Sound, Shares

\* A follower has what it had.
LEMMA FollowerComes ==
    ASSUME NEW s \in Raft, NEW u \in Nat, NEW S, Comes(NodeEntries(s), S)
    PROVE  Comes(NodeEntries(Follower(s, u)), S)
<1>1. Follower(s, u).log = s.log /\ Follower(s, u).applied = s.applied
    BY FollowerFields
<1> QED BY <1>1 DEF NodeEntries

\* A request that is not fresh any more.
LEMMA StaleEntries ==
    ASSUME NEW c, IsRequest(c), c.stage = "sent", NEW o, o = [c EXCEPT !.fresh = FALSE]
    PROVE  o.stage = "sent" /\ o.entries = c.entries
<1>1. DOMAIN c = {"stage", "term", "prev", "prevTerm", "entries", "commit", "fresh"}
    BY DEF IsRequest
<1> QED BY <1>1

\* An answer that is not fresh any more.
LEMMA StaleStage ==
    ASSUME NEW c, IsAnswer(c), c.stage = "answered", NEW o, o = [c EXCEPT !.fresh = FALSE]
    PROVE  o.stage = "answered"
<1>1. DOMAIN c = {"stage", "asked", "term", "ok", "match", "conflict", "fresh"}
    BY DEF IsAnswer
<1> QED BY <1>1

\* Steps that leave the nodes and the late requests alone.
LEMMA CallsSpread ==
    ASSUME NEW S, S = Carried(node, append, late), node' = node, CallsCome(append', S),
           LateComes(late', S), client' = client
    PROVE  Spreads
<1>1. NodesCome(node', S)
    BY ComesSelf
<1>2. Comes(Carried(node', append', late'), S)
    BY <1>1, CarriedComes
<1> QED BY <1>2 DEF Spreads

\* The steps of reading, and a heartbeat.
LEMMA ReadSpreads ==
    ASSUME NEW h, RaftOK(h, node, disk, append, late, ballots, client, read), NEW n \in Node,
           Heartbeat(n) \/ StartRead(n) \/ ConfirmRead(n) \/ FinishRead(n)
    PROVE  Spreads
<1> DEFINE S == Carried(node, append, late)
           s == node[n]
<1>1. /\ NodesOK(h, node) /\ Core(h, Terms(node), Logs(node)) /\ CallsOK(h, append)
    BY DEF RaftOK
<1>2. s \in Raft
    BY <1>1, NodeSound
<1>3. NodesCome(node, S) /\ CallsCome(append, S) /\ LateComes(late, S)
    BY ComesSelf
<1>4. Comes(NodeEntries(s), S)
    BY <1>3 DEF NodesCome
<1> HIDE DEF S, s
<1>5. CASE Heartbeat(n)
    <2>1. Sends(n, s, Peers(n)) /\ node' = node /\ late' = late /\ client' = client
        BY <1>5 DEF Heartbeat, s
    <2>2. CallsCome(append', S)
        BY <1>1, <1>2, <1>3, <1>4, <2>1, SendsComes
    <2> QED BY <1>3, <2>1, <2>2, CallsSpread DEF S
<1>6. CASE StartRead(n)
    <2> DEFINE old == [p \in Node |-> IF append[n][p].stage = "idle" THEN Idle
                                     ELSE [append[n][p] EXCEPT !.fresh = FALSE]]
    <2>1. PICK P : append' = [append EXCEPT ![n] = Sent(s, P, old, TRUE)]
        BY <1>6 DEF StartRead, s
    <2>2. node' = node /\ late' = late /\ client' = client
        BY <1>6 DEF StartRead
    <2>3. ASSUME NEW p \in Node PROVE Comes(CallEntries(old[p]), S)
        <3> DEFINE c == append[n][p]
        <3>1. CallOK(h, p, c) /\ Comes(CallEntries(c), S)
            BY <1>1, <1>3 DEF CallsOK, CallsCome
        <3>2. old[p] = IF c.stage = "idle" THEN Idle ELSE [c EXCEPT !.fresh = FALSE]
            OBVIOUS
        <3> HIDE DEF c, old
        <3>3. CASE c.stage = "idle"
            BY <3>2, <3>3 DEF CallEntries, Comes, Idle
        <3>4. CASE c.stage = "sent" /\ IsRequest(c)
            <4>1. old[p].stage = "sent" /\ old[p].entries = c.entries
                BY <3>2, <3>4, StaleEntries
            <4> QED BY <3>1, <3>4, <4>1 DEF CallEntries
        <3>5. CASE c.stage = "answered" /\ IsAnswer(c)
            <4>1. old[p].stage = "answered"
                BY <3>2, <3>5, StaleStage
            <4> QED BY <4>1 DEF CallEntries, Comes
        <3> QED BY <3>1, <3>3, <3>4, <3>5 DEF CallOK, Idle
    <2> HIDE DEF old
    <2>4. CallsCome(append', S)
        BY <1>1, <1>2, <1>3, <1>4, <2>1, <2>3, SentComes
    <2> QED BY <1>3, <2>2, <2>4, CallsSpread DEF S
<1>7. CASE ConfirmRead(n) \/ FinishRead(n)
    <2>1. node' = node /\ append' = append /\ late' = late /\ client' = client
        BY <1>7 DEF ConfirmRead, FinishRead
    <2> QED BY <1>3, <2>1, CallsSpread DEF S
<1> QED BY <1>5, <1>6, <1>7

\* The steps of elections.
LEMMA BallotSpreads ==
    ASSUME NEW h, RaftOK(h, node, disk, append, late, ballots, client, read), NEW n \in Node,
           BecomeCandidate(n) \/ \E q \in ballots : HandleVote(n, q) \/ OnVoteResp(n, q)
    PROVE  Spreads
<1> DEFINE S == Carried(node, append, late)
           s == node[n]
<1>1. /\ NodesOK(h, node) /\ Core(h, Terms(node), Logs(node)) /\ CallsOK(h, append)
      /\ BallotsOK(h, Terms(node), ballots)
    BY DEF RaftOK
<1>2. s \in Raft /\ S = Carried(node, append, late)
    BY <1>1, NodeSound
<1>3. NodesCome(node, S) /\ CallsCome(append, S) /\ LateComes(late, S)
    BY ComesSelf
<1>4. Comes(NodeEntries(s), S)
    BY <1>3 DEF NodesCome
<1>5. CASE BecomeCandidate(n)
    <2> DEFINE t == [s EXCEPT !.term = s.term + 1, !.voted = n, !.role = "candidate", !.votes = {n}]
    <2>1. Becomes(n, t) /\ append' = append /\ late' = late
        BY <1>5 DEF BecomeCandidate
    <2>2. Comes(NodeEntries(t), S)
        BY <1>2, <1>4 DEF NodeEntries, Raft
    <2> HIDE DEF t, S, s
    <2> QED BY <1>1, <1>2, <1>3, <2>1, <2>2, BecomesSpreads
<1>6. ASSUME NEW q \in ballots, HandleVote(n, q) PROVE Spreads
    <2> DEFINE f == IF q.term > s.term THEN Follower(s, q.term) ELSE s
               t == IF q.term >= f.term /\ MayVote(f, q) THEN [f EXCEPT !.voted = q.from] ELSE f
    <2>1. Becomes(n, t) /\ append' = append /\ late' = late /\ q.kind = "ask"
        BY <1>6 DEF HandleVote
    <2>2. q.term \in Nat
        BY <1>1, <2>1 DEF BallotsOK, BallotOK, AskOK
    <2>3. Comes(NodeEntries(f), S) /\ f \in Raft
        BY <1>2, <1>4, <2>2, FollowerComes, FollowerFields
    <2> HIDE DEF f
    <2>4. Comes(NodeEntries(t), S)
        BY <2>3 DEF NodeEntries, Raft
    <2> HIDE DEF t, S, s
    <2> QED BY <1>1, <1>2, <1>3, <2>1, <2>4, BecomesSpreads
<1>7. ASSUME NEW a \in ballots, OnVoteResp(n, a) PROVE Spreads
    <2> DEFINE b == [s EXCEPT !.votes = @ \cup {a.from}]
               t == IF a.term > s.term THEN Follower(s, a.term)
                    ELSE IF s.role = "candidate" /\ a.asked = s.term /\ a.term = s.term /\ a.granted
                         THEN Elected(n, b)
                         ELSE s
    <2>1. /\ Becomes(n, t) /\ late' = late /\ a.kind = "answer"
          /\ IF s.role # "leader" /\ t.role = "leader" THEN Sends(n, t, Peers(n)) ELSE append' = append
        BY <1>7 DEF OnVoteResp
    <2>2. a.term \in Nat /\ a.from \in Node
        BY <1>1, <2>1 DEF BallotsOK, BallotOK, AnswerOK
    <2>3. b \in Raft /\ b.log = s.log /\ b.applied = s.applied
        BY <1>2, <2>2 DEF Raft
    <2> HIDE DEF b, S, s
    <2>4. Comes(NodeEntries(b), S)
        BY <1>4, <2>3 DEF NodeEntries
    <2>5. Comes(NodeEntries(Elected(n, b)), S) /\ Elected(n, b) \in Raft
        BY <2>3, <2>4, ElectedEntries DEF Comes
    <2>6. Comes(NodeEntries(t), S) /\ t \in Raft
        BY <1>2, <1>4, <2>2, <2>5, FollowerComes, FollowerFields
    <2> HIDE DEF t
    <2>7. CallsCome(append', S)
        BY <1>1, <1>3, <2>1, <2>6, SendsComes
    <2> QED BY <1>1, <1>2, <1>3, <2>1, <2>6, <2>7, BecomesSpreads
<1> QED BY <1>5, <1>6, <1>7

\* A request that is true can be handled.
LEMMA SentSendable ==
    ASSUME NEW h, NEW p, NEW q, SentOK(h, p, q)
    PROVE  Sendable(q) /\ q.term \in Nat
BY DEF SentOK, Sendable

\* The steps of appending.
LEMMA AppendSpreads ==
    ASSUME NEW h, RaftOK(h, node, disk, append, late, ballots, client, read), NEW n \in Node,
           NEW p \in Node, HandleAppend(n, p) \/ OnAppendResp(n, p) \/ AppendTimesOut(n, p)
    PROVE  Spreads
<1> DEFINE S == Carried(node, append, late)
           s == node[n]
<1>1. /\ NodesOK(h, node) /\ Core(h, Terms(node), Logs(node)) /\ CallsOK(h, append)
    BY DEF RaftOK
<1>2. s \in Raft /\ Sound(s) /\ S = Carried(node, append, late)
    BY <1>1, NodeSound
<1>3. NodesCome(node, S) /\ CallsCome(append, S) /\ LateComes(late, S)
    BY ComesSelf
<1>4. Comes(NodeEntries(s), S)
    BY <1>3 DEF NodesCome
<1>5. append = [m \in Node |-> [x \in Node |-> append[m][x]]]
    BY <1>1 DEF CallsOK
<1> HIDE DEF S
<1>6. CASE HandleAppend(n, p)
    <2> DEFINE q == append[p][n]
               t == Handled(s, q).state
    <2>1. /\ q.stage = "sent" /\ Becomes(n, t) /\ late' = late
          /\ \E a : a.stage # "sent" /\ append' = [append EXCEPT ![p][n] = a]
        <3>1. \A a0, a1, a2, a3, a4, a5, a6 :
                 [stage |-> "answered", asked |-> a0, term |-> a1, ok |-> a2, match |-> a3,
                  conflict |-> a4, fresh |-> a5].stage # "sent"
            OBVIOUS
        <3>2. Idle.stage # "sent"
            BY DEF Idle
        <3> QED BY <1>6, <3>1, <3>2, Zenon DEF HandleAppend
    <2>2. SentOK(h, n, q) /\ Comes(CallEntries(q), S)
        BY <1>1, <1>3, <2>1, SentFacts DEF CallsCome
    <2>3. Sendable(q) /\ q.term \in Nat
        BY <2>2, SentSendable
    <2>4. NodeEntries(t) \subseteq NodeEntries(s) \cup EntriesOf(q.entries)
        BY <1>2, <2>3, HandledFacts
    <2>5. Comes(NodeEntries(t), S)
        BY <1>4, <2>1, <2>2, <2>4 DEF Comes, CallEntries
    <2>6. PICK a : a.stage # "sent" /\ append' = [append EXCEPT ![p][n] = a]
        BY <2>1
    <2>7. CallsCome(append', S)
        <3> SUFFICES ASSUME NEW m \in Node, NEW x \in Node PROVE Comes(CallEntries(append'[m][x]), S)
            BY DEF CallsCome
        <3>1. append'[m][x] = IF m = p /\ x = n THEN a ELSE append[m][x]
            BY <1>5, <2>6
        <3>2. CallEntries(a) = {}
            BY <2>6 DEF CallEntries
        <3> QED BY <1>3, <3>1, <3>2 DEF CallsCome, Comes
    <2> HIDE DEF t, s
    <2> QED BY <1>1, <1>2, <1>3, <2>1, <2>5, <2>7, BecomesSpreads
<1>7. CASE OnAppendResp(n, p)
    <2> DEFINE a == append[n][p]
               calls == [append[n] EXCEPT ![p] = Idle]
               match == IF a.match > s.match[p] THEN a.match ELSE s.match[p]
               next == IF match + 1 > s.next[p] THEN match + 1 ELSE s.next[p]
               b == [s EXCEPT !.match[p] = match, !.next[p] = next]
               d == [s EXCEPT !.next[p] = NextAfter(s, p, a)]
               t == IF a.term > s.term THEN Follower(s, a.term)
                    ELSE IF ~Current(s, a) THEN s
                    ELSE IF ~a.ok THEN d ELSE Acked(n, s, p, a)
    <2>1. /\ a.stage = "answered" /\ Becomes(n, t) /\ late' = late
          /\ \E P : append' = [append EXCEPT ![n] = Sent(t, P, calls, Reading(n))]
        BY <1>7, Zenon DEF OnAppendResp
    <2>2. AnsweredOK(h, p, a)
        BY <1>1, <2>1, SentFacts
    <2>3. /\ a.term \in Nat /\ a.match \in Nat /\ a.conflict \in Nat
          /\ s.next \in [Node -> Nat \ {0}] /\ s.match \in [Node -> Nat]
        BY <1>2, <2>2, RaftFields DEF AnsweredOK
    <2>4. /\ match \in Nat /\ next \in Nat \ {0} /\ NextAfter(s, p, a) \in Nat \ {0}
        BY <2>3 DEF NextAfter
    <2>5. Acked(n, s, p, a) = AdvanceCommit(n, b)
        BY DEF Acked
    <2> HIDE DEF match, next
    <2>6. /\ b \in Raft /\ b.log = s.log /\ b.applied = s.applied
        BY <1>2, <2>3, <2>4 DEF Raft
    <2>7. /\ d \in Raft /\ d.log = s.log /\ d.applied = s.applied
        BY <1>2, <2>3, <2>4 DEF Raft
    <2> HIDE DEF b, d, s
    <2>8. Comes(NodeEntries(b), S) /\ Comes(NodeEntries(d), S)
        BY <1>4, <2>6, <2>7 DEF NodeEntries
    <2>9. Comes(NodeEntries(Acked(n, s, p, a)), S) /\ Acked(n, s, p, a) \in Raft
        BY <2>5, <2>6, <2>8, CommitEntries DEF Comes
    <2>10. Comes(NodeEntries(t), S) /\ t \in Raft
        BY <1>2, <1>4, <2>3, <2>7, <2>8, <2>9, FollowerComes, FollowerFields
    <2> HIDE DEF t
    <2>11. \A x \in Node : Comes(CallEntries(calls[x]), S)
        <3> SUFFICES ASSUME NEW x \in Node PROVE Comes(CallEntries(calls[x]), S)
            OBVIOUS
        <3>1. calls[x] = IF x = p THEN Idle ELSE append[n][x]
            BY <1>5
        <3>2. CallEntries(Idle) = {}
            BY DEF CallEntries, Idle
        <3> QED BY <1>3, <3>1, <3>2 DEF CallsCome, Comes
    <2>12. PICK P : append' = [append EXCEPT ![n] = Sent(t, P, calls, Reading(n))]
        BY <2>1
    <2> HIDE DEF calls
    <2>13. CallsCome(append', S)
        BY <1>1, <1>3, <2>10, <2>11, <2>12, SentComes
    <2> QED BY <1>1, <1>2, <1>3, <2>1, <2>10, <2>13, BecomesSpreads
<1>8. CASE AppendTimesOut(n, p)
    <2> DEFINE q == append[n][p]
    <2>1. /\ q.stage = "sent" /\ append' = [append EXCEPT ![n][p] = Idle]
          /\ late' = late \cup {[to |-> p, call |-> q]} /\ node' = node /\ client' = client
        BY <1>8 DEF AppendTimesOut
    <2>2. CallsCome(append', S)
        <3> SUFFICES ASSUME NEW m \in Node, NEW x \in Node PROVE Comes(CallEntries(append'[m][x]), S)
            BY DEF CallsCome
        <3>1. append'[m][x] = IF m = n /\ x = p THEN Idle ELSE append[m][x]
            BY <1>5, <2>1
        <3>2. CallEntries(Idle) = {}
            BY DEF CallEntries, Idle
        <3> QED BY <1>3, <3>1, <3>2 DEF CallsCome, Comes
    <2>3. LateComes(late', S)
        <3>1. Comes(CallEntries(q), S) /\ CallEntries(q) = EntriesOf(q.entries)
            BY <1>3, <2>1 DEF CallsCome, CallEntries
        <3> QED BY <1>3, <2>1, <3>1 DEF LateComes
    <2> QED BY <1>2, <2>1, <2>2, <2>3, CallsSpread
<1> QED BY <1>6, <1>7, <1>8

\* A request that comes late.
LEMMA LateSpreads ==
    ASSUME NEW h, RaftOK(h, node, disk, append, late, ballots, client, read), NEW q \in late,
           HandleLate(q)
    PROVE  Spreads
<1> DEFINE S == Carried(node, append, late)
           n == q.to
           s == node[n]
           t == Handled(s, q.call).state
<1>1. /\ NodesOK(h, node) /\ Core(h, Terms(node), Logs(node)) /\ LateOK(h, late)
    BY DEF RaftOK
<1>2. n \in Node /\ SentOK(h, n, q.call)
    BY <1>1 DEF LateOK
<1>3. s \in Raft /\ Sound(s) /\ S = Carried(node, append, late)
    BY <1>1, <1>2, NodeSound
<1>4. NodesCome(node, S) /\ CallsCome(append, S) /\ LateComes(late, S)
    BY ComesSelf
<1>5. Comes(NodeEntries(s), S) /\ Comes(EntriesOf(q.call.entries), S)
    BY <1>2, <1>4 DEF NodesCome, LateComes
<1>6. Becomes(n, t) /\ append' = append /\ late' = late \ {q}
    BY DEF HandleLate
<1>7. Sendable(q.call) /\ q.call.term \in Nat
    BY <1>2, SentSendable
<1>8. NodeEntries(t) \subseteq NodeEntries(s) \cup EntriesOf(q.call.entries)
    BY <1>3, <1>7, HandledFacts
<1>9. Comes(NodeEntries(t), S)
    BY <1>5, <1>8 DEF Comes
<1>10. LateComes(late', S)
    BY <1>4, <1>6 DEF LateComes
<1> HIDE DEF S, t, n, s
<1> QED BY <1>1, <1>2, <1>3, <1>4, <1>6, <1>9, <1>10, BecomesSpreads

\* A restart: the log loads as it was, and nothing is applied yet.
LEMMA RestartSpreads ==
    ASSUME NEW h, RaftOK(h, node, disk, append, late, ballots, client, read), NEW n \in Node,
           Restart(n), Whole(disk[n].wal)
    PROVE  Spreads
<1> DEFINE S == Carried(node, append, late)
           s == node[n]
           t == Fresh(s.term, s.voted, s.log)
<1>1. /\ NodesOK(h, node) /\ Core(h, Terms(node), Logs(node)) /\ DiskOK(node, disk)
    BY DEF RaftOK
<1>2. s \in Raft /\ node \in [Node -> Raft] /\ \A i \in 1 .. Len(s.log) : s.log[i].index = i
    BY <1>1, NodeFacts
<1>3. NodesCome(node, S) /\ CallsCome(append, S) /\ LateComes(late, S)
    BY ComesSelf
<1>4. Comes(NodeEntries(s), S)
    BY <1>3 DEF NodesCome
<1> HIDE DEF S
<1>5. /\ late' = late
      /\ append' = [m \in Node |-> [p \in Node |-> IF n \in {m, p} THEN Idle ELSE append[m][p]]]
      /\ client' = [c \in Cmd |-> IF \E w \in node[n].waiters : w.cmd = c THEN "unknown" ELSE client[c]]
    BY DEF Restart
<1>9. node' = [node EXCEPT ![n] = t]
    BY <1>1, RestartLoads
<1>10. t.log = s.log /\ t.applied = <<>>
    BY DEF Fresh
<1> HIDE DEF t, s
<1>11. EntriesOf(<<>>) = {}
    BY DEF EntriesOf
<1>12. Comes(NodeEntries(t), S)
    BY <1>4, <1>10, <1>11 DEF NodeEntries, Comes
<1>13. NodesCome(node', S)
    BY <1>2, <1>3, <1>9, <1>12, NodeComes
<1>14. CallsCome(append', S)
    <2>1. CallEntries(Idle) = {}
        BY DEF CallEntries, Idle
    <2>2. \A m, p \in Node : append'[m][p] = Idle \/ append'[m][p] = append[m][p]
        BY <1>5
    <2>3. Comes({}, S)
        BY DEF Comes
    <2> QED BY <1>3, <2>1, <2>2, <2>3, Zenon DEF CallsCome
<1>15. Comes(Carried(node', append', late'), S)
    BY <1>3, <1>5, <1>13, <1>14, CarriedComes
<1>16. \A c \in Cmd : client[c] # "new" => client'[c] # "new"
    BY <1>5
<1> QED BY <1>15, <1>16 DEF Spreads, S

\* A node that proposes has one entry more, and nothing it waited for is refused.
LEMMA ProposedFacts ==
    ASSUME NEW s \in Raft, Sound(s), Len(s.applied) <= Len(s.log), NEW n, NEW c \in Cmd,
           NEW t, t = AdvanceCommit(n, Proposed(s, c))
    PROVE  /\ t \in Raft /\ NodeEntries(t) \subseteq NodeEntries(s) \cup {NewEntry(s, c)}
           /\ Tells(s, t)
<1> DEFINE e == NewEntry(s, c)
           w0 == [index |-> Len(s.log) + 1, term |-> s.term, cmd |-> c]
           log == Append(s.log, e)
           p == Proposed(s, c)
<1>1. /\ s.log \in Seq(Entry) /\ Len(s.log) \in Nat /\ s.term \in Nat /\ s.waiters \in SUBSET Waiter
      /\ s.applied \in Seq(Entry) /\ Len(s.applied) \in Nat
    BY RaftFields
<1>2. /\ e \in Entry /\ log \in Seq(Entry) /\ EntriesOf(log) \subseteq EntriesOf(s.log) \cup {e}
    BY ProposedEntries
<1>3. /\ Len(log) = Len(s.log) + 1 /\ log[Len(s.log) + 1] = e
      /\ \A i \in 1 .. Len(s.log) : log[i] = s.log[i]
    BY <1>1, <1>2, AppendFacts
<1>4. w0 \in Waiter
    BY <1>1 DEF Waiter
<1>5. p = [s EXCEPT !.log = log, !.waiters = s.waiters \cup {w0}]
    BY DEF Proposed, Raft
<1>6. e.term = s.term
    BY DEF NewEntry
<1>7. w0.index = Len(s.log) + 1 /\ w0.term = s.term
    OBVIOUS
<1> HIDE DEF log, w0, e
<1>8. s.waiters \cup {w0} \in SUBSET Waiter
    BY <1>1, <1>4
<1>9. p \in Raft /\ p.log = log /\ p.waiters = s.waiters \cup {w0} /\ p.applied = s.applied
    BY <1>2, <1>5, <1>8 DEF Raft
<1> HIDE DEF p
<1>10. NodeEntries(p) \subseteq NodeEntries(s) \cup {e}
    BY <1>2, <1>9 DEF NodeEntries
<1>11. AdvanceCommit(n, p) \in Raft /\ NodeEntries(AdvanceCommit(n, p)) \subseteq NodeEntries(p)
    BY <1>9, CommitEntries
<1>12. Sound(p)
    <2> SUFFICES ASSUME NEW w \in p.waiters
                 PROVE  /\ w.index \in 1 .. Len(log) /\ log[w.index].term = w.term
                        /\ w.index <= Len(s.applied) => s.applied[w.index] = log[w.index]
        BY <1>9 DEF Sound
    <2>1. CASE w \in s.waiters
        <3>1. /\ w.index \in 1 .. Len(s.log) /\ s.log[w.index].term = w.term
              /\ w.index <= Len(s.applied) => s.applied[w.index] = s.log[w.index]
            BY <2>1 DEF Sound
        <3> QED BY <1>1, <1>3, <3>1
    <2>2. CASE w = w0
        <3>1. w.index = Len(s.log) + 1 /\ w.term = s.term
            BY <1>7, <2>2
        <3> QED BY <1>1, <1>3, <1>6, <3>1
    <2> QED BY <1>9, <2>1, <2>2
<1>13. Tells(p, AdvanceCommit(n, p))
    BY <1>9, <1>12, CommitTells
<1> QED BY <1>9, <1>10, <1>11, <1>13 DEF Tells, p, e

\* A proposal keeps every command in one entry.
LEMMA ProposeOnce ==
    ASSUME NEW h, RaftOK(h, node, disk, append, late, ballots, client, read), NEW n \in Node,
           NEW c \in Cmd, Propose(n, c), OnceInv
    PROVE  OnceInv'
<1> DEFINE S == Carried(node, append, late)
           s == node[n]
           e == NewEntry(s, c)
           t == AdvanceCommit(n, Proposed(s, c))
           R == S \cup {e}
<1>1. /\ NodesOK(h, node) /\ Core(h, Terms(node), Logs(node)) /\ CallsOK(h, append)
    BY DEF RaftOK
<1>2. s \in Raft /\ Sound(s) /\ node \in [Node -> Raft] /\ Len(s.applied) <= Len(s.log)
    BY <1>1, NodeSound
<1>3. NodesCome(node, S) /\ CallsCome(append, S) /\ LateComes(late, S) /\ Once(S, client)
    BY ComesSelf DEF OnceInv
<1>4. t \in Raft /\ NodeEntries(t) \subseteq NodeEntries(s) \cup {e}
    BY <1>2, ProposedFacts
<1>5. e.cmd = c
    BY DEF NewEntry
<1>6. /\ node' = [node EXCEPT ![n] = t] /\ Sends(n, t, Peers(n)) /\ late' = late /\ client[c] = "new"
      /\ client' = [Told(s, t) EXCEPT ![c] = IF \E w \in t.waiters : w.cmd = c THEN "waiting" ELSE "ok"]
    BY DEF Propose, Proposed
<1> HIDE DEF S, s, e, t
<1>7. NodesCome(node, R) /\ CallsCome(append, R) /\ LateComes(late, R)
    BY <1>3 DEF NodesCome, CallsCome, LateComes, Comes
<1>8. Comes(NodeEntries(t), R)
    BY <1>4, <1>7 DEF NodesCome, Comes, s
<1> HIDE DEF R
<1>9. NodesCome(node', R)
    BY <1>2, <1>6, <1>7, <1>8, NodeComes
<1>10. CallsCome(append', R)
    BY <1>1, <1>4, <1>6, <1>7, <1>8, SendsComes
<1>11. Comes(Carried(node', append', late'), R)
    BY <1>6, <1>7, <1>9, <1>10, CarriedComes
<1>12. \A d \in Cmd : d = c \/ client[d] # "new" => client'[d] # "new"
    BY <1>6, ToldLater DEF Told
<1>13. Once(R, client')
    <2> SUFFICES ASSUME NEW x \in R, NEW y \in R, x.cmd \in Cmd
                 PROVE  client'[x.cmd] # "new" /\ (x.cmd = y.cmd => x = y)
        BY DEF Once
    <2>1. ASSUME NEW z \in S, z.cmd \in Cmd PROVE client[z.cmd] # "new" /\ z.cmd # c
        BY <1>3, <1>6, <2>1 DEF Once
    <2>2. client'[x.cmd] # "new"
        <3>1. client'[c] # "new"
            BY <1>6 DEF Told
        <3>2. CASE x \in S
            BY <1>12, <2>1, <3>2
        <3>3. CASE x = e
            BY <1>5, <3>1, <3>3
        <3> QED BY <3>2, <3>3 DEF R
    <2>3. ASSUME x.cmd = y.cmd PROVE x = y
        <3>1. CASE x \in S /\ y \in S
            BY <1>3, <2>3, <3>1 DEF Once
        <3>2. CASE x \notin S \/ y \notin S
            BY <1>5, <2>1, <2>3, <3>2 DEF R
        <3> QED BY <3>1, <3>2
    <2> QED BY <2>2, <2>3
<1>14. Once(Carried(node', append', late'), client')
    BY <1>11, <1>13, OnceComes
<1> QED BY <1>14 DEF OnceInv

\* The steps of which no entry of a client is new: all but a proposal.
LEMMA NextSpreads ==
    ASSUME NEW h, RaftOK(h, node, disk, append, late, ballots, client, read), Next, RestartsWhole
    PROVE  Spreads \/ \E n \in Node, c \in Cmd : Propose(n, c)
<1>1. ASSUME NEW n \in Node, \/ BecomeCandidate(n)
                              \/ \E q \in ballots : HandleVote(n, q) \/ OnVoteResp(n, q)
      PROVE  Spreads
    BY <1>1, BallotSpreads
<1>2. ASSUME NEW n \in Node, NEW p \in Peers(n),
             HandleAppend(n, p) \/ OnAppendResp(n, p) \/ AppendTimesOut(n, p)
      PROVE  Spreads
    BY <1>2, AppendSpreads DEF Peers
<1>3. ASSUME NEW n \in Node, Heartbeat(n) \/ StartRead(n) \/ ConfirmRead(n) \/ FinishRead(n)
      PROVE  Spreads
    BY <1>3, ReadSpreads
<1>4. ASSUME NEW n \in Node, Restart(n)
      PROVE  Spreads
    BY <1>4, RestartSpreads DEF RestartsWhole
<1>5. ASSUME NEW q \in late, HandleLate(q)
      PROVE  Spreads
    BY <1>5, LateSpreads
<1> QED BY <1>1, <1>2, <1>3, <1>4, <1>5, Zenon DEF Next

\* Every step keeps every command in one entry.
LEMMA OnceNext ==
    ASSUME NEW h, RaftOK(h, node, disk, append, late, ballots, client, read), Next, RestartsWhole,
           OnceInv
    PROVE  OnceInv'
<1>1. CASE Spreads
    <2>1. Once(Carried(node', append', late'), client')
        BY <1>1, OnceComes DEF Spreads, OnceInv
    <2> QED BY <2>1 DEF OnceInv
<1>2. ASSUME NEW n \in Node, NEW c \in Cmd, Propose(n, c) PROVE OnceInv'
    BY <1>2, ProposeOnce
<1> QED BY <1>1, <1>2, NextSpreads

\* Every command is in one entry, in every log, state machine and message it is in, whatever
\* is lost, delayed or resent.
THEOREM OnceAlways == Spec /\ [][RestartsWhole]_vars => [](IInv /\ OnceInv)
<1>1. Init => OnceInv
    <2> SUFFICES ASSUME Init PROVE OnceInv
        OBVIOUS
    <2>1. \A n \in Node : NodeEntries(node[n]) = {}
        BY DEF Init, Fresh, NodeEntries, EntriesOf
    <2>2. \A n, p \in Node : CallEntries(append[n][p]) = {}
        BY DEF Init, CallEntries, Idle
    <2>3. late = {}
        BY DEF Init
    <2>4. NodesCome(node, {}) /\ CallsCome(append, {}) /\ LateComes(late, {})
        BY <2>1, <2>2, <2>3 DEF NodesCome, CallsCome, LateComes, Comes
    <2>5. Comes(Carried(node, append, late), {})
        BY <2>4, CarriedComes
    <2>6. Once({}, client)
        BY DEF Once
    <2> QED BY <2>5, <2>6, OnceComes DEF OnceInv
<1>2. IInv /\ OnceInv /\ [Next]_vars /\ [RestartsWhole]_vars => OnceInv'
    <2> SUFFICES ASSUME IInv, OnceInv, [Next]_vars, [RestartsWhole]_vars PROVE OnceInv'
        OBVIOUS
    <2>1. PICK h : RaftOK(h, node, disk, append, late, ballots, client, read)
        BY RaftInvIs DEF IInv
    <2>2. CASE Next /\ RestartsWhole
        BY <2>1, <2>2, OnceNext
    <2>3. CASE UNCHANGED vars
        BY <2>3 DEF vars, OnceInv
    <2> QED BY <2>2, <2>3
<1> QED BY <1>1, <1>2, RaftIsInductive, PTL DEF Spec

\* Who tells every waiter that its command was applied refuses none.
LEMMA TellsRefusesNone ==
    ASSUME NEW h, NodesOK(h, node), NEW p \in Node, NEW t, Becomes(p, t), Tells(node[p], t),
           NEW n \in Node, NEW c \in Cmd
    PROVE  ~Refuses(n, c)
<1> SUFFICES ASSUME client'[c] = "not_applied",
                    NEW w \in node[n].waiters, w \notin node'[n].waiters, w.cmd = c
             PROVE  FALSE
    BY DEF Refuses
<1>1. node' = [node EXCEPT ![p] = t] /\ node \in [Node -> Raft] /\ client' = Told(node[p], t)
    BY DEF Becomes, NodesOK
<1>2. n = p /\ w \in node[p].waiters \ t.waiters
    BY <1>1
<1>3. w.index <= Len(t.applied) /\ t.applied[w.index].term = w.term
    BY <1>2 DEF Tells, ToldOk
<1> QED BY <1>1, <1>2, <1>3 DEF Told

\* A candidate that is elected tells its waiters the truth.
LEMMA ElectedTells ==
    ASSUME NEW s \in Raft, Sound(s), NEW n
    PROVE  Tells(s, Elected(n, s))
<1>1. CASE s.role = "candidate" /\ Quorum(s.votes)
    <2> DEFINE e == NewEntry(s, Noop)
               next == [p \in Node |-> Len(s.log) + 1]
               match == [p \in Node |-> 0]
               log == Append(s.log, e)
               b == [s EXCEPT !.role = "leader", !.votes = {}, !.next = next, !.match = match,
                              !.log = log]
    <2>1. Elected(n, s) = AdvanceCommit(n, b)
        BY <1>1 DEF Elected, Leader
    <2>2. log \in Seq(Entry) /\ e \in Entry
        BY ProposedEntries
    <2>3. Len(s.log) \in Nat /\ s.log \in Seq(Entry)
        BY RaftFields
    <2>4. next \in [Node -> Nat \ {0}] /\ match \in [Node -> Nat] /\ {} \in SUBSET Node
        BY <2>3
    <2>5. Len(log) = Len(s.log) + 1 /\ \A i \in 1 .. Len(s.log) : log[i] = s.log[i]
        BY <2>2, <2>3, AppendFacts
    <2> HIDE DEF next, match, log, e
    <2>6. b \in Raft /\ b.log = log /\ b.applied = s.applied /\ b.waiters = s.waiters
        BY <2>2, <2>4 DEF Raft
    <2> HIDE DEF b
    <2>7. Sound(b)
        BY <2>3, <2>5, <2>6 DEF Sound
    <2>8. Tells(b, AdvanceCommit(n, b))
        BY <2>6, <2>7, CommitTells
    <2> QED BY <2>1, <2>6, <2>8 DEF Tells
<1>2. CASE ~(s.role = "candidate" /\ Quorum(s.votes))
    BY <1>2 DEF Elected, Tells
<1> QED BY <1>1, <1>2

\* The steps of elections refuse nobody.
LEMMA BallotRefusesNone ==
    ASSUME NEW h, RaftOK(h, node, disk, append, late, ballots, client, read), NEW n \in Node,
           BecomeCandidate(n) \/ \E q \in ballots : HandleVote(n, q) \/ OnVoteResp(n, q),
           NEW m \in Node, NEW c \in Cmd
    PROVE  ~Refuses(m, c)
<1> DEFINE s == node[n]
<1>1. /\ NodesOK(h, node) /\ Core(h, Terms(node), Logs(node)) /\ BallotsOK(h, Terms(node), ballots)
    BY DEF RaftOK
<1>2. s \in Raft /\ Sound(s)
    BY <1>1, NodeSound
<1>3. CASE BecomeCandidate(n)
    <2> DEFINE t == [s EXCEPT !.term = s.term + 1, !.voted = n, !.role = "candidate", !.votes = {n}]
    <2>1. Becomes(n, t)
        BY <1>3 DEF BecomeCandidate
    <2>2. Tells(s, t)
        BY <1>2 DEF Tells, Raft
    <2> HIDE DEF t
    <2> QED BY <1>1, <2>1, <2>2, TellsRefusesNone
<1>4. ASSUME NEW q \in ballots, HandleVote(n, q) PROVE ~Refuses(m, c)
    <2> DEFINE f == IF q.term > s.term THEN Follower(s, q.term) ELSE s
               t == IF q.term >= f.term /\ MayVote(f, q) THEN [f EXCEPT !.voted = q.from] ELSE f
    <2>1. Becomes(n, t) /\ q.kind = "ask"
        BY <1>4 DEF HandleVote
    <2>2. q.term \in Nat
        BY <1>1, <2>1 DEF BallotsOK, BallotOK, AskOK
    <2>3. f.waiters = s.waiters /\ f \in Raft
        BY <1>2, <2>2, FollowerFields
    <2> HIDE DEF f
    <2>4. t.waiters = s.waiters
        BY <2>3 DEF Raft
    <2> HIDE DEF t
    <2>5. Tells(s, t)
        BY <2>4 DEF Tells
    <2> QED BY <1>1, <2>1, <2>5, TellsRefusesNone
<1>5. ASSUME NEW a \in ballots, OnVoteResp(n, a) PROVE ~Refuses(m, c)
    <2> DEFINE b == [s EXCEPT !.votes = @ \cup {a.from}]
               t == IF a.term > s.term THEN Follower(s, a.term)
                    ELSE IF s.role = "candidate" /\ a.asked = s.term /\ a.term = s.term /\ a.granted
                         THEN Elected(n, b)
                         ELSE s
    <2>1. Becomes(n, t) /\ a.kind = "answer"
        BY <1>5 DEF OnVoteResp
    <2>2. a.term \in Nat /\ a.from \in Node
        BY <1>1, <2>1 DEF BallotsOK, BallotOK, AnswerOK
    <2>3. b \in Raft /\ b.log = s.log /\ b.applied = s.applied /\ b.waiters = s.waiters
        BY <1>2, <2>2 DEF Raft
    <2> HIDE DEF b
    <2>4. Sound(b)
        BY <1>2, <2>3 DEF Sound
    <2>5. Tells(s, Elected(n, b))
        BY <2>3, <2>4, ElectedTells DEF Tells
    <2>6. Tells(s, Follower(s, a.term)) /\ Tells(s, s)
        BY <1>2, <2>2, FollowerFields DEF Tells
    <2>7. Tells(s, t)
        BY <2>5, <2>6
    <2> HIDE DEF t
    <2> QED BY <1>1, <2>1, <2>7, TellsRefusesNone
<1> QED BY <1>3, <1>4, <1>5

\* Nor does a leader that hears of an answer.
LEMMA RespRefusesNone ==
    ASSUME NEW h, RaftOK(h, node, disk, append, late, ballots, client, read), NEW n \in Node,
           NEW p \in Node, OnAppendResp(n, p), NEW m \in Node, NEW c \in Cmd
    PROVE  ~Refuses(m, c)
<1> DEFINE s == node[n]
           a == append[n][p]
           match == IF a.match > s.match[p] THEN a.match ELSE s.match[p]
           next == IF match + 1 > s.next[p] THEN match + 1 ELSE s.next[p]
           b == [s EXCEPT !.match[p] = match, !.next[p] = next]
           d == [s EXCEPT !.next[p] = NextAfter(s, p, a)]
           t == IF a.term > s.term THEN Follower(s, a.term)
                ELSE IF ~Current(s, a) THEN s
                ELSE IF ~a.ok THEN d ELSE Acked(n, s, p, a)
<1>1. /\ NodesOK(h, node) /\ Core(h, Terms(node), Logs(node)) /\ CallsOK(h, append)
    BY DEF RaftOK
<1>2. s \in Raft /\ Sound(s)
    BY <1>1, NodeSound
<1>3. a.stage = "answered" /\ Becomes(n, t)
    BY Zenon DEF OnAppendResp
<1>4. AnsweredOK(h, p, a)
    BY <1>1, <1>3, SentFacts
<1>5. /\ a.term \in Nat /\ a.match \in Nat /\ a.conflict \in Nat
      /\ s.next \in [Node -> Nat \ {0}] /\ s.match \in [Node -> Nat]
    BY <1>2, <1>4, RaftFields DEF AnsweredOK
<1>6. match \in Nat /\ next \in Nat \ {0}
    BY <1>5
<1>7. Acked(n, s, p, a) = AdvanceCommit(n, b)
    BY DEF Acked
<1> HIDE DEF match, next
<1>8. b \in Raft /\ b.log = s.log /\ b.applied = s.applied /\ b.waiters = s.waiters
    BY <1>2, <1>5, <1>6 DEF Raft
<1>9. d.waiters = s.waiters
    BY <1>2 DEF Raft
<1> HIDE DEF b, d
<1>10. Sound(b)
    BY <1>2, <1>8 DEF Sound
<1>11. Tells(s, Acked(n, s, p, a))
    BY <1>7, <1>8, <1>10, CommitTells DEF Tells
<1>12. Tells(s, Follower(s, a.term)) /\ Tells(s, s) /\ Tells(s, d)
    BY <1>2, <1>5, <1>9, FollowerFields DEF Tells
<1>13. Tells(s, t)
    BY <1>11, <1>12
<1> HIDE DEF t
<1> QED BY <1>1, <1>3, <1>13, TellsRefusesNone

\* A proposal refuses nobody.
LEMMA ProposeRefusesNone ==
    ASSUME NEW h, RaftOK(h, node, disk, append, late, ballots, client, read), NEW n \in Node,
           NEW d \in Cmd, Propose(n, d), NEW m \in Node, NEW c \in Cmd
    PROVE  ~Refuses(m, c)
<1> DEFINE s == node[n]
           t == AdvanceCommit(n, Proposed(s, d))
<1>1. NodesOK(h, node) /\ Core(h, Terms(node), Logs(node))
    BY DEF RaftOK
<1>2. s \in Raft /\ Sound(s) /\ node \in [Node -> Raft] /\ Len(s.applied) <= Len(s.log)
    BY <1>1, NodeSound
<1>3. /\ node' = [node EXCEPT ![n] = t]
      /\ client' = [Told(s, t) EXCEPT ![d] = IF \E w \in t.waiters : w.cmd = d THEN "waiting" ELSE "ok"]
    BY DEF Propose, Proposed
<1>4. Tells(s, t)
    BY <1>2, ProposedFacts
<1> HIDE DEF t
<1> SUFFICES ASSUME client'[c] = "not_applied",
                    NEW w \in node[m].waiters, w \notin node'[m].waiters, w.cmd = c
             PROVE  FALSE
    BY DEF Refuses
<1>5. m = n /\ w \in s.waiters \ t.waiters
    BY <1>2, <1>3
<1>6. w.index <= Len(t.applied) /\ t.applied[w.index].term = w.term
    BY <1>4, <1>5 DEF Tells, ToldOk
<1>7. Told(s, t)[c] = "ok"
    BY <1>5, <1>6 DEF Told
<1> QED BY <1>3, <1>7 DEF Told

\* Nor does a node that restarts: whoever waited is not answered.
LEMMA RestartRefusesNone ==
    ASSUME NEW h, RaftOK(h, node, disk, append, late, ballots, client, read), NEW n \in Node,
           Restart(n), NEW m \in Node, NEW c \in Cmd
    PROVE  ~Refuses(m, c)
<1>1. node \in [Node -> Raft]
    BY DEF RaftOK, NodesOK
<1>2. /\ node' = [node EXCEPT ![n] = Fresh(disk[n].term, disk[n].voted, Loaded(disk'[n].wal))]
      /\ client' = [d \in Cmd |-> IF \E w \in node[n].waiters : w.cmd = d THEN "unknown" ELSE client[d]]
    BY DEF Restart
<1> SUFFICES ASSUME client'[c] = "not_applied",
                    NEW w \in node[m].waiters, w \notin node'[m].waiters, w.cmd = c
             PROVE  FALSE
    BY DEF Refuses
<1>3. m = n
    BY <1>1, <1>2
<1> QED BY <1>2, <1>3

\* Node n handles q, under way or late, in this step.
Handles(h, n, q) == SentOK(h, n, q) /\ Becomes(n, Handled(node[n], q).state)

\* Who refuses handles a request.
LEMMA RefusesWhen ==
    ASSUME NEW h, RaftOK(h, node, disk, append, late, ballots, client, read), Next,
           NEW n \in Node, NEW c \in Cmd, Refuses(n, c)
    PROVE  \E q : Handles(h, n, q)
<1>1. NodesOK(h, node) /\ CallsOK(h, append) /\ LateOK(h, late) /\ node \in [Node -> Raft]
    BY DEF RaftOK, NodesOK
<1>2. node' # node
    BY DEF Refuses
<1>3. ASSUME NEW p \in Node, NEW t, node' = [node EXCEPT ![p] = t] PROVE p = n
    BY <1>1, <1>3 DEF Refuses
<1>4. ASSUME NEW m \in Node, NEW p \in Node, HandleAppend(m, p) PROVE \E q : Handles(h, n, q)
    <2>1. append[p][m].stage = "sent" /\ Becomes(m, Handled(node[m], append[p][m]).state)
        BY <1>4 DEF HandleAppend
    <2>2. SentOK(h, m, append[p][m])
        BY <1>1, <2>1, SentFacts
    <2>3. m = n
        BY <1>3, <2>1 DEF Becomes
    <2> QED BY <2>1, <2>2, <2>3 DEF Handles
<1>5. ASSUME NEW q \in late, HandleLate(q) PROVE \E r : Handles(h, n, r)
    <2>1. /\ q.to \in Node /\ SentOK(h, q.to, q.call)
          /\ Becomes(q.to, Handled(node[q.to], q.call).state)
        BY <1>1, <1>5 DEF LateOK, HandleLate
    <2>2. q.to = n
        BY <1>3, <2>1 DEF Becomes
    <2> QED BY <2>1, <2>2 DEF Handles
<1>6. ASSUME NEW m \in Node, NEW p \in Peers(m),
             OnAppendResp(m, p) \/ AppendTimesOut(m, p)
      PROVE  FALSE
    BY <1>2, <1>6, RespRefusesNone DEF AppendTimesOut, Peers
<1>7. ASSUME NEW m \in Node, \/ BecomeCandidate(m)
                              \/ \E q \in ballots : HandleVote(m, q) \/ OnVoteResp(m, q)
      PROVE  FALSE
    BY <1>7, BallotRefusesNone
<1>8. ASSUME NEW m \in Node, Heartbeat(m) \/ StartRead(m) \/ ConfirmRead(m) \/ FinishRead(m)
      PROVE  FALSE
    BY <1>2, <1>8 DEF Heartbeat, StartRead, ConfirmRead, FinishRead
<1>9. ASSUME NEW m \in Node, Restart(m) \/ \E d \in Cmd : Propose(m, d)
      PROVE  FALSE
    BY <1>9, RestartRefusesNone, ProposeRefusesNone
<1> QED BY <1>4, <1>5, <1>6, <1>7, <1>8, <1>9, Zenon DEF Next, Peers

\* An entry that a request replaces is in the state machine of no node that has not left the
\* request's term behind.
LEMMA RefusalIsTrue ==
    ASSUME NEW h, RaftOK(h, node, disk, append, late, ballots, client, read), OnceInv, Spreads,
           NEW n \in Node, NEW q, Handles(h, n, q), NEW c \in Cmd, Refuses(n, c),
           NEW m \in Node, node'[m].term <= node'[n].term, c \in Effects(node'[m])
    PROVE  FALSE
<1> DEFINE s == node[n]
           r == Handled(s, q)
           t == r.state
           S == Carried(node, append, late)
           cut == q.prev + Have(s.log, q)
<1>1. /\ NodesOK(h, node) /\ Core(h, Terms(node), Logs(node)) /\ SentOK(h, n, q)
    BY DEF RaftOK, Handles
<1>2. /\ At(h, Terms(node), Logs(node), n, s) /\ h \in History /\ s \in Raft /\ Sound(s)
      /\ node \in [Node -> Raft]
    BY <1>1, NodeFacts, NodeSound
<1>3. node' = [node EXCEPT ![n] = t] /\ client' = Told(s, t)
    BY DEF Handles, Becomes
<1>4. r = Handled(s, q)
    OBVIOUS
<1> HIDE DEF r
<1>5. PICK g : Moves(h, g, Terms(node), Logs(node), n, s, t)
    BY <1>1, <1>2, <1>4, HandledOK
<1>6. Moved(h, g, n, t, node, node')
    BY <1>1, <1>3, <1>5, NodesMove
<1>7. PICK w \in s.waiters \ t.waiters : w.cmd = c /\ ~ToldOk(w, t)
    <2>1. node'[n] = t
        BY <1>2, <1>3
    <2>2. PICK w \in s.waiters \ t.waiters : w.cmd = c
        BY <2>1 DEF Refuses
    <2>3. Told(s, t)[c] = "not_applied"
        BY <1>3 DEF Refuses
    <2>4. ~ToldOk(w, t)
        BY <2>2, <2>3 DEF Told, ToldOk
    <2> QED BY <2>2, <2>4
<1> DEFINE i == w.index
           l == s.log
           K == h.log[q.term]
           H == g.log[q.term]
<1>8. Sendable(q) /\ q.term \in Nat
    BY <1>1, SentSendable
<1>9. /\ Refusable(s, q, w) /\ t.term = q.term /\ q.prev <= Len(l) /\ TermAt(l, q.prev) = q.prevTerm
    BY <1>2, <1>4, <1>7, <1>8, HandledFacts
<1>10. /\ g \in History /\ Longer(h, g) /\ Core(g, Terms(node'), Logs(node')) /\ NodesOK(g, node')
    BY <1>5, <1>6 DEF Moves, Moved, Extends
<1>11. Grown(h, K) /\ Grown(h, l) /\ Grown(g, H) /\ K # <<>>
    <2>1. Logs(node)[n] = l
        BY DEF Logs
    <2> QED BY <1>1, <1>8, <1>10, <2>1 DEF Core, LeadersLogs, NodesLogs, SentOK
<1>12. /\ l \in Seq(Entry) /\ K \in Seq(Entry) /\ H \in Seq(Entry) /\ Len(l) \in Nat
       /\ Len(K) \in Nat /\ Len(H) \in Nat /\ q.prev \in Nat /\ Len(q.entries) \in Nat
    BY <1>8, <1>11, LenProperties DEF Grown, Sendable
<1>13. Shares(H, K, Len(K))
    BY <1>8, <1>10 DEF Longer
<1>14. /\ i \in 1 .. Len(l) /\ l[i].cmd = c /\ l[i].index = i
    BY <1>1, <1>2, <1>7, <1>11 DEF At, NodeOK, Waits, Grown
<1>15. /\ cut \in Nat /\ cut < i /\ cut + 1 <= Len(K) /\ l[cut + 1] # K[cut + 1]
    <2>1. Fits(q, K, l)
        BY <1>1, <1>9, <1>12 DEF Fits, SentOK
    <2>2. Becoming(Replaced(l, q), l, K, q, Have(l, q))
        BY <1>2, <1>11, <2>1, ReplacedFacts
    <2>3. /\ Have(l, q) \in Nat /\ Have(l, q) # Len(q.entries) /\ i > cut
          /\ Have(l, q) < Len(q.entries)
        BY <1>9, <1>12, <2>2 DEF Refusable, Becoming
    <2>4. q.prev + Len(q.entries) <= Len(K)
        BY <1>1 DEF SentOK
    <2>5. cut \in Nat /\ cut < i /\ cut + 1 <= Len(K) /\ cut < Len(l)
        <3> DEFINE k == Have(l, q)
                   E == Len(q.entries)
                   M == Len(K)
                   L == Len(l)
        <3>1. /\ k \in Nat /\ E \in Nat /\ M \in Nat /\ L \in Nat /\ q.prev \in Nat /\ k < E /\ i > q.prev + k
              /\ q.prev + E <= M /\ i \in 1 .. L
            BY <1>12, <1>14, <2>3, <2>4
        <3> HIDE DEF k, E, M, L, i
        <3>2. q.prev + k \in Nat /\ q.prev + k < i /\ q.prev + k + 1 <= M /\ q.prev + k < L
            BY <3>1
        <3> QED BY <3>2 DEF k, M, L
    <2> QED BY <2>2, <2>3, <2>5 DEF Becoming
<1>16. l[cut + 1] # H[cut + 1] /\ H # <<>>
    <2>1. cut + 1 \in 1 .. Len(K)
        BY <1>12, <1>15
    <2> QED BY <1>12, <1>13, <1>15, <2>1 DEF Shares
<1> DEFINE a == node'[m].applied
           v == node'[m].term
<1>17. PICK j \in DOMAIN a : a[j].cmd = c
    BY DEF Effects
<1>18. /\ node'[m] \in Raft /\ a \in Seq(Entry) /\ v \in Nat /\ Len(a) \in Nat
       /\ Settled(g, v, a, Len(a)) /\ v <= q.term
    <2>1. node'[m] \in Raft /\ Applies(g, node'[m])
        BY <1>10 DEF NodesOK, NodeOK
    <2>2. node'[n] = t
        BY <1>2, <1>3
    <2> QED BY <1>9, <2>1, <2>2, RaftFields DEF Applies
<1> HIDE DEF t, cut, a, v, l, K, H, i, s
<1>19. Shares(H, a, Len(a))
    BY <1>8, <1>10, <1>16, <1>18, SettledInLeader DEF H
<1>20. j \in 1 .. Len(a) /\ H[j] = a[j] /\ j \in 1 .. Len(H)
    BY <1>12, <1>17, <1>18, <1>19 DEF Shares
<1>21. a[j] = l[i]
    <2>1. a[j] \in NodeEntries(node'[m]) /\ l[i] \in NodeEntries(node[n])
        BY <1>14, <1>20 DEF NodeEntries, EntriesOf, a, l, s
    <2>2. l[i] \in S
        BY <2>1 DEF Carried
    <2>3. a[j] \in S
        <3>1. a[j] \in Carried(node', append', late')
            BY <2>1 DEF Carried
        <3> QED BY <1>17, <3>1, KVAssumption DEF Spreads, Comes
    <2> HIDE DEF S
    <2>4. Once(S, client)
        BY DEF OnceInv, S
    <2> QED BY <1>14, <1>17, <2>2, <2>3, <2>4 DEF Once
<1>22. i = j
    BY <1>11, <1>14, <1>20, <1>21 DEF Grown
<1>23. Grown(g, l)
    BY <1>2, <1>10, <1>11, GrownLonger
<1>24. Shares(l, H, i)
    <2>1. i \in Nat /\ i >= 1 /\ i <= Len(l) /\ i <= Len(H) /\ l[i].term = H[i].term
        BY <1>12, <1>14, <1>20, <1>21, <1>22
    <2> QED BY <1>10, <1>11, <1>23, <2>1, Matching
<1>25. cut + 1 \in 1 .. i
    BY <1>12, <1>14, <1>15
<1> QED BY <1>16, <1>24, <1>25 DEF Shares

\* A client that is refused is told the truth: when a node answers 409 applied:false no node
\* has applied the command, but for one in a later term than that node has heard of; for any
\* number of nodes, any losses, delays and retries, and crashes, in the middle of an append too, of
\* nodes whose log is whole.
THEOREM RefusalsAreTrueAlways == Spec /\ [][RestartsWhole]_vars => RefusalsAreTrue
<1> DEFINE A == \A m, n \in Node, c \in Cmd :
                   Refuses(n, c) /\ node'[m].term <= node'[n].term => c \notin Effects(node'[m])
<1>1. IInv /\ OnceInv /\ [Next]_vars /\ [RestartsWhole]_vars => [A]_vars
    <2> SUFFICES ASSUME IInv, OnceInv, Next, RestartsWhole, NEW m \in Node, NEW n \in Node, NEW c \in Cmd,
                        Refuses(n, c), node'[m].term <= node'[n].term, c \in Effects(node'[m])
                 PROVE  FALSE
        OBVIOUS
    <2>1. PICK h : RaftOK(h, node, disk, append, late, ballots, client, read)
        BY RaftInvIs DEF IInv
    <2>2. Spreads
        BY <2>1, NextSpreads, ProposeRefusesNone
    <2>3. PICK q : Handles(h, n, q)
        BY <2>1, RefusesWhen
    <2> QED BY <2>1, <2>2, <2>3, RefusalIsTrue
<1> QED BY <1>1, OnceAlways, PTL DEF Spec, RefusalsAreTrue

====
