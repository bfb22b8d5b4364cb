------------------------------- MODULE KVRaft -------------------------------
(***************************************************************************)
(* The KV fixture, testdata/kvfixture: Raft with its write-ahead log       *)
(* (internal/raft), the write and read paths of the server and what a      *)
(* client is told (internal/kv).                                           *)
(*                                                                         *)
(* A peer RPC is one goroutine: at most one AppendEntries from a node to a *)
(* peer is in flight.  It may time out at its sender with the request      *)
(* still on its way.  Election timeouts are drawn: one may expire at any    *)
(* time.  The read lease, whose length is the fixture's planted bug, is    *)
(* left out: reads go through ReadIndex.                                   *)
(***************************************************************************)
EXTENDS Integers, Sequences, FiniteSets, TLC

CONSTANTS
    Node, Nobody,
    Cmd,           \* the commands clients propose, each once
    Noop,          \* an entry without data
    MaxTerm,       \* bound: elections
    MaxCrashes,    \* bound: crashes
    MaxCalls,      \* bound: calls, timeouts and crashes; other calls fail at once
    MaxReads,      \* bound: reads
    MaxEntries,    \* entries in one AppendEntries
    TornTails      \* may a crash in the middle of an append tear the log's tail?

ASSUME KVAssumption ==
    /\ IsFiniteSet(Node) /\ Nobody \notin Node /\ Noop \notin Cmd
    /\ {MaxTerm, MaxCrashes, MaxCalls, MaxReads, MaxEntries} \subseteq Nat
    /\ TornTails \in BOOLEAN

VARIABLES
    node,      \* a Raft each: see Fresh
    disk,      \* state.json and wal.jsonl of each
    append,    \* the AppendEntries in flight, or its answer, for each pair
    late,      \* requests whose sender has given up on them
    ballots,   \* RequestVote requests and answers
    client,    \* what the client of each command was told
    read,      \* the read each node serves: see StartRead
    spent      \* what of the bounds is used up

vars == <<node, disk, append, late, ballots, client, read, spent>>

Torn == [index |-> 0, term |-> 0, cmd |-> Noop]       \* the fragment of a record
Idle == [stage |-> "idle"]
NoRead == [stage |-> "none"]

Quorum(S) == 2 * Cardinality(S) > Cardinality(Node)
Peers(n) == Node \ {n}

Least(i, j) == IF i < j THEN i ELSE j

-----------------------------------------------------------------------------
(* Logs.                                                                   *)

LastTerm(l) == IF l = <<>> THEN 0 ELSE l[Len(l)].term
HasEntry(l, i) == i <= Len(l)
TermAt(l, i) == IF i = 0 THEN 0 ELSE l[i].term
FirstIndexOfTerm(l, t) == CHOOSE i \in 1..Len(l) : l[i].term = t /\ \A j \in 1..(i - 1) : l[j].term # t

UpToDate(l, index, term) ==
    \/ term > LastTerm(l)
    \/ term = LastTerm(l) /\ index >= Len(l)

\* LoadEntries: up to the first record that does not parse or does not follow.
\* What is appended behind a torn tail begins on the same line as the tail.
Loaded(wal) ==
    SubSeq(wal, 1, CHOOSE k \in 0..Len(wal) :
                       /\ \A i \in 1..k : wal[i].index = i
                       /\ k < Len(wal) => wal[k + 1].index # k + 1)

\* The write-ahead log when the log in memory goes from old to new: the records
\* behind a conflict are cut by rewriting what loads, the new ones are appended.
\* Mutant of Stored: entries that replace others are not written.
StoredTail(wal, old, new) ==
    wal \o (IF Len(new) > Len(old) THEN SubSeq(new, Len(old) + 1, Len(new)) ELSE <<>>)

Stored(wal, old, new) ==
    LET kept == CHOOSE k \in 0..Least(Len(old), Len(new)) :
                    /\ SubSeq(old, 1, k) = SubSeq(new, 1, k)
                    /\ k < Least(Len(old), Len(new)) => old[k + 1] # new[k + 1]
    IN  (IF kept = Len(old) THEN wal ELSE SubSeq(Loaded(wal), 1, Least(kept, Len(Loaded(wal)))))
            \o SubSeq(new, kept + 1, Len(new))

-----------------------------------------------------------------------------
(* What a node does to its own state; s and t are its record before and    *)
(* after.                                                                  *)

Fresh(term, voted, log) ==
    [term |-> term, voted |-> voted, log |-> log,
     role |-> "follower", commit |-> 0, applied |-> <<>>,
     votes |-> {}, next |-> [p \in Node |-> 1], match |-> [p \in Node |-> 0],
     waiters |-> {}]

\* becomeFollower.  What only a leader or a candidate reads, and resets when it
\* becomes one, is forgotten.
Follower(s, t) ==
    [Fresh(t, IF t # s.term THEN Nobody ELSE s.voted, s.log) EXCEPT
        !.commit = s.commit, !.applied = s.applied, !.waiters = s.waiters]

\* applyCommitted: the state machine is the sequence of the entries applied.
ApplyCommitted(s) ==
    LET last == Least(s.commit, Len(s.log))
    IN  [s EXCEPT !.applied = s.applied \o SubSeq(s.log, Len(s.applied) + 1, last),
                  !.waiters = {w \in s.waiters : w.index > last}]

\* maybeAdvanceCommit: only entries of the leader's own term count replicas.
Commits(n, s) ==
    {i \in (s.commit + 1)..Len(s.log) :
        s.log[i].term = s.term /\ Quorum({n} \cup {p \in Peers(n) : s.match[p] >= i})}

AdvanceCommit(n, s) ==
    IF s.role # "leader" \/ Commits(n, s) = {} THEN s
    ELSE ApplyCommitted([s EXCEPT !.commit = CHOOSE i \in Commits(n, s) :
                                                 \A j \in Commits(n, s) : j <= i])

NewEntry(s, c) == [index |-> Len(s.log) + 1, term |-> s.term, cmd |-> c]

\* becomeLeader: a no-op entry of its own term.
Leader(n, s) ==
    AdvanceCommit(n, [s EXCEPT !.role = "leader", !.votes = {},
                               !.next = [p \in Node |-> Len(s.log) + 1],
                               !.match = [p \in Node |-> 0],
                               !.log = Append(s.log, NewEntry(s, Noop))])

\* Mutant of Told: the last entry applied does not count.
ToldShort(s, t) ==
    [c \in Cmd |->
        IF \E w \in s.waiters \ t.waiters :
              w.cmd = c /\ w.index < Len(t.applied) /\ t.applied[w.index].term = w.term THEN "ok"
        ELSE IF \E w \in s.waiters \ t.waiters : w.cmd = c THEN "not_applied"
        ELSE client[c]]

\* What clients are told as s becomes t: their command was applied, or its entry
\* was replaced.
Told(s, t) ==
    [c \in Cmd |->
        IF \E w \in s.waiters \ t.waiters :
              w.cmd = c /\ w.index <= Len(t.applied) /\ t.applied[w.index].term = w.term THEN "ok"
        ELSE IF \E w \in s.waiters \ t.waiters : w.cmd = c THEN "not_applied"
        ELSE client[c]]

\* Node n goes to state t, persisted before anything is sent or answered.
Becomes(n, t) ==
    /\ node' = [node EXCEPT ![n] = t]
    /\ disk' = [disk EXCEPT ![n] = [term |-> t.term, voted |-> t.voted,
                                    wal |-> Stored(disk[n].wal, node[n].log, t.log)]]
    /\ client' = Told(node[n], t)

\* sendAppendLocked to the peers in P: nothing to one whose last call has not
\* returned.  fresh: sent since the read in progress began.
Sent(s, P, calls, fresh) ==
    [p \in Node |->
        IF p \notin P \/ calls[p].stage # "idle" \/ s.role # "leader" THEN calls[p]
        ELSE LET from == IF HasEntry(s.log, s.next[p] - 1) THEN s.next[p] ELSE 1
             IN  [stage |-> "sent", term |-> s.term, prev |-> from - 1,
                  prevTerm |-> TermAt(s.log, from - 1),
                  entries |-> SubSeq(s.log, from, Least(Len(s.log), from + MaxEntries - 1)),
                  commit |-> s.commit, fresh |-> fresh]]

Reading(n) == read[n].stage = "confirm"

Calls(Q) ==
    /\ spent.calls + Cardinality(Q) <= MaxCalls
    /\ spent' = [spent EXCEPT !.calls = @ + Cardinality(Q)]

\* A call, or its answer, that is lost has failed at once.
Sends(n, t, P) ==
    \E Q \in SUBSET {p \in P : append[n][p] = Idle} :
        /\ Calls(Q)
        /\ append' = [append EXCEPT ![n] = Sent(t, Q, append[n], Reading(n))]

-----------------------------------------------------------------------------
Init ==
    /\ node = [n \in Node |-> Fresh(0, Nobody, <<>>)]
    /\ disk = [n \in Node |-> [term |-> 0, voted |-> Nobody, wal |-> <<>>]]
    /\ append = [n \in Node |-> [p \in Node |-> Idle]]
    /\ late = {} /\ ballots = {}
    /\ client = [c \in Cmd |-> "new"]
    /\ read = [n \in Node |-> NoRead]
    /\ spent = [calls |-> 0, reads |-> 0, crashes |-> 0]

\* onTick of a leader.
Heartbeat(n) ==
    /\ node[n].role = "leader"
    /\ Sends(n, node[n], Peers(n))
    /\ UNCHANGED <<node, disk, late, ballots, client, read>>

Elected(n, s) == IF s.role = "candidate" /\ Quorum(s.votes) THEN Leader(n, s) ELSE s

\* onTick of the others, when the drawn timeout has expired.
BecomeCandidate(n) ==
    LET s == node[n]
        c == [s EXCEPT !.term = s.term + 1, !.voted = n, !.role = "candidate", !.votes = {n}]
    IN  /\ s.role # "leader" /\ s.term < MaxTerm
        /\ Becomes(n, c)
        /\ \E Q \in SUBSET Peers(n) :
              /\ Calls(Q)
              /\ ballots' = ballots \cup
                    {[kind |-> "ask", from |-> n, to |-> p, term |-> c.term,
                      index |-> Len(s.log), last |-> LastTerm(s.log)] : p \in Q}
        /\ UNCHANGED <<append, late, read>>

\* Mutant of MayVote: whoever asks first, whatever the log.
MayVoteAnyone(s, q) == s.voted \in {Nobody, q.from}

MayVote(s, q) == s.voted \in {Nobody, q.from} /\ UpToDate(s.log, q.index, q.last)

HandleVote(n, q) ==
    LET s == IF q.term > node[n].term THEN Follower(node[n], q.term) ELSE node[n]
        granted == q.term >= s.term /\ MayVote(s, q)
    IN  /\ q.kind = "ask" /\ q.to = n
        /\ Becomes(n, IF granted THEN [s EXCEPT !.voted = q.from] ELSE s)
        /\ \/ ballots' = (ballots \ {q}) \cup
                 {[kind |-> "answer", from |-> n, to |-> q.from, asked |-> q.term,
                   term |-> s.term, granted |-> granted]}
           \/ ballots' = ballots \ {q}                \* the answer is lost
        /\ UNCHANGED <<append, late, read, spent>>

OnVoteResp(n, a) ==
    LET s == node[n]
        t == IF a.term > s.term THEN Follower(s, a.term)
             ELSE IF s.role = "candidate" /\ a.asked = s.term /\ a.term = s.term /\ a.granted
                  THEN Elected(n, [s EXCEPT !.votes = @ \cup {a.from}])
                  ELSE s
    IN  /\ a.kind = "answer" /\ a.to = n
        /\ Becomes(n, t)
        /\ ballots' = ballots \ {a}
        /\ IF s.role # "leader" /\ t.role = "leader" THEN Sends(n, t, Peers(n)) ELSE UNCHANGED <<append, spent>>
        /\ UNCHANGED <<late, read>>

\* The entries of q that the log has already.
Have(l, q) == CHOOSE k \in 0..Len(q.entries) :
    /\ \A i \in 1..k : HasEntry(l, q.prev + i) /\ l[q.prev + i].term = q.entries[i].term
    /\ k < Len(q.entries) =>
         ~(HasEntry(l, q.prev + k + 1) /\ l[q.prev + k + 1].term = q.entries[k + 1].term)

\* The log and the commit index after a request that fits.
Appended(s, q) ==
    LET k == Have(s.log, q)
        cut == q.prev + k
        match == q.prev + Len(q.entries)
        t == IF k = Len(q.entries) THEN s
             ELSE [s EXCEPT !.log = SubSeq(s.log, 1, cut) \o SubSeq(q.entries, k + 1, Len(q.entries)),
                            !.waiters = {w \in s.waiters : w.index <= cut}]
    IN  IF q.commit > t.commit THEN ApplyCommitted([t EXCEPT !.commit = Least(q.commit, match)]) ELSE t

\* HandleAppend: the state and the answer.
Handled(old, q) ==
    LET s == IF q.term > old.term \/ old.role # "follower"
             THEN Follower(old, q.term) ELSE old
        No(t, conflict) == [state |-> t, term |-> t.term, ok |-> FALSE, match |-> 0, conflict |-> conflict]
    IN  IF q.term < old.term THEN No(old, 0)
        ELSE IF ~HasEntry(s.log, q.prev) THEN No(s, Len(s.log) + 1)
        ELSE IF TermAt(s.log, q.prev) # q.prevTerm
             THEN No(s, FirstIndexOfTerm(s.log, TermAt(s.log, q.prev)))
        ELSE IF LET cut == q.prev + Have(s.log, q)
                IN  Have(s.log, q) < Len(q.entries) /\ cut < Len(s.log) /\ cut + 1 <= s.commit
             THEN No(s, 0)                             \* the safety canary
        ELSE LET t == Appended(s, q)
             IN  [state |-> t, term |-> t.term, ok |-> TRUE,
                  match |-> q.prev + Len(q.entries), conflict |-> 0]

HandleAppend(n, from) ==
    LET q == append[from][n]
        h == Handled(node[n], q)
    IN  /\ q.stage = "sent"
        /\ Becomes(n, h.state)
        /\ \/ append' = [append EXCEPT ![from][n] =
                 [stage |-> "answered", asked |-> q.term, term |-> h.term, ok |-> h.ok,
                  match |-> h.match, conflict |-> h.conflict, fresh |-> q.fresh]]
           \/ append' = [append EXCEPT ![from][n] = Idle]     \* the answer is lost
        /\ UNCHANGED <<late, ballots, read, spent>>

\* A request arrives whose sender has given up.
HandleLate(q) ==
    /\ q \in late
    /\ Becomes(q.to, Handled(node[q.to], q.call).state)
    /\ late' = late \ {q}
    /\ UNCHANGED <<append, ballots, read, spent>>

NextAfter(s, p, a) ==
    IF a.conflict > 0 /\ a.conflict < s.next[p] THEN a.conflict
    ELSE IF s.next[p] > 1 THEN s.next[p] - 1 ELSE 1

Current(s, a) == s.role = "leader" /\ a.asked = s.term /\ a.term = s.term

\* An ack as onAppendResp takes it.
Acked(n, s, p, a) ==
    LET match == IF a.match > s.match[p] THEN a.match ELSE s.match[p]
        next == IF match + 1 > s.next[p] THEN match + 1 ELSE s.next[p]
    IN  AdvanceCommit(n, [s EXCEPT !.match[p] = match, !.next[p] = next])

OnAppendResp(n, p) ==
    LET s == node[n]
        a == append[n][p]
        calls == [append[n] EXCEPT ![p] = Idle]
        t == IF a.term > s.term THEN Follower(s, a.term)
             ELSE IF ~Current(s, a) THEN s
             ELSE IF ~a.ok THEN [s EXCEPT !.next[p] = NextAfter(s, p, a)]
             ELSE Acked(n, s, p, a)
        more == Current(s, a) /\ (~a.ok \/ Len(t.log) >= t.next[p])
    IN  /\ a.stage = "answered"
        /\ Becomes(n, t)
        /\ \E P \in SUBSET (IF more THEN {p} ELSE {}) :
              Calls(P) /\ append' = [append EXCEPT ![n] = Sent(t, P, calls, Reading(n))]
        /\ read' = IF Reading(n) /\ Current(s, a) /\ a.ok /\ a.fresh
                   THEN [read EXCEPT ![n].acks = @ \cup {p}] ELSE read
        /\ UNCHANGED <<late, ballots>>

\* The timeout of the RPC: the request is on its way still.
AppendTimesOut(n, p) ==
    /\ append[n][p].stage = "sent"
    /\ append' = [append EXCEPT ![n][p] = Idle]
    /\ late' = late \cup {[to |-> p, call |-> append[n][p]]}
    /\ Calls({p})
    /\ UNCHANGED <<node, disk, ballots, client, read>>

\* Server.propose and Raft.Propose.  A client that stops waiting is one that is
\* told nothing: its command may still commit.
Propose(n, c) ==
    LET s == node[n]
        t == AdvanceCommit(n, [s EXCEPT !.log = Append(s.log, NewEntry(s, c)),
                 !.waiters = @ \cup {[index |-> Len(s.log) + 1, term |-> s.term, cmd |-> c]}])
    IN  /\ s.role = "leader" /\ client[c] = "new"
        /\ node' = [node EXCEPT ![n] = t]
        /\ disk' = [disk EXCEPT ![n].wal = Stored(disk[n].wal, s.log, t.log)]
        /\ client' = [Told(s, t) EXCEPT ![c] = IF \E w \in t.waiters : w.cmd = c THEN "waiting" ELSE "ok"]
        /\ Sends(n, t, Peers(n))
        /\ UNCHANGED <<late, ballots, read>>

-----------------------------------------------------------------------------
(* Reads.                                                                  *)

Effects(s) == {c \in Cmd : \E i \in DOMAIN s.applied : s.applied[i].cmd = c}
Acknowledged == {c \in Cmd : client[c] = "ok"}

MayRead(s) == s.role = "leader" /\ TermAt(s.log, s.commit) = s.term

\* Mutant of StartRead: a leader trusts its role.
StartReadUnconfirmed(n) ==
    /\ MayRead(node[n]) /\ read[n] = NoRead /\ spent.reads < MaxReads /\ Acknowledged # {}
    /\ read' = [read EXCEPT ![n] = [stage |-> "apply", term |-> node[n].term,
                                    index |-> node[n].commit, floor |-> Acknowledged, acks |-> {}]]
    /\ spent' = [spent EXCEPT !.reads = @ + 1]
    /\ UNCHANGED <<node, disk, append, late, ballots, client>>

\* ReadIndex up to its round of heartbeats.  floor is what the client could know; only
\* a read with something to miss is of interest.
StartRead(n) ==
    LET old == [p \in Node |-> IF append[n][p].stage = "idle" THEN Idle
                               ELSE [append[n][p] EXCEPT !.fresh = FALSE]]
    IN  /\ MayRead(node[n]) /\ read[n] = NoRead /\ spent.reads < MaxReads /\ Acknowledged # {}
        /\ read' = [read EXCEPT ![n] = [stage |-> "confirm", term |-> node[n].term,
                                        index |-> node[n].commit, floor |-> Acknowledged, acks |-> {}]]
        /\ \E P \in SUBSET {p \in Peers(n) : old[p] = Idle} :
              /\ spent.calls + Cardinality(P) <= MaxCalls
              /\ spent' = [spent EXCEPT !.calls = @ + Cardinality(P), !.reads = @ + 1]
              /\ append' = [append EXCEPT ![n] = Sent(node[n], P, old, TRUE)]
        /\ UNCHANGED <<node, disk, late, ballots, client>>

\* A live majority has acknowledged a request sent since the read began.
ConfirmRead(n) ==
    /\ Reading(n)
    /\ node[n].role = "leader" /\ node[n].term = read[n].term /\ Quorum({n} \cup read[n].acks)
    /\ read' = [read EXCEPT ![n].stage = "apply"]
    /\ UNCHANGED <<node, disk, append, late, ballots, client, spent>>

\* WaitApplied and localRead: what it answers is Effects(node[n]).  A read that
\* fails, or whose client goes, is one that does not finish.
FinishRead(n) ==
    /\ read[n].stage = "apply" /\ Len(node[n].applied) >= read[n].index
    /\ read' = [read EXCEPT ![n] = NoRead]
    /\ UNCHANGED <<node, disk, append, late, ballots, client, spent>>

-----------------------------------------------------------------------------
(* Crashes.                                                                *)

\* Something n might be writing to its log.
Appending(n) == \/ node[n].role = "leader"
                \/ \E p \in Peers(n) : append[p][n].stage = "sent" /\ append[p][n].entries # <<>>

\* A crash, and New and Run: term, vote and log are what loads.  A node that is
\* down for a while is one that takes no step for a while.
Restart(n) ==
    /\ spent.crashes < MaxCrashes /\ spent.calls < MaxCalls
    /\ spent' = [spent EXCEPT !.crashes = @ + 1, !.calls = @ + 1]
    /\ disk' \in {disk} \cup (IF TornTails /\ Appending(n)
                             THEN {[disk EXCEPT ![n].wal = Append(@, Torn)]} ELSE {})
    /\ node' = [node EXCEPT ![n] = Fresh(disk[n].term, disk[n].voted, Loaded(disk'[n].wal))]
    /\ client' = [c \in Cmd |-> IF \E w \in node[n].waiters : w.cmd = c THEN "unknown" ELSE client[c]]
    /\ append' = [m \in Node |-> [p \in Node |-> IF n \in {m, p} THEN Idle ELSE append[m][p]]]
    /\ ballots' = {q \in ballots : q.to # n}
    /\ read' = [read EXCEPT ![n] = NoRead]
    /\ UNCHANGED late

Next ==
    \/ \E n \in Node :
         \/ Heartbeat(n) \/ BecomeCandidate(n)
         \/ \E q \in ballots : HandleVote(n, q) \/ OnVoteResp(n, q)
         \/ \E p \in Peers(n) : HandleAppend(n, p) \/ OnAppendResp(n, p) \/ AppendTimesOut(n, p)
         \/ \E c \in Cmd : Propose(n, c)
         \/ StartRead(n) \/ ConfirmRead(n) \/ FinishRead(n)
         \/ Restart(n)
    \/ \E q \in late : HandleLate(q)

Spec == Init /\ [][Next]_vars

-----------------------------------------------------------------------------
(* Properties.                                                             *)

\* What one node has applied another has not applied differently.
StateMachinesAgree ==
    \A m, n \in Node :
        \A i \in 1..Least(Len(node[m].applied), Len(node[n].applied)) :
            node[m].applied[i] = node[n].applied[i]

\* When n answers 409 applied:false no node has applied the command, unless it is in a
\* later term than n, which n has not heard of.
Refuses(n, c) ==
    client'[c] = "not_applied" /\ \E w \in node[n].waiters \ node'[n].waiters : w.cmd = c

RefusalsAreTrue ==
    [][\A m, n \in Node, c \in Cmd :
           Refuses(n, c) /\ node'[m].term <= node'[n].term => c \notin Effects(node'[m])]_vars

\* What n is sure to have: what a restart would read, or, when a crash has torn its log and
\* nothing has rewritten it, what it has in memory until the next one.
Whole(wal) == \A i \in DOMAIN wal : wal[i].index = i
Held(n) == IF Whole(disk[n].wal) THEN Loaded(disk[n].wal) ELSE node[n].log

\* A command a client was told of is held by a majority.
AckedIsDurable ==
    \A c \in Acknowledged : Quorum({n \in Node : \E i \in DOMAIN Held(n) : Held(n)[i].cmd = c})

\* A read returns everything that was acknowledged before it began.
ReadsAreCurrent ==
    [][\A n \in Node : FinishRead(n) => read[n].floor \subseteq Effects(node[n])]_vars

\* Nothing in the code prefers one node to another.
Symmetry == Permutations(Node)
=============================================================================
