---------------------------- MODULE ClusterProbes ----------------------------
(***************************************************************************)
(* The questions put to a cluster: `role:` targets of a fault, bound by    *)
(* internal/perturber/resolve.go from an HTTP status page or from a        *)
(* target's own role probe (internal/control/roleprobe.go), and the probes *)
(* of targets/ that say a cluster is steady.  A probe asks the members one *)
(* after another, each may stay silent, and elections go on in between.    *)
(***************************************************************************)
EXTENDS Integers, Sequences, FiniteSets, FiniteSetsExt

CONSTANTS
    Probes,       \* the kinds of cluster asked
    Members,      \* how many members a cluster has, numbered from 0
    MaxTerm,      \* bound: elections won
    MaxAttempts   \* bound: attempts of a steady-state probe before its timeout

ASSUME ClusterProbesAssumption ==
    /\ Probes \subseteq {"status", "etcd", "rqlite", "consul", "redis"}
    /\ {Members, MaxTerm, MaxAttempts} \subseteq Nat \ {0}

VARIABLES
    probe, want,        \* the kind of cluster; what is asked of it
    group,              \* the members a static target is about
    term, names,        \* per member: its term, the leader it names
    master,             \* per redis server: whether it says it is the master
    winner,             \* who won each term
    phase, attempt,     \* start, asking, done; the attempt
    view,               \* the answers of this attempt, by question
    since, reigns,      \* the last term won before it began, the leaders since
    bound, outcome      \* the members a target was bound to; how it ended

probeVars == <<probe, want, group, term, names, master, winner, phase, attempt, view, since, reigns,
               bound, outcome>>

Member == 0 .. Members - 1
Nobody == -1
Latest == Len(winner)

-----------------------------------------------------------------------------
(* The cluster.  A raft leader is elected by a majority, each of which      *)
(* forgets the leader it had; a member elsewhere goes on as before until it *)
(* hears.  Redis Sentinel promotes a server, and the other Sentinels and    *)
(* the old master hear of it later.                                         *)

Majority(S) == 2 * Cardinality(S) > Members

Elect(m) ==
    /\ Latest < MaxTerm
    /\ winner' = Append(winner, m)
    /\ IF probe = "redis"
         THEN /\ \E s \in Member : /\ names' = [names EXCEPT ![s] = m]
                                   /\ term' = [term EXCEPT ![s] = Latest + 1]
              /\ master' = [master EXCEPT ![m] = TRUE]
         ELSE /\ \E S \in SUBSET Member :
                   /\ m \in S /\ Majority(S)
                   /\ term' = [x \in Member |-> IF x \in S THEN Latest + 1 ELSE term[x]]
                   /\ names' = [x \in Member |-> CASE x = m -> m [] x \in S \ {m} -> Nobody
                                                   [] OTHER -> names[x]]
              /\ UNCHANGED master
    /\ reigns' = reigns \cup {m}

Hears(x) ==
    \/ /\ \E t \in term[x] .. Latest :
            /\ t > term[x] \/ names[x] = Nobody
            /\ term' = [term EXCEPT ![x] = t]
            /\ names' = [names EXCEPT ![x] = winner[t]]
       /\ UNCHANGED master
    \/ /\ probe = "redis" /\ master[x] /\ winner[Latest] # x
       /\ master' = [master EXCEPT ![x] = FALSE] /\ UNCHANGED <<term, names>>

\* A member that restarts, or loses its followers, leads no more.
StepsDown(x) ==
    /\ probe # "redis" /\ names[x] = x
    /\ names' = [names EXCEPT ![x] = Nobody]
    /\ UNCHANGED <<term, master>>

ClusterMoves ==
    /\ phase # "done"
    /\ \E m \in Member : Elect(m) \/ ((Hears(m) \/ StepsDown(m)) /\ UNCHANGED <<winner, reigns>>)
    /\ UNCHANGED <<probe, want, group, phase, attempt, view, since, bound, outcome>>

-----------------------------------------------------------------------------
(* Asking.                                                                 *)

\* redis: every server, then the Sentinel beside each; otherwise every member.
Question == 0 .. (IF probe = "redis" THEN 2 * Members ELSE Members) - 1
Of(q) == q % Members
Servers == 0 .. Members - 1
Silent == [ok |-> "silent", leads |-> FALSE, names |-> Nobody, term |-> 0]
Odd == [Silent EXCEPT !.ok = "odd"]

\* A member that answers says what it knows.  What cannot be one view (two leaders
\* in a list, a run id of no server) is `odd`.
Answers(q) ==
    LET x == Of(q) IN
    {Silent, [ok |-> "yes", leads |-> IF probe = "redis" THEN master[x] ELSE names[x] = x,
              names |-> names[x], term |-> term[x]]}
    \cup IF probe \in {"rqlite", "consul"} \/ q >= Members THEN {Odd} ELSE {}

\* In the order of the ids, but for etcdsteady, which ranges over a map.
Unasked == Question \ DOMAIN view
NextAsked == IF probe = "etcd" /\ want = "steady" THEN Unasked ELSE {Min(Unasked)}

Live == {"leader", "follower", "steady"}
Begin ==
    /\ phase = "start" /\ want \in Live /\ phase' = "asking"
    /\ view' = <<>> /\ since' = Latest /\ reigns' = {winner[Latest]}
    /\ UNCHANGED <<probe, want, group, term, names, master, winner, attempt, bound, outcome>>

Ask ==
    /\ phase = "asking" /\ Unasked # {}
    /\ \E q \in NextAsked : \E a \in Answers(q) :
         view' = [i \in DOMAIN view \cup {q} |-> IF i = q THEN a ELSE view[i]]
    /\ UNCHANGED <<probe, want, group, term, names, master, winner, phase, attempt, since, reigns,
                   bound, outcome>>

Said(q) == q \in DOMAIN view /\ view[q].ok = "yes"
Missing(S) == \E q \in S : view[q].ok = "silent"

\* rqliteapi and consulapi: everyone who answered names the same leader.
Agree ==
    LET heard == {view[q].names : q \in {r \in Question : Said(r)}} IN
    IF \/ \E q \in Question : view[q].ok = "odd"
       \/ Cardinality(heard) # 1
      THEN Nobody
      ELSE CHOOSE l \in heard : TRUE

\* redisapi: so do the Sentinels, and that server alone says it is the master.
Sentinels == Question \ Servers
RedisAgree ==
    LET named == {view[q].names : q \in {r \in Sentinels : Said(r)}}
        masters == {x \in Servers : Said(x) /\ view[x].leads}
    IN IF \/ \E q \in Sentinels : view[q].ok = "odd"
          \/ Cardinality(named) # 1 \/ masters # named
         THEN Nobody
         ELSE CHOOSE l \in named : TRUE

-----------------------------------------------------------------------------
(* Roles: what a probe reports of each member, and who is bound.           *)

Unobserved == [role |-> "unobserved", term |-> 0]
StatusRole(x) ==
    IF ~Said(x) THEN Unobserved
    ELSE [role |-> CASE view[x].leads -> "leader" [] view[x].names = Nobody -> "candidate"
                     [] OTHER -> "follower",
          term |-> view[x].term]
EtcdRole(x) ==
    IF ~Said(x) \/ view[x].names = Nobody THEN Unobserved
    ELSE [role |-> IF view[x].leads THEN "leader" ELSE "follower", term |-> view[x].term]
Line(x, leader) ==
    IF ~Said(x) THEN Unobserved
    ELSE [role |-> IF x = leader THEN "leader" ELSE "follower", term |-> 0]

\* A probe that refuses prints nothing and exits non-zero; the whole resolution
\* fails with it.
RedisRole(x) == Line(x, RedisAgree)
RqliteRole(x) == Line(x, Agree)
ConsulRole(x) == Line(x, Agree)
Refuses == \/ probe = "redis" /\ RedisAgree = Nobody
           \/ probe \in {"rqlite", "consul"} /\ Agree = Nobody
ObserveRoles ==
    [x \in Member |-> CASE probe = "status" -> StatusRole(x) [] probe = "etcd" -> EtcdRole(x)
                        [] probe = "redis" -> RedisRole(x) [] probe = "rqlite" -> RqliteRole(x)
                        [] probe = "consul" -> ConsulRole(x)]

\* Mutant of MatchRole: every claimant, whatever the term of its claim.
MatchRoleAnyTerm(obs) == {x \in Member : obs[x].role = want}
\* The claimants of the highest term among those who claim the role.
MatchRole(obs) ==
    LET matched == {x \in Member : obs[x].role = want}
    IN {x \in matched : \A y \in matched : obs[y].term <= obs[x].term}

Conclude(b) ==
    /\ phase' = "done" /\ bound' = b
    /\ outcome' = IF b = {} THEN "refused" ELSE "bound"
    /\ UNCHANGED <<probe, want, group, term, names, master, winner, attempt, view, since, reigns>>

ResolveRole ==
    /\ phase = "asking" /\ want \in {"leader", "follower"} /\ Unasked = {}
    /\ Conclude(IF Refuses THEN {} ELSE MatchRole(ObserveRoles))

\* The other targets need no answer: a node, an edge and a wildcard are the
\* members they name, a quorum is drawn from its group.
QuorumSize(n, arg) ==
    CASE want = "minority" -> (n - 1) \div 2
      [] want = "majority" -> n \div 2 + 1
      [] want = "any" -> arg
ResolveStatic ==
    /\ phase = "start" /\ want \notin Live
    /\ IF want = "named" THEN Conclude(group)
       ELSE \E arg \in 1 .. Members :
              LET k == QuorumSize(Cardinality(group), arg) IN
              IF k \in 1 .. Cardinality(group)
                THEN \E picked \in kSubset(k, group) : Conclude(picked)
                ELSE Conclude({})

-----------------------------------------------------------------------------
(* Steadiness.  The spread of the logs, the list of voters and the state of *)
(* replication are left to chance (`whole`).                               *)

EtcdCheck == \E l \in Member, t \in 1 .. MaxTerm :
                 \A q \in Question : Said(q) /\ view[q].names = l /\ view[q].term = t
RqliteCheck == ~Missing(Question) /\ Agree # Nobody
ConsulCheck == ~Missing(Question) /\ Agree # Nobody
RedisCheck == ~Missing(Question) /\ RedisAgree # Nobody
Check ==
    CASE probe = "etcd" -> EtcdCheck [] probe = "rqlite" -> RqliteCheck
      [] probe = "consul" -> ConsulCheck [] probe = "redis" -> RedisCheck
Leader == CASE probe = "redis" -> RedisAgree [] probe = "etcd" -> view[0].names [] OTHER -> Agree

\* One more attempt after the interval, unless the timeout has passed.
Retry ==
    /\ phase' \in {"start", "done"} /\ (attempt = MaxAttempts => phase' = "done")
    /\ attempt' = IF phase' = "start" THEN attempt + 1 ELSE attempt
    /\ outcome' = IF phase' = "done" THEN "unsteady" ELSE outcome
    /\ UNCHANGED bound

JudgeSteady ==
    /\ phase = "asking" /\ want = "steady" /\ Unasked = {}
    /\ \/ /\ Check /\ phase' = "done" /\ outcome' = "steady" /\ bound' = {Leader}
          /\ UNCHANGED attempt
       \/ Retry
    /\ UNCHANGED <<probe, want, group, term, names, master, winner, view, since, reigns>>

\* etcdsteady returns at the first answer that will not do, and rqlitesteady
\* asks every member whether it is ready first.
NotSteady ==
    /\ want = "steady"
    /\ \/ probe = "rqlite" /\ phase = "start"
       \/ /\ probe = "etcd" /\ phase = "asking" /\ Unasked # {}
          /\ \E q \in DOMAIN view : ~Said(q) \/ view[q].names = Nobody
    /\ Retry
    /\ UNCHANGED <<probe, want, group, term, names, master, winner, view, since, reigns>>

\* The caller's own deadline: a role probe that does not answer in time fails the
\* resolution, a steady-state probe is killed.
Deadline ==
    /\ want \in Live /\ probe # "status" /\ phase # "done"
    /\ phase' = "done" /\ outcome' = IF want = "steady" THEN "unsteady" ELSE "refused"
    /\ UNCHANGED <<probe, want, group, term, names, master, winner, attempt, view, since, reigns,
                   bound>>

ProbeInit ==
    /\ probe \in Probes
    /\ want \in {"leader", "follower"} \cup (IF probe = "status" THEN {"named", "minority", "majority", "any"} ELSE {"steady"})
    /\ group \in IF want \in Live THEN {{}} ELSE SUBSET Member
    /\ term = [x \in Member |-> 1] /\ names = [x \in Member |-> 0]
    /\ master = [x \in Member |-> x = 0] /\ winner = <<0>>
    /\ phase = "start" /\ attempt = 1 /\ view = <<>>
    /\ since = 1 /\ reigns = {0} /\ bound = {} /\ outcome = "none"

ProbeStep ==
    Begin \/ Ask \/ ResolveRole \/ ResolveStatic \/ JudgeSteady \/ NotSteady \/ Deadline

ProbeNext == ProbeStep \/ ClusterMoves

ProbeSpec == ProbeInit /\ [][ProbeNext]_probeVars

-----------------------------------------------------------------------------
(* Properties.                                                             *)

\* A fault hits whom its target says, whatever the cluster does while it is
\* asked: `role:leader` is one member that said so itself and was in office while
\* it was asked, unless the leader who had deposed it could not be asked or led
\* no more; no `role:follower` said that it leads; a minority leaves a majority of
\* its group alone and a majority does not.  And the leader a steady cluster is
\* reported with was in office during that attempt, whoever was asked first.
TargetsAreAsNamed ==
    /\ outcome \in {"bound", "steady"} => bound # {}
    /\ outcome = "bound" /\ want = "leader" =>
         /\ Cardinality(bound) = 1
         /\ \A b \in bound :
              /\ Said(b) /\ view[b].leads
              /\ \/ b \in reigns
                 \/ LET w == winner[since] IN ~Said(w) \/ ~view[w].leads
    /\ outcome = "bound" /\ want = "follower" => \A b \in bound : Said(b) /\ ~view[b].leads
    /\ outcome = "bound" /\ want = "minority" => 2 * Cardinality(bound) < Cardinality(group)
    /\ outcome = "bound" /\ want = "majority" =>
         Cardinality(bound) = Min({n \in 1 .. Members : 2 * n > Cardinality(group)})
    /\ outcome = "steady" => bound \subseteq reigns /\ \A q \in Question : Said(q)
=============================================================================
