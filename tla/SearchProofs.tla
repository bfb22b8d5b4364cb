----------------------------- MODULE SearchProofs ----------------------------
(***************************************************************************)
(* Theorems about Search for any lanes, any budget of worlds, any sweep of *)
(* probes, trees of any shape and any way a world may end: the verdict is  *)
(* what the worlds made it, and a tree learns of each of its rollouts once.*)
(***************************************************************************)
EXTENDS Search, FiniteSetTheorems, SequenceTheorems, WellFoundedInduction, TLAPS

-----------------------------------------------------------------------------
(* The invariant.                                                          *)

\* The state of a tree, what a world is proposed for, and a world of a batch.
Tree == [expanded : SUBSET Node, pending : SUBSET Node, pruned : SUBSET Node,
         visits : [Node -> Nat], novel : [Node -> BOOLEAN], violations : [Node -> Nat]]

Proposal == [by : {"probe", "tree", "corpus"}, probe : Probe, node : Node \cup {0}]

World == [for : Proposal, is : Ends \cup {"proposed", "running", "canceled", "refused"},
          novel : BOOLEAN]

\* What the strategy is told of a rollout.
Reported == [novel : BOOLEAN, violations : {0, 1}, evaluable : BOOLEAN]

\* The strategy's variables, and the engine's.
StrategyInv ==
    /\ probeNext \in 0..(Probes + 1) /\ probeDone \in BOOLEAN
    /\ reinforcing \subseteq Probe
    /\ stage \in {"probe", "escalate", "mutate"} /\ escBuilt \in BOOLEAN
    /\ rotation \in Seq(Probe) /\ Len(rotation) <= MaxTrees
    /\ turn \in Nat /\ tried \in 0..MaxTrees
    /\ tree \in [Probe -> Tree]

EngineInv ==
    /\ narrowed \in BOOLEAN /\ canceled \in BOOLEAN /\ expired \in BOOLEAN
    /\ violation \in BOOLEAN /\ hit \in BOOLEAN /\ unrun \in BOOLEAN
    /\ pc \in {"loop", "propose", "run", "absorb", "decide", "done"}
    /\ ordinal \in 0..Worlds /\ started \in 0..Worlds
    /\ at \in 1..(Workers + 1) /\ retired \in 0..Workers
    /\ batch \in Seq(World) /\ Len(batch) <= Workers
    /\ \A i \in 1..Len(batch) : batch[i].for.by = "tree" => batch[i].for.node \in Node
    /\ runErr \in {"none", "preflight", "canceled", "exhausted"}
    /\ worst \in {"none", "pass", "canceled", "inconclusive", "harness_error", "violation"}
    /\ verdict \in {"none", "PASS", "FAIL", "INCONCLUSIVE", "BUDGET_EXHAUSTED"}

\* The worlds of the batch that the fold does not hold yet.
Waiting == {i \in 1..Len(batch) : pc = "absorb" => i >= at}

\* A batch exists from its first proposal to the end of its absorption; its worlds
\* are started in order, and all have ended before the first is absorbed.
BatchInv ==
    /\ pc \in {"loop", "decide", "done"} => batch = <<>>
    /\ pc = "propose" => \A i \in 1..Len(batch) : Is(i, "proposed")
    /\ pc = "run" => \A i, j \in 1..Len(batch) : i < j /\ Is(i, "proposed") => Is(j, "proposed")
    /\ pc = "absorb" => \A i \in 1..Len(batch) : ~Is(i, "proposed") /\ ~Is(i, "running")
    /\ pc = "run" => InFlight + retired <= Workers
    /\ ordinal = started + IF pc = "propose" THEN Len(batch) ELSE 0

\* What the fold stands for, and why the loop may end.
FoldInv ==
    /\ pc \in {"loop", "propose"} => runErr = "none"
    /\ pc \in {"loop", "propose", "run"} => ~violation
    /\ violation => worst = "violation"
    /\ pc # "done" => verdict = "none"
    /\ runErr = "exhausted" /\ pc # "done" =>
          \/ worst \in {"harness_error", "violation"}
          \/ \E i \in Waiting : Is(i, "refused")
    /\ pc # "done" =>
          (hit <=> \/ worst = "violation"
                   \/ \E i \in Waiting : batch[i].is \in {"violated", "glimpsed"})

\* What the verdict says once the search is over.
DoneInv ==
    pc = "done" => /\ verdict = "PASS" => started = Worlds
                   /\ verdict = "FAIL" <=> hit

\* The nodes a history has a rollout of.
Seen(h) == {n \in Node : h[n] # {}}

\* The histories are of finitely many rollouts; a schedule that is out is pending
\* in its tree, was never observed, and is out once.
HandedInv ==
    /\ told \in [Probe -> [Node -> SUBSET Reported]]
    /\ \A p \in Probe : IsFiniteSet(Seen(told[p]))
    /\ \A i \in Waiting : batch[i].for.by = "tree" =>
          /\ batch[i].for.node \in tree[batch[i].for.probe].pending
          /\ told[batch[i].for.probe][batch[i].for.node] = {}
          /\ \A j \in Waiting : batch[j].for = batch[i].for => j = i

IInv == /\ StrategyInv /\ EngineInv /\ BatchInv /\ FoldInv /\ DoneInv
        /\ HandedInv /\ EvidenceIsOwn

-----------------------------------------------------------------------------
(* The tree.                                                               *)

\* A nonempty set of numbers has a least one.
LEMMA LeastOf ==
    ASSUME NEW S, S \subseteq Nat, S # {}
    PROVE  \E s \in S : \A t \in S : s <= t
<1> DEFINE R == {ss \in Nat \X Nat : ss[1] < ss[2]}
<1>1. OpToRel(<, Nat) = R
    BY Zenon DEF OpToRel
<1>2. PICK s \in S : \A t \in S : <<t, s>> \notin R
    BY <1>1, NatLessThanWellFounded, WFMin
<1>3. ASSUME NEW t \in S PROVE s <= t
    <2>1. t \in Nat /\ s \in Nat
        OBVIOUS
    <2>2. <<t, s>> \in Nat \X Nat /\ <<t, s>>[1] = t /\ <<t, s>>[2] = s
        BY <2>1
    <2>3. ~(t < s)
        BY <1>2, <2>2
    <2> QED BY <2>1, <2>3
<1> QED BY <1>3

\* Nodes are numbered from the root on, a parent before its children.
LEMMA NodeOrder ==
    /\ Node \subseteq Nat \ {0} /\ Root \in Node
    /\ \A n \in Node \ {Root} : n \in DOMAIN Parent /\ Parent[n] \in Node /\ Parent[n] < n
BY TreeAssumption DEF Node, Root

\* What the root has, and what each other node makes of what its parent has.
Inherits(V, v, H) == v \in V /\ H \in [Node \X V -> V]
Inherited(V, v, H, f) ==
    /\ f \in [Node -> V]
    /\ \A n \in Node : f[n] = IF n = Root THEN v ELSE H[<<n, f[Parent[n]]>>]

\* It defines a function on the tree.
LEMMA TreeRecursion ==
    ASSUME NEW V, NEW v, NEW H, Inherits(V, v, H)
    PROVE  \E f : Inherited(V, v, H, f)
<1>0. v \in V /\ H \in [Node \X V -> V]
    BY DEF Inherits
<1> DEFINE Goes(f, n) == f[n] = IF n = Root THEN v ELSE H[<<n, f[Parent[n]]>>]
           Good(f, k) == f \in [Node -> V] /\ \A n \in Node : n <= k => Goes(f, n)
<1>1. ASSUME NEW k \in Nat, NEW l \in Nat, NEW f, NEW g, Good(f, k), Good(g, l)
      PROVE  \A n \in Node : n <= k /\ n <= l => f[n] = g[n]
    <2> DEFINE D == {n \in Node : n <= k /\ n <= l /\ f[n] # g[n]}
    <2>1. SUFFICES ASSUME D # {} PROVE FALSE
        OBVIOUS
    <2>2. PICK n \in D : \A m \in D : n <= m
        <3>1. D \subseteq Nat
            BY NodeOrder
        <3> QED BY <2>1, <3>1, LeastOf
    <2>3. n \in Node /\ n \in Nat /\ n <= k /\ n <= l /\ f[n] # g[n]
        BY NodeOrder
    <2>4. n # Root
        BY <1>1, <2>3
    <2>5. Parent[n] \in Node /\ Parent[n] \in Nat /\ Parent[n] < n
        BY <2>3, <2>4, NodeOrder
    <2>6. Parent[n] \notin D
        BY <2>2, <2>3, <2>5
    <2>7. f[Parent[n]] = g[Parent[n]]
        BY <2>3, <2>5, <2>6
    <2> QED BY <1>1, <2>3, <2>4, <2>7
<1>2. ASSUME NEW k \in Nat, NEW f, Good(f, k)
      PROVE  \E g : Good(g, k + 1)
    <2>1. CASE k + 1 \notin Node
        <3>1. \A n \in Node : n <= k + 1 => n <= k
            BY <2>1, NodeOrder
        <3> QED BY <1>2, <3>1
    <2>2. CASE k + 1 \in Node
        <3> DEFINE x == IF k + 1 = Root THEN v ELSE H[<<k + 1, f[Parent[k + 1]]>>]
                   g == [f EXCEPT ![k + 1] = x]
        <3>1. x \in V
            BY <1>0, <1>2, <2>2, NodeOrder
        <3>2. g \in [Node -> V] /\ g[k + 1] = x /\ \A n \in Node : n # k + 1 => g[n] = f[n]
            BY <1>2, <2>2, <3>1
        <3>3. ASSUME NEW n \in Node, n <= k + 1 PROVE Goes(g, n)
            <4>1. n \in Nat /\ (n # Root => Parent[n] \in Node /\ Parent[n] # k + 1)
                BY <3>3, NodeOrder
            <4>2. n # Root => g[Parent[n]] = f[Parent[n]]
                BY <3>2, <4>1
            <4>3. CASE n = k + 1
                BY <3>2, <4>2, <4>3
            <4>4. CASE n # k + 1
                <5>1. n <= k
                    BY <3>3, <4>1, <4>4
                <5>2. Goes(f, n)
                    BY <1>2, <5>1
                <5> QED BY <3>2, <4>2, <4>4, <5>2
            <4> QED BY <4>3, <4>4
        <3>4. Good(g, k + 1)
            BY <3>2, <3>3
        <3> HIDE DEF g
        <3> QED BY <3>4
    <2> QED BY <2>1, <2>2
<1>3. ASSUME NEW k \in Nat PROVE \E f : Good(f, k)
    <2> DEFINE B == {l \in Nat : ~\E f : Good(f, l)}
    <2>1. SUFFICES ASSUME B # {} PROVE FALSE
        OBVIOUS
    <2>2. PICK l \in B : \A m \in B : l <= m
        BY <2>1, LeastOf
    <2>3. CASE l = 0
        <3>1. [n \in Node |-> v] \in [Node -> V] /\ \A n \in Node : ~(n <= 0)
            BY <1>0, NodeOrder
        <3>2. Good([n \in Node |-> v], 0)
            BY <3>1
        <3> QED BY <2>2, <2>3, <3>2
    <2>4. CASE l # 0
        <3>1. l - 1 \in Nat /\ ~(l <= l - 1) /\ (l - 1) + 1 = l
            BY <2>4
        <3>2. l - 1 \notin B
            BY <2>2, <3>1
        <3>3. PICK f : Good(f, l - 1)
            BY <3>1, <3>2
        <3>4. \E g : Good(g, (l - 1) + 1)
            BY <1>2, <3>1, <3>3
        <3> QED BY <2>2, <3>1, <3>4
    <2> QED BY <2>3, <2>4
<1> DEFINE F(k) == CHOOSE f : Good(f, k)
           h == [n \in Node |-> F(n)[n]]
<1>4. \A k \in Nat : Good(F(k), k)
    BY <1>3
<1> HIDE DEF F
<1>5. ASSUME NEW n \in Node PROVE F(n)[n] \in V /\ Goes(F(n), n)
    BY <1>4, NodeOrder
<1>6. ASSUME NEW n \in Node, n # Root PROVE F(n)[Parent[n]] = F(Parent[n])[Parent[n]]
    <2>0. Parent[n] \in Node /\ Parent[n] < n /\ n \in Nat /\ Parent[n] \in Nat
        BY <1>6, NodeOrder
    <2>1. Parent[n] \in Node /\ n \in Nat /\ Parent[n] \in Nat
          /\ Parent[n] <= n /\ Parent[n] <= Parent[n]
        BY <2>0
    <2>2. Good(F(n), n) /\ Good(F(Parent[n]), Parent[n])
        BY <1>4, <2>1
    <2> HIDE DEF Good
    <2> QED BY <1>1, <2>1, <2>2
<1>7. h \in [Node -> V]
    BY <1>5
<1>8. ASSUME NEW n \in Node PROVE Goes(h, n)
    <2>1. h[n] = F(n)[n] /\ (n # Root => Parent[n] \in Node /\ h[Parent[n]] = F(Parent[n])[Parent[n]])
        BY NodeOrder
    <2> HIDE DEF h
    <2> QED BY <1>5, <1>6, <2>1
<1> HIDE DEF h
<1> QED BY <1>7, <1>8 DEF Inherited

\* A node's path is itself and its parent's path.
LEMMA PathUnfolds ==
    \A n \in Node : Path[n] = {n} \cup IF n = Root THEN {} ELSE Path[Parent[n]]
<1> DEFINE W == SUBSET Node
           K == [x \in Node \X W |-> {x[1]} \cup x[2]]
           Unrolled(f, n) == {n} \cup IF n = Root THEN {} ELSE f[Parent[n]]
           Unrolls(f) == f = [n \in Node |-> Unrolled(f, n)]
<1>1. K \in [Node \X W -> W] /\ {Root} \in W
    BY NodeOrder
<1>2. PICK f : Inherited(W, {Root}, K, f)
    <2> HIDE DEF K, W
    <2>1. Inherits(W, {Root}, K)
        BY <1>1 DEF Inherits
    <2> QED BY <2>1, TreeRecursion
<1>3. ASSUME NEW n \in Node PROVE f[n] = Unrolled(f, n)
    <2>1. CASE n = Root
        BY <1>2, <2>1 DEF Inherited
    <2>2. CASE n # Root
        <3>1. f[Parent[n]] \in SUBSET Node
            BY <2>2, <1>2, NodeOrder DEF Inherited
        <3>2. K[<<n, f[Parent[n]]>>] = {n} \cup f[Parent[n]]
            BY <3>1
        <3> QED BY <1>2, <2>2, <3>2 DEF Inherited
    <2> QED BY <2>1, <2>2
<1>4. Unrolls(f)
    <2> HIDE DEF Unrolled
    <2>1. f = [n \in Node |-> f[n]]
        BY <1>2 DEF Inherited
    <2>2. [n \in Node |-> f[n]] = [n \in Node |-> Unrolled(f, n)]
        BY <1>3, Zenon
    <2> QED BY <2>1, <2>2, Zenon
<1>5. Path = CHOOSE g : Unrolls(g)
    BY Zenon DEF Path
<1>6. Unrolls(Path)
    BY <1>4, <1>5, Zenon
<1> QED BY <1>6

\* The descent reaches a node only where its parent selects it.
LEMMA ReachedIsSelected ==
    ASSUME NEW t, NEW n \in Reached(t), n # Root
    PROVE  n \in Node /\ Parent[n] \in Node /\ n \in Selected(t, Parent[n])
<1> DEFINE Goes(m) == Descended(t, Parent[m]) /\ m \in Selected(t, Parent[m])
           K == [x \in Node \X BOOLEAN |-> x[2] /\ Goes(x[1])]
           Unrolled(r, m) == m = Root \/ /\ r[Parent[m]]
                                         /\ Descended(t, Parent[m])
                                         /\ m \in Selected(t, Parent[m])
           Unrolls(r) == r = [m \in Node |-> Unrolled(r, m)]
<1>1. K \in [Node \X BOOLEAN -> BOOLEAN] /\ TRUE \in BOOLEAN
    OBVIOUS
<1>2. PICK r : Inherited(BOOLEAN, TRUE, K, r)
    <2> HIDE DEF K
    <2>1. Inherits(BOOLEAN, TRUE, K)
        BY <1>1 DEF Inherits
    <2> QED BY <2>1, TreeRecursion
<1>3. ASSUME NEW m \in Node PROVE r[m] = Unrolled(r, m)
    <2>1. CASE m = Root
        BY <1>2, <2>1 DEF Inherited
    <2>2. CASE m # Root
        <3>1. r[Parent[m]] \in BOOLEAN
            BY <2>2, <1>2, NodeOrder DEF Inherited
        <3>2. <<m, r[Parent[m]]>> \in Node \X BOOLEAN
            BY <3>1
        <3>3. K[<<m, r[Parent[m]]>>] = (r[Parent[m]] /\ Goes(m))
            BY <3>2, Zenon
        <3> QED BY <1>2, <2>2, <3>3 DEF Inherited
    <2> QED BY <2>1, <2>2
<1>4. Unrolls(r)
    <2> HIDE DEF Unrolled
    <2>1. r = [m \in Node |-> r[m]]
        BY <1>2 DEF Inherited
    <2>2. [m \in Node |-> r[m]] = [m \in Node |-> Unrolled(r, m)]
        BY <1>3, Zenon
    <2> QED BY <2>1, <2>2, Zenon
<1> DEFINE q == CHOOSE s : Unrolls(s)
<1>5. Reached(t) = {m \in Node : q[m]}
    BY Zenon DEF Reached
<1>6. Unrolls(q)
    BY <1>4, Zenon
<1> HIDE DEF q
<1>7. n \in Node /\ q[n]
    BY <1>5
<1>8. q[n] = Unrolled(q, n)
    <2> HIDE DEF Unrolled
    <2> QED BY <1>6, <1>7
<1> QED BY <1>7, <1>8, NodeOrder

\* A path is of nodes, and the node is on it.
LEMMA PathIn == \A n \in Node : Path[n] \subseteq Node /\ n \in Path[n]
<1> DEFINE D == {n \in Node : ~(Path[n] \subseteq Node)}
<1>1. ASSUME D # {} PROVE FALSE
    <2>1. D \subseteq Nat
        BY NodeOrder
    <2>2. PICK n \in D : \A m \in D : n <= m
        BY <1>1, <2>1, LeastOf
    <2>3. CASE n = Root
        BY <2>3, PathUnfolds
    <2>4. CASE n # Root
        <3>1. Parent[n] \in Node /\ Parent[n] < n /\ n \in Nat /\ Parent[n] \in Nat
            BY <2>4, NodeOrder
        <3>2. Parent[n] \notin D
            BY <2>2, <3>1
        <3>3. Path[n] = {n} \cup Path[Parent[n]]
            BY <2>4, PathUnfolds
        <3> QED BY <3>1, <3>2, <3>3
    <2> QED BY <2>3, <2>4
<1> QED BY <1>1, PathUnfolds

\* A node that is handed out is unvisited and with nobody, and is now pending; a
\* tree that calls itself exhausted has nobody more.
LEMMA SelectFresh ==
    ASSUME NEW t \in Tree, NEW s \in Select(t)
    PROVE  /\ s.tree \in Tree /\ s.tree.visits = t.visits /\ s.tree.novel = t.novel
           /\ s.tree.violations = t.violations
           /\ \/ s.node = 0 /\ s.tree.pending = t.pending
              \/ /\ s.node \in Node /\ t.visits[s.node] = 0 /\ s.node \notin t.pending
                 /\ s.tree.pending = t.pending \cup {s.node}
<1> DEFINE u(n) == [t EXCEPT !.expanded = @ \cup {m \in Path[n] : Descended(t, m)}]
           Hand(n, m) == [node |-> m, tree |-> [u(n) EXCEPT !.pending = @ \cup {m}]]
<1>1. ASSUME NEW n \in Reached(t) PROVE n \in Node
    BY <1>1 DEF Reached
<1>2. PICK n \in Reached(t) :
         \/ s = [node |-> 0, tree |-> u(n)]
         \/ \E m \in Node : s = Hand(n, m) /\ t.visits[m] = 0 /\ m \notin t.pending
    <2>1. PICK n \in Reached(t) :
             s \in IF ~Descended(t, n) THEN {Hand(n, n)}
                   ELSE IF Live(t, n) # {} THEN {}
                   ELSE IF t.visits[n] = 0 /\ n \notin t.pending THEN {Hand(n, n)}
                   ELSE IF Unexecuted(u(n)) # {} THEN {Hand(n, Min(Unexecuted(u(n))))}
                   ELSE {[node |-> 0, tree |-> u(n)]}
        BY DEF Select
    <2>2. n \in Node
        BY <1>1
    <2>3. CASE ~Descended(t, n)
        <3>1. n # Root /\ ~(t.visits[n] > 0)
            BY <2>3 DEF Descended
        <3>2. n \in Selected(t, Parent[n])
            BY <3>1, ReachedIsSelected
        <3>3. n \in Live(t, Parent[n])
            <4> DEFINE new == {c \in Live(t, Parent[n]) : t.visits[c] = 0}
            <4>1. CASE new = {}
                BY <3>2, <4>1 DEF Selected
            <4>2. CASE new # {}
                <5>1. new \subseteq Nat
                    BY TreeAssumption DEF Live, Children
                <5>2. Min(new) \in new
                    BY <4>2, <5>1, LeastOf DEF Min
                <5> QED BY <3>2, <4>2, <5>2 DEF Selected
            <4> QED BY <4>1, <4>2
        <3>4. t.visits[n] \in Nat
            BY <2>2 DEF Tree
        <3>5. t.visits[n] = 0 /\ n \notin t.pending
            BY <3>1, <3>3, <3>4 DEF Live
        <3> QED BY <2>1, <2>2, <2>3, <3>5
    <2>4. CASE Descended(t, n) /\ Live(t, n) = {} /\ t.visits[n] = 0 /\ n \notin t.pending
        BY <2>1, <2>2, <2>4
    <2>5. CASE /\ Descended(t, n) /\ Live(t, n) = {} /\ ~(t.visits[n] = 0 /\ n \notin t.pending)
               /\ Unexecuted(u(n)) # {}
        <3> DEFINE m == Min(Unexecuted(u(n)))
        <3>1. Unexecuted(u(n)) \subseteq Node
            BY DEF Unexecuted
        <3>2. Unexecuted(u(n)) \subseteq Nat
            BY <3>1, NodeOrder
        <3>3. m \in Unexecuted(u(n))
            BY <2>5, <3>2, LeastOf DEF Min
        <3>4. u(n).visits = t.visits /\ u(n).pending = t.pending
            BY DEF Tree
        <3>5. m \in Node /\ t.visits[m] = 0 /\ m \notin t.pending
            BY <3>3, <3>4 DEF Unexecuted
        <3> HIDE DEF m
        <3> QED BY <2>1, <2>5, <3>5 DEF m
    <2>6. CASE /\ Descended(t, n) /\ Live(t, n) = {} /\ ~(t.visits[n] = 0 /\ n \notin t.pending)
               /\ Unexecuted(u(n)) = {}
        <3>1. s \in {[node |-> 0, tree |-> u(n)]}
            <4> HIDE DEF u
            <4> QED BY <2>1, <2>6
        <3> QED BY <3>1
    <2> QED BY <2>1, <2>3, <2>4, <2>5, <2>6
<1>3. t.expanded \cup {k \in Path[n] : Descended(t, k)} \subseteq Node
    BY <1>1, PathIn DEF Tree
<1>4. u(n) \in Tree /\ u(n).pending = t.pending /\ u(n).visits = t.visits
      /\ u(n).novel = t.novel /\ u(n).violations = t.violations
    BY <1>3 DEF Tree
<1>5. CASE s = [node |-> 0, tree |-> u(n)]
    <2>1. s.node = 0 /\ s.tree = u(n)
        BY <1>5
    <2> HIDE DEF u
    <2> QED BY <1>4, <2>1
<1>6. ASSUME NEW m \in Node, s = Hand(n, m), t.visits[m] = 0, m \notin t.pending
      PROVE  /\ s.tree \in Tree /\ s.tree.visits = t.visits /\ s.tree.novel = t.novel
             /\ s.tree.violations = t.violations /\ s.node = m
             /\ s.tree.pending = t.pending \cup {m}
    <2>1. s.node = m /\ s.tree = [u(n) EXCEPT !.pending = @ \cup {m}]
        BY <1>6
    <2> HIDE DEF u
    <2> QED BY <1>4, <2>1 DEF Tree
<1> HIDE DEF u, Hand
<1> QED BY <1>2, <1>5, <1>6

\* A rollout counts for its node and every node above it, and leaves the rest of
\* the tree as it was.
LEMMA RolloutCounts ==
    ASSUME NEW t \in Tree, NEW n \in Node, NEW r \in Reported
    PROVE  /\ Backpropagate(t, n, r) \in Tree
           /\ Backpropagate(t, n, r).pending = t.pending \ {n}
           /\ \A m \in Node :
                 /\ Backpropagate(t, n, r).visits[m] = t.visits[m] + IF m \in Path[n] THEN 1 ELSE 0
                 /\ Backpropagate(t, n, r).novel[m] = (t.novel[m] \/ (m \in Path[n] /\ r.novel))
                 /\ Backpropagate(t, n, r).violations[m]
                      = t.violations[m] + IF m \in Path[n] THEN r.violations ELSE 0
<1> DEFINE u == [t EXCEPT
                !.pending = @ \ {n},
                !.visits = [m \in Node |-> @[m] + IF m \in Path[n] THEN 1 ELSE 0],
                !.novel = [m \in Node |-> @[m] \/ (m \in Path[n] /\ r.novel)],
                !.violations = [m \in Node |-> @[m] + IF m \in Path[n] THEN r.violations ELSE 0]]
           b == [u EXCEPT !.pruned = @ \cup Uneventful(u, n, r.evaluable)]
           vs == [m \in Node |-> t.visits[m] + IF m \in Path[n] THEN 1 ELSE 0]
           ns == [m \in Node |-> t.novel[m] \/ (m \in Path[n] /\ r.novel)]
           xs == [m \in Node |-> t.violations[m] + IF m \in Path[n] THEN r.violations ELSE 0]
<1>1. Backpropagate(t, n, r) = b
    BY DEF Backpropagate, Credited
<1>2. vs \in [Node -> Nat] /\ xs \in [Node -> Nat]
    BY DEF Tree, Reported
<1>3. ns \in [Node -> BOOLEAN]
    BY Zenon DEF Tree, Reported
<1>4. u = [t EXCEPT !.pending = @ \ {n}, !.visits = vs, !.novel = ns, !.violations = xs]
    OBVIOUS
<1>5. \A m \in Node : /\ vs[m] = t.visits[m] + IF m \in Path[n] THEN 1 ELSE 0
                      /\ ns[m] = (t.novel[m] \/ (m \in Path[n] /\ r.novel))
                      /\ xs[m] = t.violations[m] + IF m \in Path[n] THEN r.violations ELSE 0
    BY Zenon
<1>6. Uneventful(u, n, r.evaluable) \subseteq Node
    BY PathIn DEF Uneventful
<1> HIDE DEF vs, ns, xs
<1>7. /\ u \in Tree /\ u.pending = t.pending \ {n} /\ u.visits = vs /\ u.novel = ns
      /\ u.violations = xs
    BY <1>2, <1>3, <1>4 DEF Tree
<1> HIDE DEF u
<1>8. /\ b \in Tree /\ b.pending = t.pending \ {n} /\ b.visits = vs /\ b.novel = ns
      /\ b.violations = xs
    BY <1>6, <1>7 DEF Tree
<1> QED BY <1>1, <1>5, <1>8

-----------------------------------------------------------------------------
(* The strategy.                                                           *)

\* A proposal takes nothing back and observes nothing.
TreesKept ==
    \A p \in Probe : /\ tree[p].pending \subseteq tree'[p].pending
                     /\ tree'[p].visits = tree[p].visits /\ tree'[p].novel = tree[p].novel
                     /\ tree'[p].violations = tree[p].violations

\* The trees are of probes, at most MaxTrees of them, in some order.
LEMMA RootsTyped ==
    ASSUME reinforcing \subseteq Probe, NEW s \in Roots
    PROVE  s \in Seq(Probe) /\ Len(s) <= MaxTrees
<1>1. PICK T \in SUBSET reinforcing :
         /\ s = SetToSeq(T)
         /\ Cardinality(T) = IF Cardinality(reinforcing) < MaxTrees
                             THEN Cardinality(reinforcing) ELSE MaxTrees
    BY DEF Roots
<1>2. IsFiniteSet(Probe)
    BY SweepAssumption, FS_Interval DEF Probe
<1>3. IsFiniteSet(reinforcing) /\ IsFiniteSet(T)
    BY <1>2, FS_Subset
<1>4. Cardinality(reinforcing) \in Nat /\ Cardinality(T) \in Nat
      /\ ExistsBijection(1..Cardinality(T), T)
    BY <1>3, FS_CardinalityType
<1>5. Cardinality(T) <= MaxTrees
    BY <1>1, <1>4, SweepAssumption
<1>6. \E f \in [1..Cardinality(T) -> T] : IsInjective(f)
    BY <1>4 DEF ExistsBijection, Bijection, Injection
<1>7. s \in [1..Cardinality(T) -> T]
    BY <1>1, <1>6 DEF SetToSeq
<1>8. s \in Seq(T) /\ Len(s) = Cardinality(T)
    BY <1>4, <1>7
<1> QED BY <1>5, <1>7, <1>8

\* The tree whose turn it is is one of the rotation's.
LEMMA CurrentTyped ==
    ASSUME StrategyInv, rotation # <<>>
    PROVE  /\ Len(rotation) \in Nat \ {0} /\ turn % Len(rotation) \in 0..(Len(rotation) - 1)
           /\ Current \in Probe /\ tree[Current] \in Tree
<1>1. Len(rotation) \in Nat \ {0} /\ turn \in Nat
    BY EmptySeq DEF StrategyInv
<1>2. turn % Len(rotation) \in 0..(Len(rotation) - 1)
    BY <1>1
<1>3. Current \in Probe
    BY <1>1, <1>2, ElementOfSeq DEF Current, StrategyInv
<1> QED BY <1>1, <1>2, <1>3 DEF StrategyInv

\* EndProbeStage touches no tree.
LEMMA EndsProbing == StrategyInv /\ EndProbeStage => StrategyInv' /\ TreesKept
BY DEF StrategyInv, EndProbeStage, TreesKept

\* A probe is handed out.
LEMMA ProbeProposed == StrategyInv /\ ProposeProbe => StrategyInv' /\ TreesKept /\ probeNext \in Probe
BY SweepAssumption DEF StrategyInv, ProposeProbe, Sweeping, TreesKept, Probe

\* NewEscalation makes the rotation, and leaves the trees as they are.
LEMMA EscalationBuilt == StrategyInv /\ BuildEscalation => StrategyInv' /\ TreesKept
<1> SUFFICES ASSUME StrategyInv, BuildEscalation PROVE StrategyInv' /\ TreesKept
    OBVIOUS
<1>1. rotation' \in Seq(Probe) /\ Len(rotation') <= MaxTrees
    BY RootsTyped DEF StrategyInv, BuildEscalation
<1> QED BY <1>1 DEF StrategyInv, BuildEscalation, TreesKept

\* A rollout is of a node that nobody has and nobody visited.
LEMMA RolloutProposed ==
    ASSUME StrategyInv, NEW n, ProposeRollout(n)
    PROVE  /\ StrategyInv' /\ TreesKept /\ Current \in Probe /\ n \in Node
           /\ tree[Current].visits[n] = 0 /\ n \notin tree[Current].pending
           /\ n \in tree'[Current].pending
<1>1. rotation # <<>> /\ n # 0 /\ turn' = (turn + 1) % Len(rotation) /\ tried' = 0
    BY DEF ProposeRollout, HandsOut
<1>2. PICK s \in Select(tree[Current]) :
         s.node = n /\ tree' = [tree EXCEPT ![Current] = s.tree]
    BY DEF ProposeRollout
<1>3. Current \in Probe /\ tree[Current] \in Tree /\ turn' \in Nat
    BY <1>1, CurrentTyped DEF StrategyInv
<1> DEFINE t == tree[Current]
<1>4. /\ s.tree \in Tree /\ s.tree.visits = t.visits /\ s.tree.novel = t.novel
      /\ s.tree.violations = t.violations
      /\ s.node \in Node /\ t.visits[s.node] = 0 /\ s.node \notin t.pending
      /\ s.tree.pending = t.pending \cup {s.node}
    BY <1>1, <1>2, <1>3, SelectFresh
<1>5. tree' \in [Probe -> Tree] /\ tree'[Current] = s.tree
      /\ \A p \in Probe \ {Current} : tree'[p] = tree[p]
    BY <1>2, <1>3, <1>4 DEF StrategyInv
<1>6. TreesKept
    BY <1>4, <1>5 DEF TreesKept
<1>7. StrategyInv'
    BY <1>1, <1>3, <1>5, SweepAssumption DEF StrategyInv, ProposeRollout
<1> QED BY <1>2, <1>3, <1>4, <1>5, <1>6, <1>7

\* A world the validator refused leaves its node as it was found.
LEMMA RefusalKeeps ==
    ASSUME StrategyInv, NEW n, RolloutRefused(n)
    PROVE  StrategyInv' /\ TreesKept
<1>1. rotation # <<>> /\ n # 0 /\ turn' = (turn + 1) % Len(rotation) /\ tried' = 0
    BY DEF RolloutRefused, HandsOut
<1>2. PICK s \in Select(tree[Current]) :
         s.node = n /\ tree' = [tree EXCEPT ![Current] = [s.tree EXCEPT !.pending = @ \ {n}]]
    BY DEF RolloutRefused
<1>3. Current \in Probe /\ tree[Current] \in Tree /\ turn' \in Nat
    BY <1>1, CurrentTyped DEF StrategyInv
<1> DEFINE t == tree[Current]
           u == [s.tree EXCEPT !.pending = @ \ {n}]
<1>4. /\ s.tree \in Tree /\ s.tree.visits = t.visits /\ s.tree.novel = t.novel
      /\ s.tree.violations = t.violations
      /\ s.node \in Node /\ s.node \notin t.pending
      /\ s.tree.pending = t.pending \cup {s.node}
    BY <1>1, <1>2, <1>3, SelectFresh
<1>5. /\ u \in Tree /\ u.pending = s.tree.pending \ {n} /\ u.visits = s.tree.visits
      /\ u.novel = s.tree.novel /\ u.violations = s.tree.violations
    BY <1>4 DEF Tree
<1> HIDE DEF u
<1>6. tree' \in [Probe -> Tree] /\ tree'[Current] = u
      /\ \A p \in Probe \ {Current} : tree'[p] = tree[p]
    <2>1. tree' = [tree EXCEPT ![Current] = u]
        BY <1>2 DEF u
    <2> QED BY <1>3, <1>5, <2>1 DEF StrategyInv
<1>7. u.pending = t.pending
    BY <1>2, <1>4, <1>5
<1>8. TreesKept
    BY <1>4, <1>5, <1>6, <1>7 DEF TreesKept
<1>9. StrategyInv'
    BY <1>1, <1>3, <1>6, SweepAssumption DEF StrategyInv, RolloutRefused
<1> QED BY <1>8, <1>9

\* Escalation.Next drops a tree, or with the last it may try every one.
LEMMA TreeRetired == StrategyInv /\ RetireTree => StrategyInv' /\ TreesKept
<1> SUFFICES ASSUME StrategyInv, RetireTree PROVE StrategyInv' /\ TreesKept
    OBVIOUS
<1> DEFINE i == turn % Len(rotation)
           left == RemoveAt(rotation, i + 1)
<1>1. rotation # <<>> /\ UNCHANGED <<probeNext, probeDone, reinforcing, escBuilt>>
    BY DEF RetireTree
<1>2. PICK s \in Select(tree[Current]) :
         s.node = 0 /\ tree' = [tree EXCEPT ![Current] = s.tree]
    BY DEF RetireTree
<1>3. Current \in Probe /\ tree[Current] \in Tree /\ Len(rotation) \in Nat \ {0}
      /\ i \in 0..(Len(rotation) - 1)
    BY <1>1, CurrentTyped
<1>4. /\ s.tree \in Tree /\ s.tree.visits = tree[Current].visits
      /\ s.tree.novel = tree[Current].novel /\ s.tree.violations = tree[Current].violations
      /\ s.tree.pending = tree[Current].pending
    <2>1. 0 \notin Node
        BY NodeOrder
    <2> QED BY <1>2, <1>3, <2>1, SelectFresh
<1>5. tree' \in [Probe -> Tree] /\ tree'[Current] = s.tree
      /\ \A p \in Probe \ {Current} : tree'[p] = tree[p]
    BY <1>2, <1>3, <1>4 DEF StrategyInv
<1>6. TreesKept
    BY <1>4, <1>5 DEF TreesKept
<1>7. left \in Seq(Probe) /\ Len(left) = Len(rotation) - 1
    <2> DEFINE a == SubSeq(rotation, 1, (i + 1) - 1)
               b == SubSeq(rotation, (i + 1) + 1, Len(rotation))
    <2>1. \A j \in 1..Len(rotation) : rotation[j] \in Probe
        BY ElementOfSeq DEF StrategyInv
    <2> HIDE DEF i
    <2>2. a \in Seq(Probe) /\ Len(a) = i
        <3>1. \A j \in 1..((i + 1) - 1) : rotation[j] \in Probe
            BY <1>3, <2>1
        <3> QED BY <1>3, <3>1, SubSeqProperties
    <2>3. b \in Seq(Probe) /\ Len(b) = Len(rotation) - i - 1
        <3>1. \A j \in ((i + 1) + 1)..Len(rotation) : rotation[j] \in Probe
            BY <1>3, <2>1
        <3> QED BY <1>3, <3>1, SubSeqProperties
    <2> HIDE DEF a, b
    <2>4. a \o b \in Seq(Probe) /\ Len(a \o b) = Len(a) + Len(b)
        BY <2>2, <2>3, ConcatProperties
    <2>5. left = a \o b
        BY DEF RemoveAt, a, b
    <2> HIDE DEF left
    <2>6. left \in Seq(Probe) /\ Len(left) = Len(a) + Len(b)
        BY <2>4, <2>5, Zenon
    <2>7. i \in Nat /\ Len(rotation) \in Nat
        BY <1>3
    <2> QED BY <2>2, <2>3, <2>6, <2>7
<1>8. \/ tried + 1 < Len(left) /\ rotation' = left /\ turn' = i % Len(left)
         /\ tried' = tried + 1 /\ stage' = stage
      \/ rotation' = <<>> /\ turn' = 0 /\ tried' = 0 /\ stage' = "mutate"
    BY DEF RetireTree
<1>9. rotation' \in Seq(Probe) /\ Len(rotation') <= MaxTrees /\ turn' \in Nat
      /\ tried' \in 0..MaxTrees
    <2> HIDE DEF i, left
    <2>1. i \in Nat /\ tried \in 0..MaxTrees /\ Len(rotation) <= MaxTrees /\ MaxTrees \in Nat \ {0}
        BY <1>3, SweepAssumption DEF StrategyInv
    <2>2. CASE rotation' = left /\ tried + 1 < Len(left) /\ turn' = i % Len(left) /\ tried' = tried + 1
        <3>1. Len(left) \in Nat \ {0}
            BY <1>3, <1>7, <2>1, <2>2
        <3>2. i % Len(left) \in Nat
            BY <2>1, <3>1
        <3> QED BY <1>3, <1>7, <2>1, <2>2, <3>1, <3>2
    <2>3. CASE rotation' = <<>> /\ turn' = 0 /\ tried' = 0
        BY <2>1, <2>3, EmptySeq
    <2> QED BY <1>8, <2>2, <2>3
<1>10. stage' \in {"probe", "escalate", "mutate"}
    BY <1>8 DEF StrategyInv
<1> QED BY <1>1, <1>5, <1>6, <1>9, <1>10 DEF StrategyInv

\* proposeMutation changes the stage at most.
LEMMA MutationProposed == StrategyInv /\ ProposeMutation => StrategyInv' /\ TreesKept
BY DEF StrategyInv, ProposeMutation, TreesKept

\* Nothing is asked of the strategy.
LEMMA StrategyIdle == StrategyInv /\ UNCHANGED saboteur => StrategyInv' /\ TreesKept
BY DEF StrategyInv, saboteur, TreesKept

-----------------------------------------------------------------------------
(* The fold and the histories.                                             *)

\* How a world may end, to the fold.
WorldOutcomes == {"pass", "canceled", "inconclusive", "harness_error", "violation"}

\* A fold takes a world's outcome or keeps what it had; a violation prevails, and
\* no fold with a failure is a pass.
LEMMA FoldPrevails ==
    ASSUME NEW o \in WorldOutcomes, NEW p \in WorldOutcomes
    PROVE  /\ Worse(o, p) \in WorldOutcomes
           /\ Worse(o, p) = "violation" <=> "violation" \in {o, p}
           /\ {o, p} \cap {"harness_error", "violation"} # {} =>
                 Worse(o, p) \in {"harness_error", "violation"}
           /\ Worse(o, p) = "pass" => o = "pass" /\ p = "pass"
BY DEF Worse, Rank, WorldOutcomes

\* How the worlds of a batch may have ended, to the fold.
LEMMA OutcomeTyped ==
    ASSUME NEW is \in Ends \cup {"canceled", "refused"}
    PROVE  /\ OutcomeOf(is) \in WorldOutcomes
           /\ OutcomeOf(is) = "violation" <=> is \in {"violated", "glimpsed"}
           /\ is = "refused" => OutcomeOf(is) = "harness_error"
BY DEF OutcomeOf, Ends, WorldOutcomes

\* The verdict of a search that ends: FAIL exactly with a violation, and PASS only
\* if nothing ended it before its budget was used.
LEMMA VerdictIs ==
    ASSUME EngineInv, DoneInv, NEW fatal \in BOOLEAN, Finish(fatal),
           hit' = hit, hit <=> worst = "violation",
           \/ fatal \/ canceled \/ expired \/ started = Worlds
           \/ worst \in {"harness_error", "violation"}
    PROVE  DoneInv' /\ verdict' \in {"PASS", "FAIL", "INCONCLUSIVE", "BUDGET_EXHAUSTED"}
<1> DEFINE ran == IF worst = "none" THEN "inconclusive" ELSE worst
           f == IF fatal THEN Worse(ran, "harness_error") ELSE ran
           o == Canceled(f)
           e == IF o = "pass" /\ expired /\ started < Worlds THEN "budget_exhausted" ELSE o
<1>1. ran \in WorldOutcomes /\ (ran = "violation" <=> worst = "violation")
    BY DEF EngineInv, WorldOutcomes
<1> HIDE DEF ran
<1>2. /\ f \in WorldOutcomes /\ (f = "violation" <=> worst = "violation")
      /\ f = "pass" => ~fatal /\ ran = "pass"
    <2>1. CASE fatal
        <3>1. f = Worse(ran, "harness_error") /\ "harness_error" \in WorldOutcomes
            BY <2>1 DEF WorldOutcomes
        <3> QED BY <1>1, <3>1, FoldPrevails
    <2>2. CASE ~fatal
        BY <1>1, <2>2
    <2> QED BY <2>1, <2>2
<1>3. ran = "pass" => worst = "pass"
    BY DEF ran
<1> HIDE DEF f
<1>4. /\ o \in WorldOutcomes /\ (o = "violation" <=> worst = "violation")
      /\ o = "pass" => f = "pass" /\ ~(canceled /\ worst # "violation")
    <2>1. CASE canceled /\ worst # "violation"
        <3>1. o = Worse(f, "canceled") /\ "canceled" \in WorldOutcomes
            BY <2>1 DEF Canceled, WorldOutcomes
        <3> QED BY <1>2, <2>1, <3>1, FoldPrevails
    <2>2. CASE ~(canceled /\ worst # "violation")
        <3>1. o = f
            BY <2>2 DEF Canceled
        <3> QED BY <1>2, <2>2, <3>1
    <2> QED BY <2>1, <2>2
<1> HIDE DEF o
<1>5. /\ e = "violation" <=> worst = "violation"
      /\ e = "pass" => o = "pass" /\ ~(expired /\ started < Worlds)
    BY <1>4
<1> HIDE DEF e
<1>6. /\ pc' = "done" /\ started' = started
      /\ verdict' = IF e = "pass" THEN IF narrowed THEN "INCONCLUSIVE" ELSE "PASS"
                    ELSE IF e = "violation" THEN "FAIL"
                    ELSE IF e = "budget_exhausted" THEN "BUDGET_EXHAUSTED"
                    ELSE "INCONCLUSIVE"
    BY Zenon DEF Finish, e, o, f, ran
<1>7. verdict' = "FAIL" <=> e = "violation"
    BY <1>6
<1>8. ASSUME verdict' = "PASS" PROVE started = Worlds
    <2>1. e = "pass"
        BY <1>6, <1>8
    <2>2. worst = "pass" /\ ~fatal /\ ~canceled /\ ~(expired /\ started < Worlds)
        BY <1>2, <1>3, <1>4, <1>5, <2>1
    <2>3. started \in Nat /\ Worlds \in Nat /\ started <= Worlds
        BY SearchAssumption DEF EngineInv
    <2> QED BY <2>2, <2>3
<1> QED BY <1>5, <1>6, <1>7, <1>8 DEF DoneInv

\* What a tree adds up to, of what its history h says.
Sums(visits, novel, violations, h) ==
    \A n \in Node :
        LET T == {m \in Subtree(n) : h[m] # {}}
        IN  /\ visits[n] = Cardinality(T)
            /\ novel[n] = (\E e \in UNION {h[m] : m \in Subtree(n)} : e.novel)
            /\ violations[n] = Cardinality({m \in T : \E e \in h[m] : e.violations = 1})

\* EvidenceIsOwn, tree by tree, before a step and after it.
LEMMA EvidenceSums ==
    /\ EvidenceIsOwn <=> \A p \in Probe :
          Sums(tree[p].visits, tree[p].novel, tree[p].violations, told[p])
    /\ EvidenceIsOwn' <=> \A p \in Probe :
          Sums(tree'[p].visits, tree'[p].novel, tree'[p].violations, told'[p])
<1>1. EvidenceIsOwn <=> \A p \in Probe :
          Sums(tree[p].visits, tree[p].novel, tree[p].violations, told[p])
    BY Zenon DEF EvidenceIsOwn, Sums, Told
<1>2. EvidenceIsOwn' <=> \A p \in Probe :
          Sums(tree'[p].visits, tree'[p].novel, tree'[p].violations, told'[p])
    BY Zenon DEF EvidenceIsOwn, Sums, Told
<1> QED BY <1>1, <1>2

\* What trees and history say of each other stands while neither changes.
LEMMA EvidenceStands ==
    ASSUME EvidenceIsOwn, told' = told, TreesKept
    PROVE  EvidenceIsOwn'
BY EvidenceSums DEF TreesKept

\* A world of the batch is what it was made for.
LEMMA BatchTyped ==
    ASSUME EngineInv, NEW i \in 1..Len(batch)
    PROVE  /\ batch[i] \in World /\ batch[i].for.probe \in Probe
           /\ batch[i].for.by = "tree" => batch[i].for.node \in Node
<1>1. batch[i] \in World
    BY ElementOfSeq DEF EngineInv
<1>2. batch[i].for \in Proposal
    BY <1>1 DEF World
<1> QED BY <1>1, <1>2 DEF EngineInv, Proposal

\* What is out stays out, pending and unobserved.
LEMMA HandedStays ==
    ASSUME HandedInv, told' = told, TreesKept, EngineInv, Waiting' \subseteq Waiting,
           \A i \in Waiting' : batch'[i].for = batch[i].for
    PROVE  HandedInv'
<1>1. ASSUME NEW i \in Waiting', batch'[i].for.by = "tree"
      PROVE  /\ batch'[i].for.node \in tree'[batch'[i].for.probe].pending
             /\ told'[batch'[i].for.probe][batch'[i].for.node] = {}
             /\ \A j \in Waiting' : batch'[j].for = batch'[i].for => j = i
    <2>1. i \in Waiting /\ batch'[i].for = batch[i].for
        BY <1>1
    <2>2. i \in 1..Len(batch)
        BY <2>1 DEF Waiting
    <2>3. batch[i].for.probe \in Probe
        BY <2>2, BatchTyped
    <2>4. batch[i].for.node \in tree'[batch[i].for.probe].pending
        BY <1>1, <2>1, <2>3 DEF HandedInv, TreesKept
    <2>5. told[batch[i].for.probe][batch[i].for.node] = {}
        BY <1>1, <2>1 DEF HandedInv
    <2>6. \A j \in Waiting' : batch'[j].for = batch'[i].for => j = i
        BY <1>1, <2>1 DEF HandedInv
    <2> QED BY <2>1, <2>4, <2>5, <2>6
<1>2. /\ told' \in [Probe -> [Node -> SUBSET Reported]]
      /\ \A p \in Probe : IsFiniteSet(Seen(told'[p]))
    BY DEF HandedInv
<1> QED BY <1>1, <1>2 DEF HandedInv

-----------------------------------------------------------------------------
(* The engine.                                                             *)

\* Nothing was proposed, counted or told.
LEMMA InitIInv == Init => IInv
<1> SUFFICES ASSUME Init PROVE IInv
    OBVIOUS
<1>1. NewTree \in Tree /\ NewTree.visits = [n \in Node |-> 0]
      /\ NewTree.novel = [n \in Node |-> FALSE] /\ NewTree.violations = [n \in Node |-> 0]
    BY DEF NewTree, Tree
<1>2. StrategyInv
    <2>1. rotation \in Seq(Probe) /\ Len(rotation) = 0
        BY EmptySeq DEF Init, SaboteurInit
    <2>2. tree \in [Probe -> Tree]
        BY <1>1 DEF Init, SaboteurInit
    <2>3. /\ probeNext = 0 /\ probeDone = FALSE /\ reinforcing = {} /\ stage = "probe"
          /\ escBuilt = FALSE /\ turn = 0 /\ tried = 0
        BY DEF Init, SaboteurInit
    <2>4. /\ probeNext \in 0..(Probes + 1) /\ turn \in Nat /\ tried \in 0..MaxTrees
          /\ Len(rotation) <= MaxTrees
        BY <2>1, <2>3, SweepAssumption
    <2>5. /\ reinforcing \subseteq Probe /\ stage \in {"probe", "escalate", "mutate"}
          /\ probeDone \in BOOLEAN /\ escBuilt \in BOOLEAN
        BY <2>3
    <2> QED BY <2>1, <2>2, <2>4, <2>5, Zenon DEF StrategyInv
<1>3. EngineInv
    <2>1. batch \in Seq(World) /\ Len(batch) = 0
        BY EmptySeq DEF Init
    <2>2. Workers \in Nat /\ Worlds \in Nat
        BY SearchAssumption
    <2>3. /\ narrowed \in BOOLEAN /\ canceled = FALSE /\ expired = FALSE /\ pc = "loop"
          /\ ordinal = 0 /\ started = 0 /\ at = 1 /\ retired = 0 /\ runErr = "none"
          /\ worst = "none" /\ violation = FALSE /\ verdict = "none"
          /\ hit = FALSE /\ unrun = FALSE
        BY DEF Init
    <2>4. /\ ordinal \in 0..Worlds /\ started \in 0..Worlds /\ retired \in 0..Workers
          /\ at \in 1..(Workers + 1) /\ Len(batch) <= Workers
        BY <2>1, <2>2, <2>3
    <2>5. \A i \in 1..Len(batch) : batch[i].for.by = "tree" => batch[i].for.node \in Node
        <3>1. \A i \in 1..0 : FALSE
            OBVIOUS
        <3> QED BY <2>1, <3>1, Zenon
    <2>6. /\ narrowed \in BOOLEAN /\ canceled \in BOOLEAN /\ expired \in BOOLEAN
          /\ violation \in BOOLEAN /\ hit \in BOOLEAN /\ unrun \in BOOLEAN
          /\ pc \in {"loop", "propose", "run", "absorb", "decide", "done"}
          /\ runErr \in {"none", "preflight", "canceled", "exhausted"}
          /\ worst \in {"none", "pass", "canceled", "inconclusive", "harness_error", "violation"}
          /\ verdict \in {"none", "PASS", "FAIL", "INCONCLUSIVE", "BUDGET_EXHAUSTED"}
        BY <2>3
    <2> QED BY <2>1, <2>4, <2>5, <2>6, Zenon DEF EngineInv
<1> USE DEF Init, SaboteurInit
<1>4. Waiting = {}
    BY DEF Waiting
<1>5. BatchInv /\ FoldInv /\ DoneInv
    BY <1>4 DEF BatchInv, FoldInv, DoneInv
<1>6. \A p \in Probe : Seen(told[p]) = {} /\ tree[p] = NewTree
    BY DEF Seen
<1>7. HandedInv
    BY <1>4, <1>6, FS_EmptySet DEF HandedInv
<1>8. ASSUME NEW p \in Probe
      PROVE  Sums(tree[p].visits, tree[p].novel, tree[p].violations, told[p])
    <2>1. \A n \in Node : told[p][n] = {}
        OBVIOUS
    <2>2. ASSUME NEW n \in Node
          PROVE  LET T == {m \in Subtree(n) : told[p][m] # {}}
                 IN  /\ tree[p].visits[n] = Cardinality(T)
                     /\ tree[p].novel[n] = (\E e \in UNION {told[p][m] : m \in Subtree(n)} : e.novel)
                     /\ tree[p].violations[n]
                          = Cardinality({m \in T : \E e \in told[p][m] : e.violations = 1})
        <3> DEFINE T == {m \in Subtree(n) : told[p][m] # {}}
        <3>1. T = {} /\ {m \in T : \E e \in told[p][m] : e.violations = 1} = {}
            BY <2>1 DEF Subtree
        <3>2. ~\E e \in UNION {told[p][m] : m \in Subtree(n)} : e.novel
            BY <2>1 DEF Subtree
        <3>3. tree[p].visits[n] = 0 /\ tree[p].novel[n] = FALSE /\ tree[p].violations[n] = 0
            BY <1>1, <1>6
        <3>4. tree[p].novel[n] = (\E e \in UNION {told[p][m] : m \in Subtree(n)} : e.novel)
            BY <3>2, <3>3, Zenon
        <3> QED BY <3>1, <3>3, <3>4, FS_EmptySet
    <2> QED BY <2>2, Zenon DEF Sums
<1>9. EvidenceIsOwn
    BY <1>8, EvidenceSums
<1> QED BY <1>2, <1>3, <1>5, <1>7, <1>9 DEF IInv

\* Time passes, the caller cancels, the strategy turns to its trees.
LEMMA NothingChanges ==
    ASSUME IInv, StrategyInv', TreesKept, canceled' \in BOOLEAN, expired' \in BOOLEAN,
           UNCHANGED <<narrowed, pc, ordinal, started, batch, at, retired, runErr, worst,
                       violation, verdict, told, hit, unrun>>
    PROVE  IInv'
<1> USE DEF IInv
<1>1. Waiting' = Waiting /\ InFlight' = InFlight
    BY DEF Waiting, InFlight, Is
<1>2. EngineInv'
    BY DEF EngineInv
<1>3. BatchInv'
    BY <1>1 DEF BatchInv, Is
<1>4. FoldInv' /\ DoneInv'
    BY <1>1 DEF FoldInv, DoneInv, Is
<1>5. HandedInv'
    BY <1>1, HandedStays
<1>6. EvidenceIsOwn'
    BY EvidenceStands
<1> QED BY <1>2, <1>3, <1>4, <1>5, <1>6

\* The search ends.
LEMMA FinishKeeps ==
    ASSUME IInv, NEW fatal \in BOOLEAN, Finish(fatal), batch = <<>>,
           pc \in {"loop", "propose", "decide"}, StrategyInv', TreesKept, UNCHANGED history,
           \/ fatal \/ canceled \/ expired \/ started = Worlds
           \/ worst \in {"harness_error", "violation"}
    PROVE  IInv'
<1> USE DEF IInv, history
<1>1. /\ pc' = "done"
      /\ UNCHANGED <<narrowed, canceled, expired, ordinal, started, batch, at, retired,
                     runErr, worst, violation>>
    BY DEF Finish
<1>2. Waiting = {} /\ Waiting' = {}
    BY <1>1 DEF Waiting
<1>3. hit <=> worst = "violation"
    BY <1>2 DEF FoldInv
<1>4. DoneInv' /\ verdict' \in {"PASS", "FAIL", "INCONCLUSIVE", "BUDGET_EXHAUSTED"}
    BY <1>3, VerdictIs
<1>5. EngineInv'
    BY <1>1, <1>4 DEF EngineInv
<1>6. BatchInv'
    BY <1>1 DEF BatchInv, EngineInv
<1>7. FoldInv'
    BY <1>1 DEF FoldInv
<1>8. HandedInv' /\ EvidenceIsOwn'
    BY <1>2, HandedStays, EvidenceStands
<1> QED BY <1>4, <1>5, <1>6, <1>7, <1>8

\* Run leaves its loop: no world fits the budget, or the context is over.
LEMMA StopKeeps == ASSUME IInv, Stop PROVE IInv'
<1>1. pc = "loop" /\ (~MayStartWorld \/ canceled) /\ Finish(FALSE)
      /\ UNCHANGED saboteur /\ UNCHANGED history
    BY DEF Stop, history
<1>2. batch = <<>>
    BY <1>1 DEF IInv, BatchInv
<1>3. canceled \/ expired \/ started = Worlds
    BY <1>1, SearchAssumption DEF MayStartWorld, IInv, EngineInv
<1> QED BY <1>1, <1>2, <1>3, FinishKeeps, StrategyIdle DEF IInv

\* Run begins a batch.
LEMMA BeginKeeps == ASSUME IInv, Begin PROVE IInv'
<1> USE DEF IInv
<1>1. /\ pc = "loop" /\ pc' = "propose" /\ batch' = <<>> /\ batch = <<>>
      /\ UNCHANGED <<narrowed, canceled, expired, ordinal, started, at, retired,
                     runErr, worst, violation, verdict, told, hit, unrun>>
    BY DEF Begin, history, BatchInv
<1>2. StrategyInv' /\ TreesKept
    BY EndsProbing, StrategyIdle DEF Begin
<1>3. Waiting = {} /\ Waiting' = {}
    BY <1>1 DEF Waiting
<1>4. EngineInv'
    BY <1>1 DEF EngineInv
<1>5. BatchInv'
    BY <1>1 DEF BatchInv, EngineInv
<1>6. FoldInv' /\ DoneInv'
    BY <1>1, <1>3 DEF FoldInv, DoneInv
<1>7. HandedInv' /\ EvidenceIsOwn'
    BY <1>1, <1>2, <1>3, HandedStays, EvidenceStands
<1> QED BY <1>2, <1>4, <1>5, <1>6, <1>7

\* A node without a visit was never observed.
LEMMA UnvisitedUntold ==
    ASSUME IInv, NEW p \in Probe, NEW n \in Node, tree[p].visits[n] = 0
    PROVE  told[p][n] = {}
<1> DEFINE T == {m \in Subtree(n) : told[p][m] # {}}
<1>1. Cardinality(T) = 0
    BY EvidenceSums DEF IInv, Sums
<1>2. T \in SUBSET Seen(told[p]) /\ IsFiniteSet(Seen(told[p]))
    BY DEF Seen, Subtree, IInv, HandedInv
<1>3. T = {}
    BY <1>1, <1>2, FS_Subset, FS_EmptySet
<1>4. n \in Subtree(n)
    BY PathIn DEF Subtree
<1> QED BY <1>3, <1>4

\* A world more for the batch.
LEMMA TakeKeeps ==
    ASSUME IInv, StrategyInv', TreesKept, NEW what \in Proposal, Take(what),
           narrowed' \in BOOLEAN,
           what.by = "tree" => /\ what.node \in Node
                               /\ tree[what.probe].visits[what.node] = 0
                               /\ what.node \notin tree[what.probe].pending
                               /\ what.node \in tree'[what.probe].pending
    PROVE  IInv'
<1> USE DEF IInv
<1> DEFINE w == [for |-> what, is |-> "proposed", novel |-> FALSE]
           k == Len(batch) + 1
<1>1. /\ pc = "propose" /\ pc' = "propose" /\ Len(batch) < Workers /\ ordinal + Len(batch) < Worlds
      /\ batch' = Append(batch, w) /\ ordinal' = ordinal + 1
      /\ UNCHANGED <<canceled, expired, started, at, retired, runErr, worst,
                     violation, verdict, told, hit, unrun>>
    BY DEF Take, Proposing, Fits, history
<1>2. w \in World /\ batch \in Seq(World) /\ Len(batch) \in Nat /\ w.for = what /\ w.is = "proposed"
    BY LenProperties DEF World, EngineInv
<1> HIDE DEF w
<1>3. /\ batch' \in Seq(World) /\ Len(batch') = k
      /\ \A i \in 1..Len(batch) : batch'[i] = batch[i]
      /\ batch'[k] = w
    BY <1>1, <1>2, AppendProperties
<1>4. Waiting = 1..Len(batch) /\ Waiting' = 1..k
    BY <1>1, <1>3 DEF Waiting
<1>5. \A i \in 1..k : i \in 1..Len(batch) \/ i = k
    BY <1>2
<1>6. EngineInv'
    <2>1. \A i \in 1..k : batch'[i].for.by = "tree" => batch'[i].for.node \in Node
        BY <1>2, <1>3, <1>5 DEF EngineInv
    <2>2. Len(batch') <= Workers /\ ordinal' \in 0..Worlds
        BY <1>1, <1>2, <1>3, SearchAssumption DEF EngineInv
    <2> QED BY <1>1, <1>3, <2>1, <2>2 DEF EngineInv
<1>7. BatchInv'
    <2>1. \A i \in 1..k : batch'[i].is = "proposed"
        BY <1>1, <1>2, <1>3, <1>5 DEF BatchInv, Is
    <2>2. ordinal' = started' + Len(batch')
        BY <1>1, <1>2, <1>3 DEF BatchInv, EngineInv
    <2> QED BY <1>1, <1>3, <2>1, <2>2 DEF BatchInv, Is
<1>8. FoldInv' /\ DoneInv'
    <2>1. \A i \in 1..k : batch'[i].is = "proposed"
        BY <1>1, <1>2, <1>3, <1>5 DEF BatchInv, Is
    <2>2. \A i \in 1..Len(batch) : batch[i].is = "proposed"
        BY <1>1 DEF BatchInv, Is
    <2>3. hit <=> worst = "violation"
        BY <1>1, <1>4, <2>2 DEF FoldInv
    <2>4. DoneInv'
        BY <1>1 DEF DoneInv
    <2> QED BY <1>1, <1>4, <2>1, <2>3, <2>4 DEF FoldInv
<1>9. HandedInv'
    <2>1. \A i \in 1..Len(batch) : batch[i].for.by = "tree" =>
             /\ batch[i].for.node \in tree[batch[i].for.probe].pending
             /\ batch[i].for.node \in tree'[batch[i].for.probe].pending
        BY <1>4, BatchTyped DEF HandedInv, TreesKept
    <2>2. what.probe \in Probe
        BY DEF Proposal
    <2>3. ASSUME NEW i \in 1..k, batch'[i].for.by = "tree"
          PROVE  /\ batch'[i].for.node \in tree'[batch'[i].for.probe].pending
                 /\ told'[batch'[i].for.probe][batch'[i].for.node] = {}
                 /\ \A j \in 1..k : batch'[j].for = batch'[i].for => j = i
        <3>1. CASE i \in 1..Len(batch)
            <4>1. batch'[i] = batch[i]
                BY <1>3, <3>1
            <4>2. batch[i].for # what
                BY <2>1, <2>3, <3>1, <4>1
            <4>3. \A j \in 1..k : batch'[j].for = batch[i].for => j = i
                BY <1>2, <1>3, <1>4, <1>5, <2>3, <3>1, <4>1, <4>2 DEF HandedInv
            <4> QED BY <1>1, <1>4, <2>1, <2>3, <3>1, <4>1, <4>3 DEF HandedInv
        <3>2. CASE i = k
            <4>1. batch'[i].for = what
                BY <1>2, <1>3, <3>2
            <4>2. told[what.probe][what.node] = {}
                BY <2>2, <2>3, <4>1, UnvisitedUntold
            <4>3. \A j \in 1..Len(batch) : batch'[j].for # what
                BY <1>3, <2>1, <2>3, <4>1
            <4> QED BY <1>1, <1>5, <2>3, <3>2, <4>1, <4>2, <4>3
        <3> QED BY <1>5, <3>1, <3>2
    <2> QED BY <1>1, <1>4, <2>3 DEF HandedInv
<1>10. EvidenceIsOwn'
    BY <1>1, EvidenceStands
<1> QED BY <1>6, <1>7, <1>8, <1>9, <1>10

\* The batch is handed to the pool.
LEMMA LaunchKeeps ==
    ASSUME IInv, StrategyInv', TreesKept, pc = "propose", pc' = "run",
           started' = started + Len(batch),
           UNCHANGED <<narrowed, canceled, expired, ordinal, batch, at, retired, runErr,
                       worst, violation, verdict, told, hit, unrun>>
    PROVE  IInv'
<1> USE DEF IInv
<1>1. Waiting' = Waiting
    BY DEF Waiting
<1>2. Len(batch) \in Nat
    BY DEF EngineInv
<1>3. \A i \in 1..Len(batch) : Is(i, "proposed") /\ ~Is(i, "running")
    BY DEF BatchInv, Is
<1>4. InFlight' = 0
    <2>1. {i \in 1..Len(batch) : batch'[i].is = "running"} = {}
        BY <1>3 DEF Is
    <2>2. DOMAIN batch = 1..Len(batch)
        BY LenProperties DEF EngineInv
    <2> QED BY <2>1, <2>2, FS_EmptySet DEF InFlight, Is
<1>5. ordinal = started + Len(batch)
    BY DEF BatchInv
<1>6. EngineInv'
    BY <1>5 DEF EngineInv
<1>7. BatchInv'
    <2>1. InFlight' + retired' <= Workers
        BY <1>4, SearchAssumption DEF EngineInv
    <2>2. \A i, j \in 1..Len(batch') : i < j /\ Is(i, "proposed")' => Is(j, "proposed")'
        BY <1>3 DEF Is
    <2> QED BY <1>5, <2>1, <2>2 DEF BatchInv, EngineInv, Is
<1>8. FoldInv' /\ DoneInv'
    BY <1>1 DEF FoldInv, DoneInv, Is
<1>9. HandedInv' /\ EvidenceIsOwn'
    BY <1>1, HandedStays, EvidenceStands
<1> QED BY <1>6, <1>7, <1>8, <1>9

\* The batch is full, or no more of it fits: it is handed to the pool, and an empty one
\* ends the search.
LEMMA SubmitKeeps == ASSUME IInv, Submit PROVE IInv'
<1>1. pc = "propose" /\ (Len(batch) = Workers \/ ~Fits) /\ UNCHANGED saboteur /\ UNCHANGED history
    BY DEF Submit
<1>2. StrategyInv' /\ TreesKept
    BY <1>1, StrategyIdle DEF IInv
<1>3. CASE batch = <<>>
    <2>1. Finish(FALSE)
        BY <1>3 DEF Submit
    <2>2. Len(batch) = 0
        BY <1>3
    <2>3. Workers \in 1..Worlds /\ Worlds \in Nat
        BY SearchAssumption
    <2>4. ~(ordinal + Len(batch) < Worlds)
        BY <1>1, <1>3, <2>2, <2>3 DEF Fits
    <2>5. started = Worlds
        BY <1>1, <2>2, <2>3, <2>4 DEF IInv, BatchInv, EngineInv
    <2> QED BY <1>1, <1>2, <1>3, <2>1, <2>5, FinishKeeps
<1>4. CASE batch # <<>>
    <2>1. /\ pc' = "run" /\ started' = started + Len(batch)
          /\ UNCHANGED <<narrowed, canceled, expired, ordinal, batch, at, retired,
                           runErr, worst, violation, verdict>>
        BY <1>4 DEF Submit
    <2> QED BY <1>1, <1>2, <2>1, LaunchKeeps DEF history
<1> QED BY <1>3, <1>4

\* A failed proposal ends the batch, and the search if the batch is empty.
LEMMA FailureKeeps == ASSUME IInv, ProposalFails PROVE IInv'
<1>1. pc = "propose" /\ UNCHANGED history
    BY DEF ProposalFails, Proposing
<1>2. StrategyInv' /\ TreesKept
    BY StrategyIdle, RefusalKeeps, MutationProposed DEF ProposalFails, IInv
<1>3. CASE batch = <<>>
    <2>1. Finish(TRUE)
        BY <1>3 DEF ProposalFails
    <2> QED BY <1>1, <1>2, <1>3, <2>1, FinishKeeps
<1>4. CASE batch # <<>>
    <2>1. /\ pc' = "run" /\ started' = started + Len(batch)
          /\ UNCHANGED <<narrowed, canceled, expired, ordinal, batch, at, retired,
                           runErr, worst, violation, verdict>>
        BY <1>4 DEF ProposalFails
    <2> QED BY <1>1, <1>2, <2>1, LaunchKeeps DEF history
<1> QED BY <1>3, <1>4

\* The preflight refuses the batch: none of its worlds runs.
LEMMA RefuseKeeps == ASSUME IInv, RefuseBatch PROVE IInv'
<1> USE DEF IInv
<1>1. /\ pc = "run" /\ Is(1, "proposed") /\ batch' = <<>> /\ pc' = "decide"
      /\ runErr' = "preflight" /\ unrun' = TRUE
      /\ UNCHANGED <<narrowed, canceled, expired, ordinal, started, at, retired, worst,
                     violation, verdict, saboteur, told, hit>>
    BY DEF RefuseBatch, NextRequest
<1>2. StrategyInv' /\ TreesKept
    BY <1>1, StrategyIdle
<1>3. Waiting' = {} /\ Waiting = 1..Len(batch) /\ Len(batch) \in Nat
    BY <1>1 DEF Waiting, EngineInv
<1>4. \A i \in 1..Len(batch) : batch[i].is = "proposed"
    BY <1>1, <1>3 DEF BatchInv, Is
<1>5. hit <=> worst = "violation"
    BY <1>1, <1>3, <1>4 DEF FoldInv
<1>6. EngineInv'
    <2>1. batch' \in Seq(World) /\ Len(batch') = 0
        BY <1>1, EmptySeq
    <2>2. Workers \in Nat
        BY SearchAssumption
    <2> QED BY <1>1, <2>1, <2>2 DEF EngineInv
<1>7. BatchInv' /\ DoneInv'
    BY <1>1 DEF BatchInv, DoneInv
<1>8. FoldInv'
    BY <1>1, <1>3, <1>5 DEF FoldInv
<1>9. HandedInv' /\ EvidenceIsOwn'
    BY <1>1, <1>2, <1>3, HandedStays, EvidenceStands
<1> QED BY <1>2, <1>6, <1>7, <1>8, <1>9

\* One world of the batch becomes something else.
LEMMA EntryChanges ==
    ASSUME IInv, pc = "run", NEW i \in 1..Len(batch), NEW w \in World, w.for = batch[i].for,
           batch' = [batch EXCEPT ![i] = w], pc' = pc
    PROVE  /\ batch' \in Seq(World) /\ Len(batch') = Len(batch) /\ Len(batch) \in Nat
           /\ \A j \in 1..Len(batch) : batch'[j] = IF j = i THEN w ELSE batch[j]
           /\ Waiting = 1..Len(batch) /\ Waiting' = 1..Len(batch)
           /\ \A j \in 1..Len(batch) : batch'[j].for = batch[j].for
           /\ \A j \in 1..Len(batch') : batch'[j].for.by = "tree" => batch'[j].for.node \in Node
<1>1. batch \in Seq(World) /\ Len(batch) \in Nat
    BY LenProperties DEF IInv, EngineInv
<1>2. /\ batch' \in Seq(World) /\ Len(batch') = Len(batch)
      /\ \A j \in 1..Len(batch) : batch'[j] = IF j = i THEN w ELSE batch[j]
    BY <1>1, ExceptSeq
<1>3. Waiting = 1..Len(batch) /\ Waiting' = 1..Len(batch)
    BY <1>2 DEF Waiting
<1>4. \A j \in 1..Len(batch) : batch'[j].for = batch[j].for
    BY <1>2
<1> QED BY <1>1, <1>2, <1>3, <1>4 DEF IInv, EngineInv

\* The worlds that run.
Running == {i \in 1..Len(batch) : batch[i].is = "running"}

\* The worlds in flight are the ones that run, and their number is a number.
LEMMA RunningCounted ==
    ASSUME EngineInv
    PROVE  /\ InFlight = Cardinality(Running) /\ IsFiniteSet(Running)
           /\ InFlight \in Nat
<1>1. DOMAIN batch = 1..Len(batch) /\ Len(batch) \in Nat
    BY LenProperties DEF EngineInv
<1>2. IsFiniteSet(1..Len(batch))
    BY <1>1, FS_Interval
<1>3. IsFiniteSet(Running)
    BY <1>2, FS_Subset DEF Running
<1>4. InFlight = Cardinality(Running)
    BY <1>1 DEF InFlight, Running, Is
<1> QED BY <1>3, <1>4, FS_CardinalityType

\* The same in the next state.
LEMMA RunningStill == ASSUME EngineInv' PROVE InFlight' = Cardinality(Running')
<1>1. DOMAIN batch' = 1..Len(batch')
    BY LenProperties DEF EngineInv
<1> QED BY <1>1 DEF InFlight, Running, Is

\* One world of the batch becomes something else, and no request before it waits: what
\* that leaves to show is of the lanes and of the fold.
LEMMA EntryKeeps ==
    ASSUME IInv, pc = "run", NEW i \in 1..Len(batch), NEW w \in World, w.for = batch[i].for,
           w.is # "proposed", \A j \in 1..(i - 1) : ~Is(j, "proposed"),
           batch' = [batch EXCEPT ![i] = w], runErr' \in {"none", "preflight", "canceled", "exhausted"},
           retired' \in 0..Workers, hit' \in BOOLEAN, unrun' \in BOOLEAN,
           UNCHANGED <<narrowed, canceled, expired, pc, ordinal, started, at, worst,
                       violation, verdict, saboteur, told>>
    PROVE  /\ StrategyInv' /\ EngineInv' /\ DoneInv' /\ HandedInv' /\ EvidenceIsOwn'
           /\ InFlight' + retired' <= Workers => BatchInv'
<1> USE DEF IInv
<1>1. /\ batch' \in Seq(World) /\ Len(batch') = Len(batch) /\ Len(batch) \in Nat
      /\ \A j \in 1..Len(batch) : batch'[j] = IF j = i THEN w ELSE batch[j]
      /\ Waiting = 1..Len(batch) /\ Waiting' = 1..Len(batch)
      /\ \A j \in 1..Len(batch) : batch'[j].for = batch[j].for
      /\ \A j \in 1..Len(batch') : batch'[j].for.by = "tree" => batch'[j].for.node \in Node
    BY EntryChanges
<1>2. StrategyInv' /\ TreesKept
    BY StrategyIdle
<1>3. EngineInv'
    BY <1>1 DEF EngineInv
<1>4. DoneInv'
    BY DEF DoneInv
<1>5. HandedInv' /\ EvidenceIsOwn'
    BY <1>1, <1>2, HandedStays, EvidenceStands
<1>6. ASSUME InFlight' + retired' <= Workers PROVE BatchInv'
    <2>1. ASSUME NEW a \in 1..Len(batch), NEW b \in 1..Len(batch), a < b,
                 batch'[a].is = "proposed"
          PROVE  batch'[b].is = "proposed"
        <3>1. a # i /\ batch[a].is = "proposed"
            BY <1>1, <2>1
        <3>2. batch[b].is = "proposed"
            BY <2>1, <3>1 DEF BatchInv, Is
        <3>3. b # i
            BY <2>1, <3>1 DEF Is
        <3> QED BY <1>1, <3>2, <3>3
    <2> QED BY <1>1, <1>6, <2>1 DEF BatchInv, Is
<1> QED BY <1>2, <1>3, <1>4, <1>5, <1>6

\* A world takes a lane: there was one that neither runs a world nor is retired.
LEMMA StartKeeps == ASSUME IInv, NEW i \in DOMAIN batch, StartWorld(i) PROVE IInv'
<1> USE DEF IInv
<1> DEFINE w == [batch[i] EXCEPT !.is = "running"]
<1>1. /\ pc = "run" /\ batch[i].is = "proposed" /\ \A j \in 1..(i - 1) : ~Is(j, "proposed")
      /\ InFlight + retired < Workers /\ batch' = [batch EXCEPT ![i] = w]
      /\ UNCHANGED <<narrowed, canceled, expired, pc, ordinal, started, at, retired,
                     runErr, worst, violation, verdict, saboteur, told, hit, unrun>>
    BY DEF StartWorld, NextRequest, Is, history
<1>2. i \in 1..Len(batch)
    BY LenProperties DEF EngineInv
<1>3. w \in World /\ w.for = batch[i].for /\ w.is = "running"
    BY <1>2, BatchTyped DEF World
<1> HIDE DEF w
<1>4. /\ Len(batch') = Len(batch)
      /\ \A j \in 1..Len(batch) : batch'[j] = IF j = i THEN w ELSE batch[j]
      /\ Waiting = 1..Len(batch) /\ Waiting' = 1..Len(batch)
    BY <1>1, <1>2, <1>3, EntryChanges
<1>5. /\ StrategyInv' /\ EngineInv' /\ DoneInv' /\ HandedInv' /\ EvidenceIsOwn'
      /\ InFlight' + retired' <= Workers => BatchInv'
    <2>1. runErr' \in {"none", "preflight", "canceled", "exhausted"} /\ retired' \in 0..Workers
          /\ hit' \in BOOLEAN /\ unrun' \in BOOLEAN
        BY <1>1 DEF EngineInv
    <2> QED BY <1>1, <1>2, <1>3, <2>1, EntryKeeps
<1>6. InFlight' = InFlight + 1
    <2>1. Running' = Running \cup {i} /\ i \notin Running
        BY <1>1, <1>2, <1>3, <1>4 DEF Running
    <2> QED BY <1>5, <2>1, RunningCounted, RunningStill, FS_AddElement
<1>7. BatchInv'
    BY <1>1, <1>5, <1>6, RunningCounted, SearchAssumption DEF EngineInv
<1>8. FoldInv'
    BY <1>1, <1>2, <1>3, <1>4 DEF FoldInv, Is
<1> QED BY <1>5, <1>7, <1>8

\* A world that gets no lane is canceled or refused, and the pool says why.
LEMMA NoLaneKeeps == ASSUME IInv, NEW i \in DOMAIN batch, NoLane(i) PROVE IInv'
<1> USE DEF IInv
<1>1. /\ pc = "run" /\ batch[i].is = "proposed" /\ \A j \in 1..(i - 1) : ~Is(j, "proposed")
      /\ unrun' = TRUE
      /\ UNCHANGED <<narrowed, canceled, expired, pc, ordinal, started, at, retired,
                     worst, violation, verdict, saboteur, told, hit>>
    BY DEF NoLane, NextRequest, Is
<1>2. i \in 1..Len(batch)
    BY LenProperties DEF EngineInv
<1>3. PICK is \in {"canceled", "refused"} :
         /\ batch' = [batch EXCEPT ![i] = [batch[i] EXCEPT !.is = is]]
         /\ runErr' \in {runErr, "canceled", "exhausted"}
         /\ runErr' = "exhausted" => runErr = "exhausted" \/ is = "refused"
    BY DEF NoLane
<1> DEFINE w == [batch[i] EXCEPT !.is = is]
<1>4. w \in World /\ w.for = batch[i].for /\ w.is = is
    BY <1>2, BatchTyped DEF World
<1>5. batch' = [batch EXCEPT ![i] = w]
    BY <1>3
<1> HIDE DEF w
<1>6. /\ Len(batch') = Len(batch)
      /\ \A j \in 1..Len(batch) : batch'[j] = IF j = i THEN w ELSE batch[j]
      /\ Waiting = 1..Len(batch) /\ Waiting' = 1..Len(batch)
    BY <1>1, <1>2, <1>4, <1>5, EntryChanges
<1>7. /\ StrategyInv' /\ EngineInv' /\ DoneInv' /\ HandedInv' /\ EvidenceIsOwn'
      /\ InFlight' + retired' <= Workers => BatchInv'
    <2>1. runErr' \in {"none", "preflight", "canceled", "exhausted"} /\ retired' \in 0..Workers
          /\ hit' \in BOOLEAN /\ unrun' \in BOOLEAN
        BY <1>1, <1>3 DEF EngineInv
    <2>2. w.is # "proposed"
        BY <1>4
    <2> QED BY <1>1, <1>2, <1>4, <1>5, <2>1, <2>2, EntryKeeps
<1>8. InFlight' = InFlight
    <2>1. Running' = Running
        BY <1>1, <1>2, <1>4, <1>6 DEF Running
    <2> QED BY <1>7, <2>1, RunningCounted, RunningStill
<1>9. BatchInv'
    BY <1>1, <1>7, <1>8 DEF BatchInv
<1>10. FoldInv'
    BY <1>1, <1>2, <1>3, <1>4, <1>6 DEF FoldInv, Is
<1> QED BY <1>7, <1>9, <1>10

\* A world returns, and its lane is free or retired.
LEMMA ReturnKeeps == ASSUME IInv, NEW i \in DOMAIN batch, WorldReturns(i) PROVE IInv'
<1> USE DEF IInv
<1>1. /\ pc = "run" /\ batch[i].is = "running"
      /\ UNCHANGED <<narrowed, canceled, expired, pc, ordinal, started, at, runErr,
                     worst, violation, verdict, saboteur, told, unrun>>
    BY DEF WorldReturns, Is
<1>2. i \in 1..Len(batch) /\ batch \in Seq(World)
    BY LenProperties DEF EngineInv
<1>3. PICK w \in World :
         /\ batch' = [batch EXCEPT ![i] = w] /\ w.for = batch[i].for
         /\ w.is \in Ends \cup {"canceled"} /\ retired' \in {retired, retired + 1}
         /\ hit' = (hit \/ w.is \in {"violated", "glimpsed"})
    <2>1. batch[i] \in World
        BY <1>2, BatchTyped
    <2>2. CASE \E r \in Results :
                 /\ batch' = [batch EXCEPT ![i].is = r.is, ![i].novel = r.novel]
                 /\ retired' \in {retired} \cup
                       IF r.is \in {"failed", "violated"} THEN {retired + 1} ELSE {}
                 /\ hit' = (hit \/ OutcomeOf(r.is) = "violation")
        <3>1. PICK r \in Results :
                 /\ batch' = [batch EXCEPT ![i].is = r.is, ![i].novel = r.novel]
                 /\ retired' \in {retired, retired + 1}
                 /\ hit' = (hit \/ OutcomeOf(r.is) = "violation")
            BY <2>2
        <3>2. r.is \in Ends /\ r.novel \in BOOLEAN
            BY SearchAssumption
        <3> DEFINE v == [batch[i] EXCEPT !.is = r.is, !.novel = r.novel]
        <3>3. v \in World /\ v.for = batch[i].for /\ v.is = r.is
            BY <2>1, <3>2 DEF World
        <3>4. batch' = [batch EXCEPT ![i] = v]
            BY <1>2, <2>1, <3>1
        <3>5. OutcomeOf(r.is) = "violation" <=> r.is \in {"violated", "glimpsed"}
            BY <3>2, OutcomeTyped
        <3> HIDE DEF v
        <3>6. v.is \in Ends \cup {"canceled"} /\ hit' = (hit \/ v.is \in {"violated", "glimpsed"})
            BY <3>1, <3>2, <3>3, <3>5
        <3> QED BY <3>1, <3>3, <3>4, <3>6
    <2>3. CASE canceled /\ batch' = [batch EXCEPT ![i].is = "canceled"] /\ UNCHANGED <<retired, hit>>
        <3> DEFINE v == [batch[i] EXCEPT !.is = "canceled"]
        <3>1. v \in World /\ v.for = batch[i].for /\ v.is = "canceled"
            BY <2>1 DEF World
        <3>2. batch' = [batch EXCEPT ![i] = v]
            BY <2>3
        <3> HIDE DEF v
        <3>3. hit' = (hit \/ v.is \in {"violated", "glimpsed"})
            BY <2>3, <3>1 DEF EngineInv
        <3> QED BY <2>3, <3>1, <3>2, <3>3
    <2> QED BY <2>2, <2>3 DEF WorldReturns
<1>4. /\ Len(batch') = Len(batch)
      /\ \A j \in 1..Len(batch) : batch'[j] = IF j = i THEN w ELSE batch[j]
      /\ Waiting = 1..Len(batch) /\ Waiting' = 1..Len(batch)
    BY <1>1, <1>2, <1>3, EntryChanges
<1>5. w.is \notin {"proposed", "running", "refused"}
    BY <1>3 DEF Ends
<1>6. Running' = Running \ {i} /\ i \in Running
    BY <1>1, <1>2, <1>4, <1>5 DEF Running
<1>7. InFlight \in Nat /\ InFlight >= 1 /\ InFlight + retired <= Workers
      /\ Cardinality(Running') = InFlight - 1
    <2>1. Cardinality(Running') = InFlight - 1 /\ InFlight \in Nat
        BY <1>6, RunningCounted, FS_RemoveElement
    <2>2. InFlight # 0
        BY <1>6, RunningCounted, FS_EmptySet
    <2> QED BY <1>1, <2>1, <2>2 DEF BatchInv
<1>8. retired' \in 0..Workers
    BY <1>3, <1>7, SearchAssumption DEF EngineInv
<1>9. /\ StrategyInv' /\ EngineInv' /\ DoneInv' /\ HandedInv' /\ EvidenceIsOwn'
      /\ InFlight' + retired' <= Workers => BatchInv'
    <2>1. \A j \in 1..(i - 1) : ~Is(j, "proposed")
        BY <1>1, <1>2 DEF BatchInv, Is, EngineInv
    <2>2. runErr' \in {"none", "preflight", "canceled", "exhausted"} /\ unrun' \in BOOLEAN
          /\ hit' \in BOOLEAN
        BY <1>1, <1>3 DEF EngineInv
    <2> QED BY <1>1, <1>2, <1>3, <1>5, <1>8, <2>1, <2>2, EntryKeeps
<1>10. BatchInv'
    <2>1. InFlight' = InFlight - 1
        BY <1>7, <1>9, RunningStill
    <2> QED BY <1>3, <1>7, <1>9, <2>1, SearchAssumption DEF EngineInv
<1>11. FoldInv'
    <2>1. hit' <=> \/ worst = "violation"
                   \/ \E j \in 1..Len(batch) : batch'[j].is \in {"violated", "glimpsed"}
        <3>1. hit <=> \/ worst = "violation"
                      \/ \E j \in 1..Len(batch) : batch[j].is \in {"violated", "glimpsed"}
            BY <1>1, <1>4 DEF FoldInv
        <3> QED BY <1>1, <1>2, <1>3, <1>4, <3>1
    <2>2. runErr' = "exhausted" => \/ worst' \in {"harness_error", "violation"}
                                   \/ \E j \in Waiting' : Is(j, "refused")'
        BY <1>1, <1>2, <1>4 DEF FoldInv, Is
    <2> QED BY <1>1, <1>4, <2>1, <2>2 DEF FoldInv
<1> QED BY <1>9, <1>10, <1>11

\* Every world has ended, and the engine absorbs them in order.
LEMMA RunReturnsKeeps == ASSUME IInv, RunReturns PROVE IInv'
<1> USE DEF IInv
<1>1. /\ pc = "run" /\ \A i \in DOMAIN batch : ~Is(i, "proposed") /\ ~Is(i, "running")
      /\ pc' = "absorb" /\ at' = 1 /\ violation' = FALSE
      /\ UNCHANGED <<narrowed, canceled, expired, ordinal, started, batch, retired,
                     runErr, worst, verdict, saboteur, told, hit, unrun>>
    BY DEF RunReturns, history
<1>2. DOMAIN batch = 1..Len(batch) /\ Len(batch) \in Nat
    BY LenProperties DEF EngineInv
<1>3. Waiting = 1..Len(batch) /\ Waiting' = 1..Len(batch)
    BY <1>1, <1>2 DEF Waiting
<1>4. StrategyInv' /\ TreesKept
    BY <1>1, StrategyIdle
<1>5. EngineInv'
    <2>1. at' \in 1..(Workers + 1)
        BY <1>1, SearchAssumption
    <2> QED BY <1>1, <2>1 DEF EngineInv
<1>6. BatchInv'
    BY <1>1, <1>2 DEF BatchInv, Is, EngineInv
<1>7. FoldInv' /\ DoneInv'
    BY <1>1, <1>3 DEF FoldInv, DoneInv, Is
<1>8. HandedInv' /\ EvidenceIsOwn'
    BY <1>1, <1>3, <1>4, HandedStays, EvidenceStands
<1> QED BY <1>4, <1>5, <1>6, <1>7, <1>8

\* A rollout of a node that was not observed: the tree adds it up where its history
\* says it.
LEMMA RolloutAddsUp ==
    ASSUME NEW t \in Tree, NEW h \in [Node -> SUBSET Reported], IsFiniteSet(Seen(h)),
           Sums(t.visits, t.novel, t.violations, h),
           NEW n \in Node, NEW e \in Reported, h[n] = {},
           NEW g, g = [h EXCEPT ![n] = {e}],
           NEW u, u = Backpropagate(t, n, e)
    PROVE  Sums(u.visits, u.novel, u.violations, g)
<1>1. \A m \in Node :
         /\ u.visits[m] = t.visits[m] + IF m \in Path[n] THEN 1 ELSE 0
         /\ u.novel[m] = (t.novel[m] \/ (m \in Path[n] /\ e.novel))
         /\ u.violations[m] = t.violations[m] + IF m \in Path[n] THEN e.violations ELSE 0
    BY RolloutCounts
<1>2. /\ \A m \in Node : g[m] = IF m = n THEN {e} ELSE h[m]
      /\ e.violations \in {0, 1} /\ e.novel \in BOOLEAN
    BY DEF Reported
<1>3. \A m \in Node : Subtree(m) \subseteq Node /\ (n \in Subtree(m) <=> m \in Path[n])
    BY DEF Subtree
<1>4. ASSUME NEW m \in Node
      PROVE  LET T == {k \in Subtree(m) : g[k] # {}}
             IN  /\ u.visits[m] = Cardinality(T)
                 /\ u.novel[m] = (\E x \in UNION {g[k] : k \in Subtree(m)} : x.novel)
                 /\ u.violations[m] = Cardinality({k \in T : \E x \in g[k] : x.violations = 1})
    <2> DEFINE A == {k \in Subtree(m) : h[k] # {}}
               B == {k \in Subtree(m) : g[k] # {}}
               V == {k \in A : \E x \in h[k] : x.violations = 1}
               W == {k \in B : \E x \in g[k] : x.violations = 1}
    <2>1. /\ t.visits[m] = Cardinality(A)
          /\ t.novel[m] = (\E x \in UNION {h[k] : k \in Subtree(m)} : x.novel)
          /\ t.violations[m] = Cardinality(V)
        BY Zenon DEF Sums
    <2>2. A \in SUBSET Seen(h) /\ V \in SUBSET Seen(h) /\ n \notin A /\ n \notin V
        BY <1>3 DEF Seen
    <2>3. IsFiniteSet(A) /\ IsFiniteSet(V)
        BY <2>2, FS_Subset
    <2>4. /\ m \in Path[n] => B = A \cup {n}
          /\ m \notin Path[n] => B = A
        BY <1>2, <1>3
    <2>5. /\ m \in Path[n] /\ e.violations = 1 => W = V \cup {n}
          /\ ~(m \in Path[n] /\ e.violations = 1) => W = V
        BY <1>2, <1>3
    <2>6. (\E x \in UNION {g[k] : k \in Subtree(m)} : x.novel)
             <=> \/ \E x \in UNION {h[k] : k \in Subtree(m)} : x.novel
                 \/ m \in Path[n] /\ e.novel
        <3>1. (\E x \in UNION {g[k] : k \in Subtree(m)} : x.novel)
                 <=> \E k \in Subtree(m) : \E x \in g[k] : x.novel
            OBVIOUS
        <3>2. (\E x \in UNION {h[k] : k \in Subtree(m)} : x.novel)
                 <=> \E k \in Subtree(m) : \E x \in h[k] : x.novel
            OBVIOUS
        <3>3. (\E k \in Subtree(m) : \E x \in g[k] : x.novel)
                 <=> \/ \E k \in Subtree(m) : \E x \in h[k] : x.novel
                     \/ n \in Subtree(m) /\ e.novel
            BY <1>2, <1>3
        <3> QED BY <1>3, <3>1, <3>2, <3>3
    <2> HIDE DEF A, B, V, W
    <2>7. u.visits[m] = Cardinality(B)
        BY <1>1, <2>1, <2>2, <2>3, <2>4, FS_AddElement, FS_CardinalityType
    <2>8. u.violations[m] = Cardinality(W)
        <3>1. CASE m \in Path[n] /\ e.violations = 1
            <4>1. Cardinality(W) = Cardinality(V) + 1
                BY <2>2, <2>3, <2>5, <3>1, FS_AddElement
            <4> QED BY <1>1, <2>1, <3>1, <4>1
        <3>2. CASE ~(m \in Path[n] /\ e.violations = 1)
            <4>1. u.violations[m] = t.violations[m] + 0
                BY <1>1, <1>2, <3>2
            <4>2. Cardinality(V) \in Nat
                BY <2>3, FS_CardinalityType
            <4> QED BY <2>1, <2>5, <3>2, <4>1, <4>2
        <3> QED BY <3>1, <3>2
    <2>9. u.novel[m] = (\E x \in UNION {g[k] : k \in Subtree(m)} : x.novel)
        <3>1. t.novel[m] \in BOOLEAN
            BY DEF Tree
        <3>2. u.novel[m] = (t.novel[m] \/ (m \in Path[n] /\ e.novel))
            BY <1>1
        <3> QED BY <2>1, <2>6, <3>2, Zenon
    <2> QED BY <2>7, <2>8, <2>9, Zenon DEF B, W
<1> QED BY <1>4, Zenon DEF Sums

\* What the strategy is told of a world.
LEMMA EvidenceTyped == ASSUME NEW w \in World PROVE Evidence(w) \in Reported
BY DEF Evidence, Reported, World

\* What the fold makes of one more world.
LEMMA FoldGrows ==
    ASSUME IInv, Absorb
    PROVE  /\ worst' \in WorldOutcomes /\ violation' \in BOOLEAN
           /\ violation' => worst' = "violation"
           /\ worst' = "violation" <=> worst = "violation" \/ batch[at].is \in {"violated", "glimpsed"}
           /\ worst \in {"harness_error", "violation"} \/ batch[at].is = "refused"
                 => worst' \in {"harness_error", "violation"}
<1> USE DEF IInv
<1> DEFINE w == batch[at]
           o == OutcomeOf(w.is)
<1>1. /\ pc = "absorb" /\ at \in 1..Len(batch)
      /\ worst' = IF worst = "none" THEN o ELSE Worse(worst, o)
      /\ violation' = (violation \/ w.is = "violated")
    BY DEF Absorb, EngineInv
<1>2. w.is \in Ends \cup {"canceled", "refused"}
    BY <1>1, BatchTyped DEF BatchInv, Is, World
<1> HIDE DEF w
<1>3. /\ o \in WorldOutcomes
      /\ o = "violation" <=> w.is \in {"violated", "glimpsed"}
      /\ w.is = "refused" => o = "harness_error"
    BY <1>2, OutcomeTyped
<1> HIDE DEF o
<1>4. worst = "none" \/ worst \in WorldOutcomes
    BY DEF EngineInv, WorldOutcomes
<1>5. /\ worst' \in WorldOutcomes
      /\ worst' = "violation" <=> worst = "violation" \/ o = "violation"
      /\ {worst, o} \cap {"harness_error", "violation"} # {}
            => worst' \in {"harness_error", "violation"}
    <2>1. CASE worst = "none"
        BY <1>1, <1>3, <2>1
    <2>2. CASE worst \in WorldOutcomes
        <3>1. worst # "none"
            BY <2>2 DEF WorldOutcomes
        <3>2. worst' = Worse(worst, o)
            BY <1>1, <3>1
        <3> QED BY <1>3, <2>2, <3>2, FoldPrevails
    <2> QED BY <1>4, <2>1, <2>2
<1>6. violation => worst = "violation"
    BY DEF FoldInv
<1>7. violation' \in BOOLEAN /\ (violation' <=> violation \/ w.is = "violated")
    BY <1>1
<1> QED BY <1>3, <1>5, <1>6, <1>7 DEF w

\* absorb takes a world from the batch into the fold and into its tree: what waited
\* is one world less, and what the fold and the histories hold is that world more.
LEMMA AbsorbKeeps == ASSUME IInv, Absorb PROVE IInv'
<1> USE DEF IInv
<1> DEFINE w == batch[at]
           p == w.for.probe
           n == w.for.node
           e == Evidence(w)
<1>1. /\ pc = "absorb" /\ at \in 1..Len(batch) /\ at' = at + 1
      /\ UNCHANGED <<narrowed, canceled, expired, pc, ordinal, started, batch, retired,
                     runErr, verdict, hit, unrun>>
    BY DEF Absorb, EngineInv
<1>2. w \in World /\ p \in Probe /\ (w.for.by = "tree" => n \in Node)
      /\ at \in Nat /\ Len(batch) \in Nat
    BY <1>1, BatchTyped, LenProperties DEF EngineInv
<1>3. at \in Waiting /\ Waiting' = Waiting \ {at}
    BY <1>1, <1>2 DEF Waiting
<1>4. e \in Reported
    BY <1>2, EvidenceTyped
<1>5. \/ canceled /\ UNCHANGED <<saboteur, told>>
      \/ /\ Observe(w.for, e)
         /\ told' = IF w.for.by = "tree" THEN [told EXCEPT ![p][n] = @ \cup {e}] ELSE told
    BY DEF Absorb, Absorbed
<1> HIDE DEF w, p, n, e
<1>6. EngineInv'
    <2>1. at' \in 1..(Workers + 1)
        BY <1>1, <1>2, SearchAssumption DEF EngineInv
    <2>2. worst' \in {"none", "pass", "canceled", "inconclusive", "harness_error", "violation"}
          /\ violation' \in BOOLEAN
        BY FoldGrows DEF WorldOutcomes
    <2> QED BY <1>1, <2>1, <2>2 DEF EngineInv
<1>7. BatchInv' /\ DoneInv'
    BY <1>1 DEF BatchInv, DoneInv, Is
<1>8. FoldInv'
    <2>1. hit <=> \/ worst' = "violation"
                  \/ \E i \in Waiting' : batch[i].is \in {"violated", "glimpsed"}
        BY <1>1, <1>3, FoldGrows DEF FoldInv
    <2>2. runErr = "exhausted" => \/ worst' \in {"harness_error", "violation"}
                                  \/ \E i \in Waiting' : Is(i, "refused")
        BY <1>1, <1>3, FoldGrows DEF FoldInv, Is
    <2> QED BY <1>1, <2>1, <2>2, FoldGrows DEF FoldInv, Is
<1>9. CASE canceled /\ UNCHANGED <<saboteur, told>>
    <2>1. StrategyInv' /\ TreesKept
        BY <1>9, StrategyIdle
    <2>2. HandedInv' /\ EvidenceIsOwn'
        BY <1>1, <1>3, <1>9, <2>1, HandedStays, EvidenceStands
    <2> QED BY <1>6, <1>7, <1>8, <2>1, <2>2
<1>10. CASE Observe(w.for, e) /\ w.for.by # "tree" /\ told' = told
    <2>1. /\ tree' = tree /\ reinforcing' \subseteq Probe
          /\ UNCHANGED <<probeNext, probeDone, stage, escBuilt, rotation, turn, tried>>
        BY <1>2, <1>10 DEF Observe, StrategyInv, p
    <2>2. StrategyInv' /\ TreesKept
        BY <2>1 DEF StrategyInv, TreesKept
    <2>3. HandedInv' /\ EvidenceIsOwn'
        BY <1>1, <1>3, <1>10, <2>2, HandedStays, EvidenceStands
    <2> QED BY <1>6, <1>7, <1>8, <2>2, <2>3
<1>11. CASE /\ Observe(w.for, e) /\ w.for.by = "tree"
            /\ told' = [told EXCEPT ![p][n] = @ \cup {e}]
    <2> DEFINE t == tree[p]
               h == told[p]
               u == Backpropagate(t, n, e)
               g == [h EXCEPT ![n] = {e}]
    <2>1. /\ n \in Node /\ t \in Tree /\ h \in [Node -> SUBSET Reported] /\ IsFiniteSet(Seen(h))
          /\ told \in [Probe -> [Node -> SUBSET Reported]] /\ tree \in [Probe -> Tree]
        BY <1>2, <1>11 DEF HandedInv, StrategyInv
    <2>2. h[n] = {} /\ \A i \in Waiting' : batch[i].for # w.for
        BY <1>3, <1>11 DEF HandedInv, w, p, n
    <2>3. /\ tree' = [tree EXCEPT ![p] = u] /\ reinforcing' \subseteq Probe
          /\ UNCHANGED <<probeNext, probeDone, stage, escBuilt, rotation, turn, tried>>
        BY <1>2, <1>11 DEF Observe, StrategyInv, p, n
    <2>4. u \in Tree /\ u.pending = t.pending \ {n}
        BY <1>4, <2>1, RolloutCounts
    <2>5. Sums(u.visits, u.novel, u.violations, g)
        <3>1. Sums(t.visits, t.novel, t.violations, h)
            BY <1>2, EvidenceSums
        <3> QED BY <1>4, <2>1, <2>2, <3>1, RolloutAddsUp
    <2>6. told' = [told EXCEPT ![p] = g]
        BY <1>2, <1>11, <2>1, <2>2
    <2>7. /\ g \in [Node -> SUBSET Reported] /\ g[n] = {e}
          /\ \A m \in Node : m # n => g[m] = h[m]
        BY <1>4, <2>1
    <2>8. IsFiniteSet(Seen(g))
        <3>1. Seen(g) = Seen(h) \cup {n}
            BY <2>1, <2>7 DEF Seen
        <3>2. IsFiniteSet(Seen(h) \cup {n})
            BY <2>1, FS_AddElement
        <3> QED BY <3>1, <3>2, Zenon
    <2> HIDE DEF t, h, u, g
    <2>9. /\ tree' \in [Probe -> Tree] /\ tree'[p] = u
          /\ \A q \in Probe \ {p} : tree'[q] = tree[q]
        BY <1>2, <2>1, <2>3, <2>4
    <2>10. /\ told' \in [Probe -> [Node -> SUBSET Reported]] /\ told'[p] = g
           /\ \A q \in Probe \ {p} : told'[q] = told[q]
        BY <1>2, <2>1, <2>6, <2>7
    <2>11. StrategyInv'
        BY <2>3, <2>9 DEF StrategyInv
    <2>12. EvidenceIsOwn'
        <3>1. ASSUME NEW q \in Probe
              PROVE  Sums(tree'[q].visits, tree'[q].novel, tree'[q].violations, told'[q])
            <4>1. CASE q = p
                BY <2>5, <2>9, <2>10, <4>1
            <4>2. CASE q # p
                BY <2>9, <2>10, <4>2, EvidenceSums
            <4> QED BY <4>1, <4>2
        <3> QED BY <3>1, EvidenceSums
    <2>13. HandedInv'
        <3>1. \A q \in Probe : IsFiniteSet(Seen(told'[q]))
            BY <2>8, <2>10 DEF HandedInv
        <3>2. ASSUME NEW i \in Waiting', batch[i].for.by = "tree"
              PROVE  /\ batch[i].for.node \in tree'[batch[i].for.probe].pending
                     /\ told'[batch[i].for.probe][batch[i].for.node] = {}
                     /\ \A j \in Waiting' : batch[j].for = batch[i].for => j = i
            <4> DEFINE f == batch[i].for
            <4>1. i \in Waiting /\ i \in 1..Len(batch)
                BY <1>3 DEF Waiting
            <4>2. f \in Proposal /\ w.for \in Proposal /\ f.probe \in Probe /\ f.node \in Node
                BY <1>2, <3>2, <4>1, BatchTyped DEF World
            <4>3. f.node \in tree[f.probe].pending /\ told[f.probe][f.node] = {}
                  /\ \A j \in Waiting : batch[j].for = f => j = i
                BY <3>2, <4>1 DEF HandedInv
            <4>4. f # w.for /\ f.by = w.for.by
                BY <1>11, <2>2, <3>2
            <4>5. f.probe # p \/ f.node # n
                BY <4>2, <4>4 DEF Proposal, p, n
            <4> HIDE DEF f
            <4>6. CASE f.probe # p
                <5>1. tree'[f.probe] = tree[f.probe] /\ told'[f.probe] = told[f.probe]
                    BY <2>9, <2>10, <4>2, <4>6
                <5> QED BY <1>3, <4>3, <5>1 DEF f
            <4>7. CASE f.probe = p /\ f.node # n
                <5>1. f.node \in tree'[f.probe].pending
                    BY <2>4, <2>9, <4>3, <4>7 DEF t
                <5>2. told'[f.probe][f.node] = {}
                    BY <2>7, <2>10, <4>2, <4>3, <4>7 DEF h
                <5> QED BY <1>3, <4>3, <5>1, <5>2 DEF f
            <4> QED BY <4>5, <4>6, <4>7
        <3> QED BY <1>1, <2>10, <3>1, <3>2 DEF HandedInv
    <2> QED BY <1>6, <1>7, <1>8, <2>11, <2>12, <2>13
<1> QED BY <1>5, <1>9, <1>10, <1>11

\* The batch is absorbed.
LEMMA AbsorbsKeeps == ASSUME IInv, Absorbs PROVE IInv'
<1> USE DEF IInv
<1>1. /\ pc = "absorb" /\ at > Len(batch) /\ pc' = "decide" /\ batch' = <<>> /\ at' = 1
      /\ UNCHANGED <<narrowed, canceled, expired, ordinal, started, retired, runErr,
                     worst, violation, verdict, saboteur, told, hit, unrun>>
    BY DEF Absorbs, history
<1>2. Waiting = {} /\ Waiting' = {}
    BY <1>1 DEF Waiting, EngineInv
<1>3. StrategyInv' /\ TreesKept
    BY <1>1, StrategyIdle
<1>4. EngineInv'
    <2>1. batch' \in Seq(World) /\ Len(batch') = 0
        BY <1>1, EmptySeq
    <2>2. Workers \in Nat
        BY SearchAssumption
    <2> QED BY <1>1, <2>1, <2>2 DEF EngineInv
<1>5. BatchInv' /\ DoneInv'
    BY <1>1 DEF BatchInv, DoneInv
<1>6. FoldInv'
    BY <1>1, <1>2 DEF FoldInv
<1>7. HandedInv' /\ EvidenceIsOwn'
    BY <1>1, <1>2, <1>3, HandedStays, EvidenceStands
<1> QED BY <1>3, <1>4, <1>5, <1>6, <1>7

\* The search ends, with a reason, or goes on to the next batch.
LEMMA DecideKeeps == ASSUME IInv, Decide PROVE IInv'
<1> USE DEF IInv
<1>1. pc = "decide" /\ UNCHANGED saboteur /\ UNCHANGED history
    BY DEF Decide
<1>2. batch = <<>> /\ Waiting = {}
    BY <1>1 DEF BatchInv, Waiting
<1>3. StrategyInv' /\ TreesKept
    BY <1>1, StrategyIdle
<1>4. CASE Over
    <2>1. Finish(FALSE)
        BY <1>4 DEF Decide
    <2>2. canceled \/ worst \in {"harness_error", "violation"}
        BY <1>1, <1>2, <1>4 DEF Over, FoldInv
    <2> QED BY <1>1, <1>2, <1>3, <2>1, <2>2, FinishKeeps
<1>5. CASE ~Over
    <2>1. /\ pc' = "loop" /\ runErr' = "none" /\ violation' = FALSE
          /\ UNCHANGED <<narrowed, canceled, expired, ordinal, started, batch, at,
                         retired, worst, verdict, told, hit, unrun>>
        BY <1>1, <1>5 DEF Decide, history
    <2>2. Waiting' = {}
        BY <1>2, <2>1 DEF Waiting
    <2>3. EngineInv'
        BY <2>1 DEF EngineInv
    <2>4. BatchInv' /\ DoneInv'
        BY <1>1, <1>2, <2>1 DEF BatchInv, DoneInv
    <2>5. FoldInv'
        BY <1>1, <1>2, <2>1, <2>2 DEF FoldInv
    <2>6. HandedInv' /\ EvidenceIsOwn'
        BY <1>2, <1>3, <2>1, <2>2, HandedStays, EvidenceStands
    <2> QED BY <1>3, <2>3, <2>4, <2>5, <2>6
<1> QED BY <1>4, <1>5

\* The three proposals.
LEMMA ProposalsKeep ==
    ASSUME IInv, TakeProbe \/ TakeMutation \/ \E n \in Node : TakeRollout(n)
    PROVE  IInv'
<1> USE DEF IInv
<1>1. 0 \in Probe
    BY SweepAssumption DEF Probe
<1>2. CASE TakeProbe
    <2>1. Take(ForProbe(probeNext)) /\ ProposeProbe /\ narrowed' = narrowed
        BY <1>2 DEF TakeProbe
    <2>2. StrategyInv' /\ TreesKept /\ probeNext \in Probe
        BY <2>1, ProbeProposed
    <2>3. ForProbe(probeNext) \in Proposal /\ ForProbe(probeNext).by = "probe"
        BY <2>2 DEF ForProbe, Proposal
    <2> QED BY <2>1, <2>2, <2>3, TakeKeeps DEF EngineInv
<1>3. CASE TakeMutation
    <2>1. Take(Mutation) /\ ProposeMutation /\ narrowed' \in BOOLEAN
        BY <1>3 DEF TakeMutation, EngineInv
    <2>2. StrategyInv' /\ TreesKept
        BY <2>1, MutationProposed
    <2>3. Mutation \in Proposal /\ Mutation.by = "corpus"
        BY <1>1 DEF Mutation, Proposal
    <2> QED BY <2>1, <2>2, <2>3, TakeKeeps
<1>4. ASSUME NEW n \in Node, TakeRollout(n) PROVE IInv'
    <2>1. Take(ForNode(Current, n)) /\ ProposeRollout(n) /\ narrowed' = narrowed
        BY <1>4 DEF TakeRollout
    <2>2. /\ StrategyInv' /\ TreesKept /\ Current \in Probe
          /\ tree[Current].visits[n] = 0 /\ n \notin tree[Current].pending
          /\ n \in tree'[Current].pending
        BY <2>1, RolloutProposed
    <2> DEFINE what == ForNode(Current, n)
    <2>3. what \in Proposal /\ what.probe = Current /\ what.node = n
        BY <2>2 DEF ForNode, Proposal
    <2> HIDE DEF what
    <2>4. Take(what)
        BY <2>1 DEF what
    <2> QED BY <2>1, <2>2, <2>3, <2>4, TakeKeeps DEF EngineInv
<1> QED BY <1>2, <1>3, <1>4

\* The strategy turns, or the caller gives up.
LEMMA AsidesKeep == ASSUME IInv, Turn \/ Cancel \/ Expire PROVE IInv'
<1> USE DEF IInv
<1>1. CASE Turn
    <2>1. StrategyInv' /\ TreesKept
        BY <1>1, EscalationBuilt, TreeRetired DEF Turn
    <2>2. /\ canceled' \in BOOLEAN /\ expired' \in BOOLEAN
          /\ UNCHANGED <<narrowed, pc, ordinal, started, batch, at, retired, runErr, worst,
                         violation, verdict, told, hit, unrun>>
        BY <1>1 DEF Turn, engine, history, EngineInv
    <2> QED BY <2>1, <2>2, NothingChanges
<1>2. CASE Cancel
    <2>1. StrategyInv' /\ TreesKept
        BY <1>2, StrategyIdle DEF Cancel
    <2>2. /\ canceled' \in BOOLEAN /\ expired' \in BOOLEAN
          /\ UNCHANGED <<narrowed, pc, ordinal, started, batch, at, retired, runErr, worst,
                         violation, verdict, told, hit, unrun>>
        BY <1>2 DEF Cancel, history, EngineInv
    <2> QED BY <2>1, <2>2, NothingChanges
<1>3. CASE Expire
    <2>1. StrategyInv' /\ TreesKept
        BY <1>3, StrategyIdle DEF Expire
    <2>2. /\ canceled' \in BOOLEAN /\ expired' \in BOOLEAN
          /\ UNCHANGED <<narrowed, pc, ordinal, started, batch, at, retired, runErr, worst,
                         violation, verdict, told, hit, unrun>>
        BY <1>3 DEF Expire, history, EngineInv
    <2> QED BY <2>1, <2>2, NothingChanges
<1> QED BY <1>1, <1>2, <1>3

\* Every step keeps the invariant.
LEMMA NextKeeps == IInv /\ [Next]_vars => IInv'
<1> SUFFICES ASSUME IInv, [Next]_vars PROVE IInv'
    OBVIOUS
<1>1. CASE UNCHANGED vars
    <2>1. /\ UNCHANGED saboteur
          /\ UNCHANGED <<narrowed, canceled, expired, pc, ordinal, started, batch, at, retired,
                         runErr, worst, violation, verdict, told, hit, unrun>>
        BY <1>1 DEF vars, engine, history
    <2>2. StrategyInv' /\ TreesKept
        BY <2>1, StrategyIdle DEF IInv
    <2>3. canceled' \in BOOLEAN /\ expired' \in BOOLEAN
        BY <2>1 DEF IInv, EngineInv
    <2> QED BY <2>1, <2>2, <2>3, NothingChanges
<1>2. CASE Cancel \/ Expire \/ Turn
    BY <1>2, AsidesKeep
<1>3. CASE TakeProbe \/ TakeMutation \/ \E n \in Node : TakeRollout(n)
    BY <1>3, ProposalsKeep
<1>4. CASE Stop \/ Begin \/ ProposalFails \/ Submit
    BY <1>4, StopKeeps, BeginKeeps, FailureKeeps, SubmitKeeps
<1>5. CASE RefuseBatch \/ RunReturns \/ Absorb \/ Absorbs \/ Decide
    BY <1>5, RefuseKeeps, RunReturnsKeeps, AbsorbKeeps, AbsorbsKeeps, DecideKeeps
<1>6. ASSUME NEW i \in DOMAIN batch, StartWorld(i) \/ NoLane(i) \/ WorldReturns(i)
      PROVE  IInv'
    BY <1>6, StartKeeps, NoLaneKeeps, ReturnKeeps
<1> QED BY <1>1, <1>2, <1>3, <1>4, <1>5, <1>6 DEF Next, Engine

\* The invariant holds throughout.
LEMMA Invariance == Spec => []IInv
BY InitIInv, NextKeeps, PTL DEF Spec

-----------------------------------------------------------------------------
(* What follows from the invariant.                                        *)

\* Every variable of the search has its type: the counts stay within the budget, the
\* lanes within the workers, a tree within its nodes.
THEOREM SearchTypeOK == Spec => []TypeOK
<1>1. IInv => TypeOK
    <2> SUFFICES ASSUME IInv PROVE TypeOK
        OBVIOUS
    <2> USE DEF IInv
    <2>1. \A p \in Probe : /\ tree[p].expanded \cup tree[p].pending \cup tree[p].pruned \subseteq Node
                           /\ tree[p].visits \in [Node -> Nat]
        BY DEF StrategyInv, Tree
    <2>2. {narrowed, canceled, expired, violation, hit, unrun} \subseteq BOOLEAN
        BY DEF EngineInv
    <2>3. worst \in Outcomes \cup {"none"}
        BY DEF EngineInv, Outcomes
    <2> QED BY <2>1, <2>2, <2>3 DEF TypeOK, StrategyInv, EngineInv
<1> QED BY <1>1, Invariance, PTL

\* Run never counts more worlds than its budget, passes only when it has counted them
\* all, and says FAIL exactly when a world violated an oracle, in whatever order the
\* worlds of its batches ended and whatever stopped it.
THEOREM VerdictIsTrue == Spec => []VerdictIsTruthful
<1>1. IInv => VerdictIsTruthful
    <2> SUFFICES ASSUME IInv PROVE VerdictIsTruthful
        OBVIOUS
    <2>1. started <= Worlds
        BY SearchAssumption DEF IInv, EngineInv
    <2>2. verdict = "PASS" => pc = "done"
        BY DEF IInv, FoldInv
    <2>3. pc = "done" => /\ verdict = "PASS" => started = Worlds
                         /\ verdict = "FAIL" <=> hit
        BY DEF IInv, DoneInv
    <2> QED BY <2>1, <2>2, <2>3 DEF VerdictIsTruthful, BudgetIsMet, FailIffViolation
<1> QED BY <1>1, Invariance, PTL

\* What a node of a tree adds up to is what the rollouts of its subtree established,
\* each counted once, and no schedule is executed twice, though a batch proposes several
\* before the first is answered.
THEOREM TreesAddUp == Spec => []TreesAreAccountedFor
<1>1. IInv => TreesAreAccountedFor
    <2> SUFFICES ASSUME IInv PROVE TreesAreAccountedFor
        OBVIOUS
    <2> USE DEF IInv
    <2>1. DOMAIN batch = 1..Len(batch)
        BY LenProperties DEF EngineInv
    <2>2. pc \in {"propose", "run"} => Waiting = DOMAIN batch
        BY <2>1 DEF Waiting
    <2>3. NoRolloutTwice
        BY <2>2 DEF NoRolloutTwice, HandedInv
    <2> QED BY <2>3 DEF TreesAreAccountedFor
<1> QED BY <1>1, Invariance, PTL
==============================================================================
