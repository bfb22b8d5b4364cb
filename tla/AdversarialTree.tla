-------------------------- MODULE AdversarialTree --------------------------
(***************************************************************************)
(* The tree of one reinforcing signal: internal/search/saboteur/mcts.go    *)
(* and uct.go.                                                             *)
(*                                                                         *)
(* A node is a complete fault schedule.  The ladder gives every node the   *)
(* same children whenever it is asked, so a tree's shape is a constant and *)
(* its state is which nodes were expanded and handed out, and what their   *)
(* rollouts added up to.  Utilities are real numbers, and any child may    *)
(* score best once every child was visited.                                *)
(***************************************************************************)
EXTENDS Integers, FiniteSets, FiniteSetsExt

CONSTANTS
    Parent,        \* of each node but the root; nodes are numbered in preorder
    PruneVisits    \* visits after which a node without news is pruned

Root == 1
Node == DOMAIN Parent \cup {Root}

ASSUME TreeAssumption ==
    /\ DOMAIN Parent \subseteq Nat
    /\ \A n \in DOMAIN Parent : n > Root /\ Parent[n] \in Node /\ Parent[n] < n
    /\ PruneVisits \in Nat

\* A node's path to the root, itself included.
Path[n \in Node] == {n} \cup IF n = Root THEN {} ELSE Path[Parent[n]]

Subtree(n) == {m \in Node : n \in Path[m]}

NewTree == [expanded |-> {}, pending |-> {}, pruned |-> {},
            visits     |-> [n \in Node |-> 0],
            novel      |-> [n \in Node |-> FALSE],
            violations |-> [n \in Node |-> 0]]

Children(n) == {m \in DOMAIN Parent : Parent[m] = n}

\* Mutant of Live: what is already being executed may be handed out again.
LivePending(t, n) == Children(n) \ t.pruned

\* liveChildren: neither pruned nor handed out and unanswered.
Live(t, n) == {c \in Children(n) \ t.pruned : c \in t.pending => t.visits[c] > 0}

\* selectChild: the first unvisited child, else whichever scores best.
Selected(t, n) ==
    LET new == {c \in Live(t, n) : t.visits[c] = 0}
    IN  IF new = {} THEN Live(t, n) ELSE {Min(new)}

\* Where the descent from the root can pass, and where it goes on.
Descended(t, n) == n = Root \/ t.visits[n] > 0

Reached(t) ==
    LET reach[n \in Node] ==
            n = Root \/ /\ reach[Parent[n]]
                        /\ Descended(t, Parent[n])
                        /\ n \in Selected(t, Parent[n])
    IN  {n \in Node : reach[n]}

\* nextUnexecuted: the first node handed to nobody, in the tree as expanded.
Unexecuted(t) ==
    {n \in Node : /\ t.visits[n] = 0 /\ n \notin t.pending
                  /\ Path[n] \cap t.pruned = {}
                  /\ Path[n] \ {n} \subseteq t.expanded}

\* Select: the trees it may leave behind, each with the node it hands out, 0 when
\* it calls the tree exhausted.
Select(t) ==
    UNION {LET u == [t EXCEPT !.expanded = @ \cup {m \in Path[n] : Descended(t, m)}]
               Hand(m) == [node |-> m, tree |-> [u EXCEPT !.pending = @ \cup {m}]]
           IN  IF ~Descended(t, n) THEN {Hand(n)}
               ELSE IF Live(t, n) # {} THEN {}
               ELSE IF t.visits[n] = 0 /\ n \notin t.pending THEN {Hand(n)}
               ELSE IF Unexecuted(u) # {} THEN {Hand(Min(Unexecuted(u)))}
               ELSE {[node |-> 0, tree |-> u]} : n \in Reached(t)}

\* The nodes a rollout counts for: its own, and every one above it.
Credited(n) == Path[n]

\* prune: an unevaluable rollout prunes nothing, and the root is never pruned.
Uneventful(t, n, evaluable) ==
    {m \in Path[n] \ {Root} : /\ evaluable
                              /\ t.visits[m] >= PruneVisits
                              /\ ~t.novel[m] /\ t.violations[m] = 0}

\* Backpropagate what the world of node n established.
Backpropagate(t, n, r) ==
    LET On(m) == m \in Credited(n)
        u == [t EXCEPT
                !.pending = @ \ {n},
                !.visits = [m \in Node |-> @[m] + IF On(m) THEN 1 ELSE 0],
                !.novel = [m \in Node |-> @[m] \/ (On(m) /\ r.novel)],
                !.violations = [m \in Node |-> @[m] + IF On(m) THEN r.violations ELSE 0]]
    IN  [u EXCEPT !.pruned = @ \cup Uneventful(u, n, r.evaluable)]
=============================================================================
