------------------------------ MODULE Saboteur ------------------------------
(***************************************************************************)
(* The adversarial strategy: internal/search/saboteur/strategy.go and      *)
(* escalate.go.                                                            *)
(*                                                                         *)
(* It proposes a sweep of probe worlds, then rollouts of one tree for each *)
(* probe that reinforced, then mutations of the corpus.  What it proposes  *)
(* depends on what it has been told by then, and worlds are proposed a     *)
(* batch at a time.                                                        *)
(***************************************************************************)
EXTENDS AdversarialTree, Sequences, SequencesExt

CONSTANTS
    Probes,        \* fault probes of the sweep; the control world is probe 0
    MaxTrees       \* EscalateOptions.MaxTrees

ASSUME SweepAssumption == Probes \in Nat /\ MaxTrees \in Nat \ {0}

Probe == 0..Probes

VARIABLES
    probeNext,     \* the next probe to hand out
    probeDone,     \* the sweep is over
    reinforcing,   \* the probes classified as reinforcing, of those observed
    stage,         \* probe, escalate or mutate
    escBuilt,      \* the escalation was built, or could not be
    rotation,      \* its trees that are not exhausted, by their probe
    turn,          \* whose turn it is, Escalation.next
    tried,         \* the trees this call of Next has found exhausted
    tree           \* the tree of each probe

saboteur == <<probeNext, probeDone, reinforcing, stage, escBuilt, rotation, turn,
              tried, tree>>

SaboteurInit ==
    /\ probeNext = 0
    /\ probeDone = FALSE
    /\ reinforcing = {}
    /\ stage = "probe"
    /\ escBuilt = FALSE
    /\ rotation = <<>>
    /\ turn = 0 /\ tried = 0
    /\ tree = [p \in Probe |-> NewTree]

\* EndProbeStage.
EndProbeStage ==
    /\ ~probeDone
    /\ probeDone' = TRUE
    /\ UNCHANGED <<probeNext, reinforcing, stage, escBuilt, rotation, turn, tried, tree>>

\* What a proposal is for: a probe, a node of a tree, or neither.
ForProbe(p) == [by |-> "probe", probe |-> p, node |-> 0]
ForNode(p, n) == [by |-> "tree", probe |-> p, node |-> n]
Mutation == [by |-> "corpus", probe |-> 0, node |-> 0]

Sweeping == ~probeDone /\ probeNext <= Probes

ProposeProbe ==
    /\ Sweeping
    /\ probeNext' = probeNext + 1
    /\ probeDone' = (probeNext' > Probes)
    /\ UNCHANGED <<reinforcing, stage, escBuilt, rotation, turn, tried, tree>>

\* TopReinforcing: the best ranked first, and ranks are any.
Roots ==
    {SetToSeq(S) : S \in {T \in SUBSET reinforcing :
        Cardinality(T) = IF Cardinality(reinforcing) < MaxTrees
                         THEN Cardinality(reinforcing) ELSE MaxTrees}}

\* proposeEscalation, the first time: one tree for each of the top signals.
BuildEscalation ==
    /\ ~Sweeping /\ ~escBuilt
    /\ probeDone' = TRUE
    /\ escBuilt' = TRUE
    /\ rotation' \in Roots
    /\ turn' = 0
    /\ stage' = IF reinforcing = {} THEN "mutate" ELSE "escalate"
    /\ UNCHANGED <<probeNext, reinforcing, tried, tree>>

\* The tree whose turn it is.
Current == rotation[(turn % Len(rotation)) + 1]

\* Escalation.Next: the tree hands out a node and the turn passes on.
HandsOut(n) ==
    /\ ~Sweeping /\ rotation # <<>>
    /\ n # 0
    /\ turn' = (turn + 1) % Len(rotation)
    /\ tried' = 0

ProposeRollout(n) ==
    /\ HandsOut(n)
    /\ \E s \in Select(tree[Current]) :
          s.node = n /\ tree' = [tree EXCEPT ![Current] = s.tree]
    /\ stage' = "escalate"
    /\ UNCHANGED <<probeNext, probeDone, reinforcing, escBuilt, rotation>>

\* The same, with a world the validator refuses: the node may be handed out again.
RolloutRefused(n) ==
    /\ HandsOut(n)
    /\ \E s \in Select(tree[Current]) :
          /\ s.node = n
          /\ tree' = [tree EXCEPT ![Current] = [s.tree EXCEPT !.pending = @ \ {n}]]
    /\ UNCHANGED <<probeNext, probeDone, reinforcing, stage, escBuilt, rotation>>

\* A tree that calls itself exhausted is retired, and Next goes on to the one
\* after it as long as it has tried fewer trees than are left; then every tree
\* goes (retireTrees) and the corpus is mutated.
RetireTree ==
    /\ ~Sweeping /\ rotation # <<>>
    /\ \E s \in Select(tree[Current]) :
          s.node = 0 /\ tree' = [tree EXCEPT ![Current] = s.tree]
    /\ LET i == turn % Len(rotation)
           left == RemoveAt(rotation, i + 1)
       IN  IF tried + 1 < Len(left)
           THEN /\ rotation' = left
                /\ turn' = i % Len(left)
                /\ tried' = tried + 1
                /\ UNCHANGED stage
           ELSE /\ rotation' = <<>>
                /\ turn' = 0
                /\ tried' = 0
                /\ stage' = "mutate"
    /\ UNCHANGED <<probeNext, probeDone, reinforcing, escBuilt>>

\* proposeMutation: the terminal stage.
ProposeMutation ==
    /\ ~Sweeping /\ escBuilt /\ rotation = <<>>
    /\ stage' = "mutate"
    /\ UNCHANGED <<probeNext, probeDone, reinforcing, escBuilt, rotation, turn, tried, tree>>

\* probeIndexFor looks among the probes handed out.
Handed(p) == p < probeNext

\* ObserveWorld: a rollout's evidence goes to the node it was proposed for, and
\* a probe's telemetry is classified.
Observe(w, r) ==
    /\ tree' = IF w.by = "tree"
               THEN [tree EXCEPT ![w.probe] = Backpropagate(@, w.node, r)] ELSE tree
    /\ \E spiral \in BOOLEAN :
          /\ spiral => w.by = "probe" /\ w.probe # 0 /\ Handed(w.probe) /\ r.evaluable
          /\ reinforcing' = reinforcing \cup IF spiral THEN {w.probe} ELSE {}
    /\ UNCHANGED <<probeNext, probeDone, stage, escBuilt, rotation, turn, tried>>
=============================================================================
