------------------------------ MODULE NetFaults -----------------------------
(***************************************************************************)
(* The network fault family: internal/perturber/faults/netfault.go,        *)
(* netinjector.go, tc.go, iptables.go, sidecar.go and residual.go.         *)
(*                                                                         *)
(* A fault is a script per node, run by a sidecar in the node's network    *)
(* namespace, all nodes at once: iptables rules that carry the fault's     *)
(* tag (partition), or a netem qdisc in a slot of a prio root the shaping  *)
(* faults of an interface share (shape).  Which slots are taken, and so    *)
(* whether a script must install or remove the root, is in this process's  *)
(* memory; what is installed is in the namespace, which a container's      *)
(* stop takes with it.  A sidecar that outlives its docker run is left     *)
(* out: the run that lost it always returns an error.                      *)
(***************************************************************************)
EXTENDS InjectorCalls

VARIABLE claims      \* Injector.slots: the slots taken, by node

\* A script may be at any of its nodes next.
Anywhere(op, n) == job.op \in op /\ n \in job.todo

\* The container runs: it has addresses, and a sidecar can join its namespace.
Joins(n) == box[n].here /\ box[n].up

Mine(n) == prim[job.fault].slot[n]

LowestFree(n) == CHOOSE s \in 1..Slots \ claims[n] :
                    \A t \in 1..Slots \ claims[n] : s <= t

\* NetFault.Inject reads the addresses of the nodes on the far side.
FarSideAnswers == \A p \in Node \ plan[job.fault].nodes : Joins(p)

\* planShaping: a slot on every node, or an error and no slot on any.
SlotsFree == \A n \in plan[job.fault].nodes : claims[n] # 1..Slots

Shaping == KindOf({"shape"})

Claim ==
    LET slot == [n \in Node |-> IF n \in plan[job.fault].nodes THEN LowestFree(n) ELSE 0] IN
    /\ prim' = [prim EXCEPT ![job.fault].slot = slot]
    /\ claims' = [n \in Node |-> claims[n] \cup ({slot[n]} \ {0})]

\* Inject up to its first script.
Plan ==
    /\ job.op = "plan" /\ job.todo # {}
    /\ \/ /\ Flaky \/ ~FarSideAnswers \/ (Shaping /\ ~SlotsFree)
          /\ job' = [job EXCEPT !.todo = {}, !.err = TRUE]
          /\ UNCHANGED <<prim, claims>>
       \/ /\ FarSideAnswers /\ (Shaping => SlotsFree)
          /\ job' = [job EXCEPT !.op = "inject"]
          /\ IF Shaping THEN Claim ELSE UNCHANGED <<prim, claims>>
    /\ UNCHANGED <<box, schedule, blind>>

NetFails(n) == Fails(n) /\ UNCHANGED claims
NetDone(n)  == TargetDone(n) /\ UNCHANGED <<prim, claims>>

\* PartitionCommands on one node: a script cut short leaves some of its rules.
CutNode(n) ==
    LET cut == [box[n] EXCEPT !.rules = @ \cup {job.fault}] IN
    /\ Anywhere({"inject"}, n) /\ KindOf({"partition"})
    /\ \/ (Flaky \/ ~Joins(n)) /\ NetFails(n) /\ UNCHANGED box
       \/ Joins(n) /\ Becomes(n, cut) /\ (NetDone(n) \/ (Flaky /\ NetFails(n)))
    /\ UNCHANGED <<schedule, blind>>

\* claimSlot: the first fault on an interface brings the root qdisc.
InstallsRoot(n) == claims[n] = {Mine(n)}

\* ShapeRootCommand and ShapeSlotCommands on one node.  tc refuses a root that is
\* there, a slot that is taken, and a slot under a root that is not there.
ShapeNode(n) ==
    LET rooted == [box[n] EXCEPT !.root = TRUE]
        shaped == [rooted EXCEPT !.netem = @ \cup {Mine(n)}]
        fits   == IF InstallsRoot(n) THEN ~box[n].root
                  ELSE box[n].root /\ Mine(n) \notin box[n].netem
    IN
    /\ Anywhere({"inject"}, n) /\ KindOf({"shape"})
    /\ \/ (Flaky \/ ~Joins(n) \/ ~fits) /\ NetFails(n) /\ UNCHANGED box
       \/ /\ Joins(n) /\ fits
          /\ \/ Becomes(n, shaped) /\ NetDone(n)
             \/ Flaky /\ NetFails(n) /\ \E b \in {rooted, shaped} : Becomes(n, b)
    /\ UNCHANGED <<schedule, blind>>

\* Mutant of RemovesRoot: the root never goes.
RemovesRootNever(n) == FALSE

\* releaseSlot: the root goes with the last slot held on the interface.
RemovesRoot(n) == Mine(n) # 0 /\ claims[n] = {Mine(n)}

\* What a withdrawal script deletes: the fault's tag, its slot, and the root with
\* everything under it.
Swept(n) ==
    [box[n] EXCEPT !.rules = @ \ {job.fault},
                   !.root  = @ /\ ~RemovesRoot(n),
                   !.netem = IF RemovesRoot(n) THEN {} ELSE @ \ {Mine(n)}]

\* withdrawNode: the slot is released before the script runs, whatever becomes
\* of it.  A namespace that is gone is a clean withdrawal; a script that fails,
\* or leaves a rule or its slot behind, is an error.
SweepNode(n) ==
    /\ Anywhere(Undo, n) /\ KindOf(NetKind)
    /\ claims' = [claims EXCEPT ![n] = @ \ {Mine(n)}]
    /\ \/ ~Joins(n) /\ TargetDone(n) /\ UNCHANGED box
       \/ Joins(n) /\ TargetDone(n) /\ Becomes(n, Swept(n))
       \/ /\ Flaky /\ TargetFailed(n)
          /\ \E b \in {box[n], [box[n] EXCEPT !.rules = Swept(n).rules], Swept(n)} :
                Becomes(n, b)
    /\ UNCHANGED <<prim, schedule, blind>>

\* diffBaseline: tagged rules, and qdiscs BOOT did not see.
NetDirty(n) == box[n].rules # {} \/ box[n].root \/ box[n].netem # {}

\* VerifyResidual of one node: a namespace that is gone is clean, one that
\* cannot be reached is a residue.
VerifyNet(n) ==
    /\ Verifies("net", n)
    /\ \/ Reports(n, Joins(n) /\ NetDirty(n))
       \/ Flaky /\ Reports(n, TRUE)

NetStep ==
    \/ Plan
    \/ \E n \in Node : CutNode(n)
    \/ \E n \in Node : ShapeNode(n)
    \/ \E n \in Node : SweepNode(n)
    \/ (\E n \in Node : VerifyNet(n)) /\ UNCHANGED claims
=============================================================================
