------------------------------- MODULE Families ------------------------------
(***************************************************************************)
(* A world's faults, of every family at once, on the same containers: the  *)
(* registry of internal/perturber/inject.go over ProcFaults, NetFaults and *)
(* HostFaults.                                                             *)
(***************************************************************************)
EXTENDS ProcFaults, NetFaults, HostFaults

Kind == ProcKind \cup NetKind \cup HostKind

\* A fault is of a kind the registry serves, on nodes of the topology.
ASSUME FamiliesAssumption ==
    /\ Plans \subseteq [Fault -> [kind : Kind, nodes : SUBSET Node]]
    /\ {None, Unknown} \cap Fault = {}

vars == <<box, prim, plan, live, active, injected, job, stage, sweep, errs,
          residue, blind, claims>>

Init ==
    /\ box = [n \in Node |-> BootBox]
    /\ prim = [f \in Fault |-> Fresh]
    /\ plan \in Plans
    /\ live = {} /\ active = {} /\ injected = {} /\ sweep = {}
    /\ job = NoJob /\ stage = "drive"
    /\ errs = FALSE /\ residue = FALSE /\ blind = {}
    /\ claims = [n \in Node |-> {}]

Next ==
    \/ (Call \/ ProcStep \/ HostStep) /\ UNCHANGED claims
    \/ NetStep

Spec == Init /\ [][Next]_vars

-----------------------------------------------------------------------------
(* Properties.                                                             *)

TypeOK ==
    /\ plan \in [Fault -> [kind : Kind, nodes : SUBSET Node]]
    /\ live \subseteq active /\ active \subseteq injected /\ injected \subseteq Fault
    /\ sweep \subseteq active /\ residue \in BOOLEAN /\ blind \subseteq Node
    /\ stage \in {"drive", "stopped", "heal", "verify", "done"}
    /\ \A n \in Node :
          /\ box[n].rules \subseteq Fault /\ box[n].ballast \subseteq Fault
          /\ {box[n].quota, box[n].mem, box[n].fd, box[n].skew} \subseteq Fault \cup {None}
          /\ box[n].netem \subseteq 1..Slots /\ claims[n] \subseteq 1..Slots
          /\ box[n].netem # {} => box[n].root
          /\ box[n].paused => box[n].up

Working == IF job.op \in {"plan", "inject"} \cup Undo THEN {job.fault} ELSE {}

\* What a fault may leave on a node.  A memory or descriptor limit is judged only
\* where BOOT recorded one, and a ballast file or a descriptor limit only where
\* no inspection has failed.
Dirty(n) ==
    \/ box[n].paused \/ box[n].quota # None \/ box[n].skew # None
    \/ NetDirty(n)
    \/ n \in KnownBaseline /\ box[n].mem # None
    \/ n \notin blind /\ box[n].ballast # {}
    \/ n \notin blind /\ n \in KnownBaseline /\ box[n].fd # None

\* A SIGSTOP, a limit, a rule, a qdisc, a ballast file or a skewed clock in place
\* belongs to a fault that will still be withdrawn, or the failure that orphaned
\* it has been reported: "a leaked SIGSTOP poisons every subsequent world".
LeaksAreReported ==
    \A n \in Node : Dirty(n) => errs \/ \E f \in active \cup Working : n \in plan[f].nodes

\* A world none of whose calls failed is clean once it is healed, whatever
\* VerifyClean could see: overlapping faults of any families, restarts, kills,
\* recreated containers and crashes in between included.
CleanWithoutErrors ==
    stage = "done" /\ ~errs => \A n \in Node : ~Dirty(n)

\* The slots in this process's memory are those in the kernel, less what a
\* container's stop took away: no qdisc is there that no fault has claimed, so
\* the next fault to claim the slot will not be refused.
QdiscsAreClaimed ==
    job = NoJob /\ ~errs =>
        \A n \in Node : /\ box[n].netem \subseteq claims[n]
                        /\ box[n].root => claims[n] # {}

\* A leaked disturbance is either somebody's to undo or somebody's error, at every
\* step of the world, and by its end only the errors are left; and no slot is taken
\* in the kernel that is free in memory.
NothingIsLeftUnseen == LeaksAreReported /\ CleanWithoutErrors /\ QdiscsAreClaimed

\* A withdrawal by the primitive that injected, returning no error, leaves none
\* of its targets with what it did.
WithdrawnMeansUndone ==
    [][Withdrawn /\ ~job.err /\ job.fault \in live =>
        \A n \in plan[job.fault].nodes :
            /\ KindOf({"pause"}) => ~box[n].paused
            /\ box[n].quota # job.fault /\ box[n].mem # job.fault
            /\ box[n].skew # job.fault /\ job.fault \notin box[n].rules
            /\ prim[job.fault].slot[n] \notin box[n].netem
            /\ n \notin blind => box[n].fd # job.fault /\ job.fault \notin box[n].ballast]_vars

-----------------------------------------------------------------------------
(* What a comment of the code says, and TLC refutes when a configuration    *)
(* lists it; the README tells how.                                         *)

\* "Addressing by LABEL rather than by a remembered container id is what makes a
\* fault sequence survive a restart or a compose recreate": a world whose faults
\* are all withdrawn, without an error, has no residue.
CleanHasNoResidue ==
    stage = "done" /\ ~errs /\ (\A n \in Node : ~Dirty(n)) => ~residue
=============================================================================
