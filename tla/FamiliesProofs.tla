---------------------------- MODULE FamiliesProofs ---------------------------
(***************************************************************************)
(* Theorems about Families for any nodes, any faults of any kinds and any  *)
(* number of shaping slots: every disturbance of a container, by whichever *)
(* family, is a fault's to undo or an error that was reported.             *)
(* Those about Commands, whose constants are its own, are at the end.      *)
(***************************************************************************)
EXTENDS Families, Commands, WellFoundedInduction, TLAPS

-----------------------------------------------------------------------------
(* The invariant.                                                          *)

Box == [here : BOOLEAN, up : BOOLEAN, paused : BOOLEAN, quota : Fault \cup {None},
        mem : Fault \cup {None}, fd : Fault \cup {None}, ballast : SUBSET Fault,
        skew : Fault \cup {None}, rules : SUBSET Fault, root : BOOLEAN,
        netem : SUBSET (1..Slots)]

Memory == [applied : SUBSET Node, base : [Node -> Fault \cup {None, Unknown}],
           slot : [Node -> 0..Slots]]

\* A container that is down, or not the one that booted, carries nothing it could
\* not carry; and there is no qdisc without the root above it.
Sound(b) ==
    /\ ~b.up => ~b.paused /\ b.fd = None
    /\ ~b.here => /\ ~b.paused /\ b.quota = None /\ b.mem = None /\ b.fd = None
                  /\ b.ballast = {}
    /\ ~b.up \/ ~b.here => b.rules = {} /\ ~b.root /\ b.netem = {}
    /\ b.netem # {} => b.root

StateInv ==
    /\ plan \in Plans
    /\ box \in [Node -> Box] /\ \A n \in Node : Sound(box[n])
    /\ prim \in [Fault -> Memory]
    /\ \A f \in Fault, n \in KnownBaseline : prim[f].base[n] = None
    /\ claims \in [Node -> SUBSET (1..Slots)]
    /\ blind \subseteq Node /\ errs \in BOOLEAN /\ residue \in BOOLEAN

\* Injections are of faults the executor does not count yet, and withdrawals of
\* faults it still counts and HEAL has not left to do.  A shaping fault has its
\* slots from before its first command.
JobInv ==
    /\ \/ job = NoJob
       \/ /\ job \in [op : {"plan", "inject", "rollback", "withdraw"}, fault : Fault,
                      todo : SUBSET Node, err : BOOLEAN]
          /\ job.todo \subseteq plan[job.fault].nodes
       \/ job \in [op : {"verify"}, fault : 1..Len(Families), todo : SUBSET Node,
                   err : BOOLEAN]
    /\ job.op \in {"plan", "inject", "rollback"} =>
          stage = "drive" /\ job.fault \in injected \ active
    /\ job.op = "withdraw" => job.fault \in active \ sweep
    /\ job.op = "verify" => stage = "verify" /\ ~job.err
    /\ job.op = "inject" /\ KindOf({"shape"}) =>
          \A n \in plan[job.fault].nodes : prim[job.fault].slot[n] \in claims[n]

\* A call that has gone wrong, or will have when it returns.
Doomed == errs \/ job.op = "rollback" \/ (job.op # "none" /\ job.err)

CallsInv ==
    /\ live \subseteq active /\ active \subseteq injected /\ injected \subseteq Fault
    /\ sweep \subseteq active
    /\ stage \in {"drive", "stopped", "heal", "verify", "done"}
    /\ errs \/ live = active
    /\ stage \in {"drive", "stopped"} => sweep = {}
    /\ stage = "heal" =>
          Doomed \/ active \subseteq sweep \cup IF job.op = "withdraw" THEN {job.fault} ELSE {}
    /\ stage \in {"verify", "done"} => errs \/ active = {}

\* What f did to n is still to be undone.
Answers(f, n) ==
    /\ f \in active \cup Working /\ n \in plan[f].nodes
    /\ ~(job.op = "withdraw" /\ job.fault = f /\ n \notin job.todo)

Held(h, n) == \E f \in Fault : Answers(f, n) /\ plan[f].kind = h

\* Each disturbance of a node has a fault of its kind to answer for it.  Of the
\* faults that throttle a node one knows the quota it booted with; a rule and a
\* ballast file have their own fault; a slot has the fault that claimed it.
PauseHeld(n) == box[n].paused => Held("pause", n)
QuotaHeld(n) ==
    box[n].quota # None =>
        \E f \in Fault : Answers(f, n) /\ plan[f].kind = "slow" /\ prim[f].base[n] = None
MemHeld(n)   == n \in KnownBaseline /\ box[n].mem # None => Held("mem", n)
FdHeld(n)    == n \in KnownBaseline \ blind /\ box[n].fd # None => Held("fd", n)
SkewHeld(n)  == box[n].skew # None => Held("clock", n)
RulesHeld(n) == \A f \in box[n].rules : Answers(f, n) /\ plan[f].kind = "partition"
BallastHeld(n) ==
    n \notin blind => \A f \in box[n].ballast : Answers(f, n) /\ plan[f].kind = "fill"
SlotsHeld(n) ==
    \A s \in claims[n] :
        \E f \in Fault : Answers(f, n) /\ plan[f].kind = "shape" /\ prim[f].slot[n] = s
QdiscsHeld(n) == box[n].netem \subseteq claims[n] /\ (box[n].root => claims[n] # {})

AllHeld(n) ==
    /\ PauseHeld(n) /\ QuotaHeld(n) /\ MemHeld(n) /\ FdHeld(n) /\ SkewHeld(n)
    /\ RulesHeld(n) /\ BallastHeld(n) /\ SlotsHeld(n) /\ QdiscsHeld(n)

\* A primitive knows what it applied.
Remembered(f, n) ==
    Answers(f, n) /\ plan[f].kind \in {"pause", "slow", "mem", "clock"} =>
        n \in prim[f].applied \/ (job.op = "inject" /\ job.fault = f /\ n \in job.todo)

PlannedInv ==
    /\ job.op = "plan" => prim[job.fault] = Fresh /\ KindOf(NetKind)
    /\ job.op = "inject" => \A n \in job.todo : prim[job.fault].base[n] \in {None, Unknown}

AccountInv ==
    ~Doomed => /\ \A n \in Node : AllHeld(n)
               /\ \A f \in Fault, n \in Node : Remembered(f, n)
               /\ PlannedInv

IInv == StateInv /\ JobInv /\ CallsInv /\ AccountInv /\ LeaksAreReported

-----------------------------------------------------------------------------
(* What keeps the account of a node.                                       *)

\* A nonempty set of numbers has a least one: LowestFree returns a free slot.
LEMMA LeastOf ==
    ASSUME NEW S, S \subseteq Nat, S # {}
    PROVE  \E s \in S : \A t \in S : s <= t
<1> DEFINE R == {ss \in Nat \X Nat : ss[1] < ss[2]}
<1>1. OpToRel(<, Nat) = R
    BY Zenon DEF OpToRel
<1>2. PICK s \in S : \A t \in S : <<t, s>> \notin R
    BY <1>1, NatLessThanWellFounded, WFMin
<1>3. ASSUME NEW t \in S PROVE s <= t
    <2>1. t \in Nat /\ s \in Nat
        OBVIOUS
    <2>2. <<t, s>> \in Nat \X Nat /\ <<t, s>>[1] = t /\ <<t, s>>[2] = s
        BY <2>1
    <2>3. ~(t < s)
        BY <1>2, <2>2
    <2> QED BY <2>1, <2>3
<1> QED BY <1>3

\* b is disturbed in no way that a is not.
Less(b, a) ==
    /\ b.paused => a.paused
    /\ b.quota \in {a.quota, None} /\ b.mem \in {a.mem, None}
    /\ b.fd \in {a.fd, None} /\ b.skew \in {a.skew, None}
    /\ b.ballast \subseteq a.ballast /\ b.rules \subseteq a.rules
    /\ b.netem \subseteq a.netem /\ (b.root => a.root)

\* Where nothing is added and nobody stops answering, the account stands.
LEMMA Kept ==
    ASSUME NEW n \in Node, AllHeld(n), box[n] \in Box, Less(box'[n], box[n]),
           claims'[n] = claims[n], plan' = plan, blind \subseteq blind',
           \A f \in Fault : Answers(f, n) =>
               /\ Answers(f, n)'
               /\ prim'[f].base[n] = prim[f].base[n] /\ prim'[f].slot[n] = prim[f].slot[n]
    PROVE  AllHeld(n)'
<1> USE DEF AllHeld, Less, Held
<1>1. PauseHeld(n)'
    BY DEF PauseHeld
<1>2. QuotaHeld(n)'
    BY DEF QuotaHeld
<1>3. MemHeld(n)'
    BY DEF MemHeld
<1>4. FdHeld(n)'
    BY DEF FdHeld
<1>5. SkewHeld(n)'
    BY DEF SkewHeld
<1>6. RulesHeld(n)'
    BY DEF RulesHeld, Box
<1>7. BallastHeld(n)'
    BY DEF BallastHeld, Box
<1>8. SlotsHeld(n)'
    BY DEF SlotsHeld
<1>9. QdiscsHeld(n)'
    BY DEF QdiscsHeld
<1> QED BY <1>1, <1>2, <1>3, <1>4, <1>5, <1>6, <1>7, <1>8, <1>9

-----------------------------------------------------------------------------
(* One target of a call.                                                   *)

\* A call deals with one of its targets: whatever becomes of the container, the
\* primitive remembers of the other nodes what it did.
BoxStep(n) == \E b \in Box : Sound(b) /\ Becomes(n, b)

PrimStep(n) ==
    \E p \in Memory :
        /\ prim' = [prim EXCEPT ![job.fault] = p]
        /\ p.slot = prim[job.fault].slot
        /\ prim[job.fault].base[n] = None => p.base[n] = None
        /\ \A m \in Node \ {n} : /\ p.base[m] = prim[job.fault].base[m]
                                 /\ m \in prim[job.fault].applied => m \in p.applied

ClaimStep(n) ==
    \E c \in SUBSET claims[n] : /\ claims' = [claims EXCEPT ![n] = c]
                                /\ job.op = "inject" => c = claims[n]

Step(n) ==
    /\ n \in job.todo /\ job.op \in {"inject", "withdraw", "rollback"}
    /\ TargetDone(n) \/ TargetFailed(n)
    /\ BoxStep(n) /\ PrimStep(n) /\ ClaimStep(n)
    /\ UNCHANGED schedule
    /\ blind' \in {blind, blind \cup {n}}

\* What the call did to the node is of its fault's kind: there to be undone if it
\* injects, and gone if it withdraws.
Settled(n) ==
    LET f == job.fault
        h == plan[f].kind
        a == box[n]
        b == box'[n]
        inject == job.op = "inject"
    IN  /\ b.paused => IF h = "pause" THEN inject ELSE a.paused
        /\ b.quota # None =>
              IF h = "slow"
              THEN IF inject THEN a.quota = None => prim'[f].base[n] = None
                             ELSE a.quota # None /\ prim[f].base[n] # None
              ELSE a.quota # None
        /\ b.mem # None /\ n \in KnownBaseline =>
              IF h = "mem" THEN inject ELSE a.mem # None
        /\ b.fd # None /\ n \in KnownBaseline \ blind' =>
              IF h = "fd" THEN inject ELSE a.fd # None
        /\ b.skew # None => IF h = "clock" THEN inject ELSE a.skew # None
        /\ b.rules \subseteq IF h # "partition" THEN a.rules
                             ELSE IF inject THEN a.rules \cup {f} ELSE a.rules \ {f}
        /\ n \notin blind' =>
              b.ballast \subseteq IF h # "fill" THEN a.ballast
                                  ELSE IF inject THEN a.ballast \cup {f} ELSE a.ballast \ {f}
        /\ h = "shape" /\ ~inject => prim[f].slot[n] \notin claims'[n]
        /\ QdiscsHeld(n)'
        /\ inject /\ h \in {"pause", "slow", "mem", "clock"} => n \in prim'[f].applied

\* Every plan is of kinds the registry serves, on nodes of the topology.
LEMMA PlanTyped == StateInv => plan \in [Fault -> [kind : Kind, nodes : SUBSET Node]]
BY FamiliesAssumption DEF StateInv

\* The call itself goes on, with one target less.
LEMMA StepJob ==
    ASSUME IInv, NEW n, Step(n)
    PROVE  /\ job.fault \in Fault /\ n \in Node /\ n \in plan[job.fault].nodes
           /\ job' \in [op : {job.op}, fault : {job.fault}, todo : {job.todo \ {n}},
                        err : BOOLEAN]
           /\ job.err => job'.err
           /\ UNCHANGED schedule /\ Working' = Working
<1> USE DEF IInv, Step, BoxStep, PrimStep, ClaimStep
<1>1. job \in [op : {"inject", "withdraw", "rollback"}, fault : Fault, todo : SUBSET Node,
               err : BOOLEAN] /\ job.todo \subseteq plan[job.fault].nodes
    BY DEF JobInv, NoJob
<1>2. /\ job' \in [op : {job.op}, fault : {job.fault}, todo : {job.todo \ {n}}, err : BOOLEAN]
      /\ job.err => job'.err
    BY <1>1 DEF TargetDone, TargetFailed
<1>3. job'.op = job.op /\ job'.fault = job.fault
    BY <1>2
<1> QED BY <1>1, <1>2, <1>3 DEF Working, Undo

\* What every such step keeps, gone wrong or not.
LEMMA StepKeeps ==
    ASSUME IInv, NEW n, Step(n)
    PROVE  StateInv' /\ JobInv' /\ CallsInv' /\ LeaksAreReported' /\ (Doomed => Doomed')
<1> USE DEF IInv
<1>1. StateInv'
    <2>1. box' \in [Node -> Box] /\ \A m \in Node : Sound(box'[m])
        BY DEF Step, BoxStep, PrimStep, ClaimStep, Becomes, StateInv
    <2>2. prim' \in [Fault -> Memory]
        BY DEF Step, BoxStep, PrimStep, ClaimStep, StateInv
    <2>3. \A f \in Fault, m \in KnownBaseline : prim'[f].base[m] = None
        BY StepJob, InjectorAssumption DEF Step, BoxStep, PrimStep, ClaimStep, StateInv
    <2>4. claims' \in [Node -> SUBSET (1..Slots)]
        BY DEF Step, BoxStep, PrimStep, ClaimStep, StateInv
    <2>5. blind' \subseteq Node
        <3>1. blind \subseteq Node /\ n \in Node /\ blind' \in {blind, blind \cup {n}}
            BY StepJob DEF Step, BoxStep, PrimStep, ClaimStep, StateInv
        <3> QED BY <3>1
    <2>6. UNCHANGED <<plan, errs, residue>>
        BY DEF Step, BoxStep, PrimStep, ClaimStep, schedule
    <2> QED BY <2>1, <2>2, <2>3, <2>4, <2>5, <2>6 DEF StateInv
<1>2. JobInv'
    <2>1. /\ job'.op = job.op /\ job'.fault = job.fault
          /\ job.op \in {"inject", "withdraw", "rollback"}
        BY StepJob DEF Step, BoxStep, PrimStep, ClaimStep
    <2>2. /\ job' \in [op : {"plan", "inject", "rollback", "withdraw"}, fault : Fault,
                       todo : SUBSET Node, err : BOOLEAN]
          /\ job'.todo \subseteq plan'[job'.fault].nodes
        <3>1. job.todo \subseteq plan[job.fault].nodes /\ job.todo \subseteq Node
            BY <2>1 DEF JobInv, NoJob
        <3>2. job'.todo = job.todo \ {n} /\ job'.err \in BOOLEAN /\ job.fault \in Fault
            BY StepJob
        <3>3. job' = [op |-> job.op, fault |-> job.fault, todo |-> job'.todo, err |-> job'.err]
            BY StepJob
        <3> QED BY <2>1, <3>1, <3>2, <3>3, StepJob DEF schedule
    <2>3. ASSUME job.op = "inject", KindOf({"shape"}), NEW m \in plan[job.fault].nodes
          PROVE  prim'[job.fault].slot[m] \in claims'[m]
        <3>1. m \in Node /\ prim[job.fault].slot[m] \in claims[m]
            BY <2>3, StepJob, PlanTyped DEF JobInv
        <3>2. PICK c \in SUBSET claims[n] : c = claims[n] /\ claims' = [claims EXCEPT ![n] = c]
            BY <2>3 DEF Step, ClaimStep
        <3>3. claims'[m] = claims[m]
            BY <3>1, <3>2, StepJob DEF StateInv
        <3>4. prim'[job.fault].slot = prim[job.fault].slot
            BY StepJob DEF Step, PrimStep, StateInv
        <3> QED BY <3>1, <3>3, <3>4
    <2> QED BY <2>1, <2>2, <2>3, StepJob DEF JobInv, schedule, KindOf
<1>3. Doomed => Doomed'
    BY StepJob DEF Doomed, schedule, Step, BoxStep, PrimStep, ClaimStep
<1>4. CallsInv'
    BY <1>3, StepJob DEF CallsInv, schedule
<1>5. LeaksAreReported'
    <2> SUFFICES ASSUME NEW m \in Node, Dirty(m)', ~errs
                 PROVE  \E f \in active \cup Working : m \in plan[f].nodes
        BY StepJob DEF LeaksAreReported, schedule
    <2>1. CASE m = n
        BY <2>1, StepJob DEF Working, Undo, Step, BoxStep, PrimStep, ClaimStep
    <2>2. CASE m # n
        <3>1. box'[m] = box[m] /\ blind \subseteq blind' /\ (m \in blind' => m \in blind)
            BY <2>2 DEF Step, BoxStep, PrimStep, ClaimStep, Becomes, StateInv
        <3>2. Dirty(m)
            BY <3>1 DEF Dirty, NetDirty
        <3> QED BY <3>2 DEF LeaksAreReported
    <2> QED BY <2>1, <2>2
<1> QED BY <1>1, <1>2, <1>3, <1>4, <1>5

\* Who answers for a node: all who did, but for the fault a withdrawal is done with.
LEMMA StepAnswers ==
    ASSUME IInv, NEW n, Step(n), NEW f \in Fault, NEW m \in Node
    PROVE  /\ m # n => (Answers(f, m)' <=> Answers(f, m))
           /\ f # job.fault => (Answers(f, m)' <=> Answers(f, m))
           /\ job.op = "inject" => (Answers(f, m)' <=> Answers(f, m))
           /\ job.op = "inject" => Answers(job.fault, n)
           /\ job.op = "withdraw" => ~Answers(job.fault, n)'
<1>1. /\ job'.op = job.op /\ job'.fault = job.fault /\ job'.todo = job.todo \ {n}
      /\ plan' = plan /\ active' = active /\ Working' = Working
      /\ n \in plan[job.fault].nodes
    BY StepJob DEF schedule
<1> QED BY <1>1 DEF Answers, Working

\* A step that has not gone wrong leaves an account as good as the last, if the
\* node it dealt with is settled.
LEMMA TargetKeeps ==
    ASSUME IInv, NEW n, Step(n), Doomed' \/ Settled(n)
    PROVE  IInv'
<1>1. SUFFICES ASSUME ~Doomed' PROVE AccountInv'
    BY StepKeeps DEF IInv, AccountInv
<1>2. /\ \A m \in Node : AllHeld(m)
      /\ \A f \in Fault, m \in Node : Remembered(f, m)
      /\ PlannedInv
      /\ job.op \in {"inject", "withdraw"}
    BY <1>1, StepKeeps DEF IInv, AccountInv, Doomed, Step, BoxStep, PrimStep, ClaimStep
<1>3. /\ job.fault \in Fault /\ n \in Node /\ n \in plan[job.fault].nodes
      /\ job'.op = job.op /\ job'.fault = job.fault /\ job'.todo = job.todo \ {n}
      /\ plan' = plan
    BY StepJob DEF schedule
<1>4. /\ \A f \in Fault \ {job.fault} : prim'[f] = prim[f]
      /\ prim'[job.fault].slot = prim[job.fault].slot
      /\ prim[job.fault].base[n] = None => prim'[job.fault].base[n] = None
      /\ \A m \in Node \ {n} : prim'[job.fault].base[m] = prim[job.fault].base[m]
      /\ \A m \in Node \ {n} : m \in prim[job.fault].applied => m \in prim'[job.fault].applied
    BY <1>3 DEF Step, BoxStep, PrimStep, ClaimStep, IInv, StateInv
<1>5. /\ box[n] \in Box /\ box'[n] \in Box /\ \A m \in Node \ {n} : box'[m] = box[m]
      /\ blind \subseteq blind' /\ \A m \in Node \ {n} : m \in blind' => m \in blind
      /\ claims'[n] \subseteq claims[n] /\ \A m \in Node \ {n} : claims'[m] = claims[m]
      /\ job.op = "inject" => \A m \in Node : claims'[m] = claims[m]
    <2>1. box \in [Node -> Box] /\ claims \in [Node -> SUBSET (1..Slots)]
        BY DEF IInv, StateInv
    <2>2. PICK b \in Box : box' = [box EXCEPT ![n] = b]
        BY DEF Step, BoxStep, PrimStep, ClaimStep, Becomes
    <2>3. PICK c \in SUBSET claims[n] :
             /\ claims' = [claims EXCEPT ![n] = c]
             /\ job.op = "inject" => c = claims[n]
        BY DEF Step, BoxStep, PrimStep, ClaimStep
    <2>4. blind' \in {blind, blind \cup {n}}
        BY DEF Step, BoxStep, PrimStep, ClaimStep
    <2>5. box[n] \in Box /\ box'[n] \in Box /\ \A m \in Node \ {n} : box'[m] = box[m]
        BY <1>3, <2>1, <2>2
    <2>6. /\ claims'[n] \subseteq claims[n] /\ \A m \in Node \ {n} : claims'[m] = claims[m]
          /\ job.op = "inject" => \A m \in Node : claims'[m] = claims[m]
        <3>1. n \in Node /\ DOMAIN claims = Node /\ claims' = [claims EXCEPT ![n] = c]
            BY <1>3, <2>1, <2>3
        <3>2. claims'[n] = c /\ \A m \in Node \ {n} : claims'[m] = claims[m]
            BY <3>1
        <3>3. \A m \in Node : m = n \/ m \in Node \ {n}
            OBVIOUS
        <3> QED BY <3>2, <3>3, <2>3
    <2>7. blind \subseteq blind' /\ \A m \in Node \ {n} : m \in blind' => m \in blind
        BY <2>4
    <2> QED BY <2>5, <2>6, <2>7
<1>6. ASSUME NEW m \in Node \ {n} PROVE AllHeld(m)'
    <2>1. /\ AllHeld(m) /\ box[m] \in Box /\ Less(box'[m], box[m]) /\ claims'[m] = claims[m]
        BY <1>2, <1>5 DEF Less, IInv, StateInv
    <2>2. ASSUME NEW f \in Fault, Answers(f, m)
          PROVE  /\ Answers(f, m)'
                 /\ prim'[f].base[m] = prim[f].base[m] /\ prim'[f].slot[m] = prim[f].slot[m]
        BY <2>2, <1>4, StepAnswers
    <2> QED BY <2>1, <2>2, <1>3, <1>5, Kept
<1>7. AllHeld(n)'
    <2> USE <1>3, <1>4, <1>5
    <2>1. AllHeld(n) /\ Settled(n)
        BY <1>1, <1>2
    <2>2. ASSUME NEW f \in Fault PROVE Answers(f, n)' <=>
              Answers(f, n) /\ ~(f = job.fault /\ job.op = "withdraw")
        BY <1>2, StepAnswers
    <2>3. job.op = "inject" => Answers(job.fault, n)
        BY StepAnswers
    <2>4. \A h : Held(h, n) /\ (h # plan[job.fault].kind \/ job.op = "inject") => Held(h, n)'
        BY <1>2, <2>2 DEF Held
    <2>5. \A h : h = plan[job.fault].kind /\ job.op = "inject" => Held(h, n)'
        BY <2>2, <2>3 DEF Held
    <2>6. PauseHeld(n)'
        BY <2>1, <2>4, <2>5 DEF AllHeld, PauseHeld, Settled
    <2>7. QuotaHeld(n)'
        BY <1>2, <2>1, <2>2, <2>3 DEF AllHeld, QuotaHeld, Settled
    <2>8. MemHeld(n)'
        BY <2>1, <2>4, <2>5 DEF AllHeld, MemHeld, Settled
    <2>9. FdHeld(n)'
        BY <2>1, <2>4, <2>5 DEF AllHeld, FdHeld, Settled
    <2>10. SkewHeld(n)'
        BY <2>1, <2>4, <2>5 DEF AllHeld, SkewHeld, Settled
    <2>11. RulesHeld(n)'
        BY <1>2, <2>1, <2>2, <2>3 DEF AllHeld, RulesHeld, Settled, Box
    <2>12. BallastHeld(n)'
        BY <1>2, <2>1, <2>2, <2>3 DEF AllHeld, BallastHeld, Settled, Box
    <2>13. SlotsHeld(n)'
        BY <1>2, <2>1, <2>2, <2>3 DEF AllHeld, SlotsHeld, Settled
    <2>14. QdiscsHeld(n)'
        BY <2>1 DEF Settled
    <2> QED BY <2>6, <2>7, <2>8, <2>9, <2>10, <2>11, <2>12, <2>13, <2>14 DEF AllHeld
<1>8. ASSUME NEW f \in Fault, NEW m \in Node PROVE Remembered(f, m)'
    <2>1. CASE f # job.fault
        BY <2>1, <1>2, <1>3, <1>4, StepAnswers DEF Remembered
    <2>2. CASE f = job.fault /\ m # n
        BY <2>2, <1>2, <1>3, <1>4, StepAnswers DEF Remembered
    <2>3. CASE f = job.fault /\ m = n /\ job.op = "inject"
        BY <2>3, <1>1, <1>3 DEF Remembered, Settled
    <2>4. CASE f = job.fault /\ m = n /\ job.op = "withdraw"
        BY <2>4, <1>3, StepAnswers DEF Remembered
    <2> QED BY <2>1, <2>2, <2>3, <2>4, <1>2
<1>9. PlannedInv'
    <2>1. CASE job.op = "inject"
        <3>1. ASSUME NEW m \in job.todo \ {n}
              PROVE  prim'[job.fault].base[m] \in {None, Unknown}
            BY <2>1, <1>2, <1>4, StepKeeps DEF PlannedInv, IInv, JobInv, NoJob
        <3> QED BY <3>1, <2>1, <1>3 DEF PlannedInv
    <2> QED BY <2>1, <1>2, <1>3 DEF PlannedInv
<1> QED BY <1>6, <1>7, <1>8, <1>9 DEF AccountInv

\* Where a step on a target starts from.
LEMMA AtTarget ==
    ASSUME IInv, NEW n, n \in job.todo, job.op \in {"inject", "withdraw", "rollback"}
    PROVE  /\ job.fault \in Fault /\ n \in Node /\ n \in plan[job.fault].nodes
           /\ job \in [op : {"inject", "withdraw", "rollback"}, fault : Fault,
                       todo : SUBSET Node, err : BOOLEAN]
           /\ box \in [Node -> Box] /\ box[n] \in Box /\ Sound(box[n])
           /\ prim \in [Fault -> Memory] /\ prim[job.fault] \in Memory
           /\ n \in KnownBaseline => prim[job.fault].base[n] = None
           /\ claims \in [Node -> SUBSET (1..Slots)]
           /\ plan[job.fault].kind \in Kind
<1>1. /\ job \in [op : {"inject", "withdraw", "rollback"}, fault : Fault,
                  todo : SUBSET Node, err : BOOLEAN]
      /\ job.todo \subseteq plan[job.fault].nodes
    BY DEF IInv, JobInv, NoJob
<1>2. job.fault \in Fault /\ n \in Node /\ n \in plan[job.fault].nodes
    BY <1>1
<1> QED BY <1>1, <1>2, PlanTyped DEF IInv, StateInv

\* A step on a target that leaves the container alone.
LEMMA BoxStays ==
    ASSUME IInv, NEW n, n \in job.todo, job.op \in {"inject", "withdraw", "rollback"}
    PROVE  UNCHANGED box => BoxStep(n)
<1>1. box = [box EXCEPT ![n] = box[n]]
    BY AtTarget
<1> QED BY <1>1, AtTarget DEF BoxStep, Becomes

\* A step on a target that claims and releases no slot.
LEMMA ClaimsStay ==
    ASSUME IInv, NEW n, n \in job.todo, job.op \in {"inject", "withdraw", "rollback"}
    PROVE  UNCHANGED claims => ClaimStep(n)
<1>1. claims = [claims EXCEPT ![n] = claims[n]]
    BY AtTarget
<1> QED BY <1>1 DEF ClaimStep

\* A step on a target of which the primitive remembers nothing new.
LEMMA PrimStays ==
    ASSUME IInv, NEW n, n \in job.todo, job.op \in {"inject", "withdraw", "rollback"}
    PROVE  UNCHANGED prim => PrimStep(n)
<1>1. prim = [prim EXCEPT ![job.fault] = prim[job.fault]]
    BY AtTarget
<1> QED BY <1>1, AtTarget DEF PrimStep

\* base.mark, for a node the fault is applied to and for one it is cleared from.
LEMMA PrimMarks ==
    ASSUME IInv, NEW n, n \in job.todo, job.op \in {"inject", "withdraw", "rollback"},
           Marked(n) \/ Cleared(n)
    PROVE  /\ PrimStep(n)
           /\ prim'[job.fault].base = prim[job.fault].base
           /\ Marked(n) => n \in prim'[job.fault].applied
<1> DEFINE p(A) == [prim[job.fault] EXCEPT !.applied = A]
<1>1. PICK A \in {prim[job.fault].applied \cup {n}, prim[job.fault].applied \ {n}} :
          prim' = [prim EXCEPT ![job.fault] = p(A)]
    BY DEF Marked, Cleared
<1>2. A \in SUBSET Node /\ \A m \in Node \ {n} : m \in prim[job.fault].applied => m \in A
    BY <1>1, AtTarget DEF Memory
<1>3. /\ p(A) \in Memory /\ p(A).slot = prim[job.fault].slot
      /\ p(A).base = prim[job.fault].base /\ p(A).applied = A
    BY <1>2, AtTarget DEF Memory
<1>4. PrimStep(n)
    BY <1>1, <1>2, <1>3 DEF PrimStep
<1>5. Marked(n) => n \in prim'[job.fault].applied
    BY AtTarget DEF Marked, Memory
<1>6. prim'[job.fault] = p(A)
    BY <1>1, AtTarget
<1> QED BY <1>3, <1>4, <1>5, <1>6

\* putBaseline: what is observed counts only where BOOT recorded nothing.
LEMMA PrimObserves ==
    ASSUME IInv, NEW n, n \in job.todo, job.op \in {"inject", "withdraw", "rollback"},
           NEW v \in Fault \cup {None},
           \/ Observed(n, v)
           \/ prim' = [prim EXCEPT ![job.fault].base[n] = Baseline(n, v),
                                   ![job.fault].applied = @ \cup {n}]
    PROVE  /\ PrimStep(n)
           /\ prim'[job.fault].base[n] = Baseline(n, v)
           /\ ~Observed(n, v) => n \in prim'[job.fault].applied
<1> DEFINE p(A) == [prim[job.fault] EXCEPT !.base[n] = Baseline(n, v), !.applied = A]
<1>1. Baseline(n, v) \in Fault \cup {None, Unknown}
    BY AtTarget DEF Baseline, Memory
<1>2. prim[job.fault].base[n] = None => Baseline(n, v) = None
    BY DEF Baseline, None, Unknown
<1>3. PICK A \in {prim[job.fault].applied \cup {n}, prim[job.fault].applied} :
          /\ prim' = [prim EXCEPT ![job.fault] = p(A)]
          /\ ~Observed(n, v) => n \in A
    <2>1. Observed(n, v) => prim' = [prim EXCEPT ![job.fault] = p(prim[job.fault].applied)]
        BY AtTarget DEF Observed, Memory
    <2> QED BY <2>1, AtTarget DEF Memory
<1>4. A \in SUBSET Node /\ \A m \in Node \ {n} : m \in prim[job.fault].applied => m \in A
    BY <1>3, AtTarget DEF Memory
<1>5. /\ p(A) \in Memory /\ p(A).slot = prim[job.fault].slot
      /\ p(A).base[n] = Baseline(n, v) /\ p(A).applied = A
      /\ \A m \in Node \ {n} : p(A).base[m] = prim[job.fault].base[m]
    BY <1>1, <1>4, AtTarget DEF Memory
<1>6. PrimStep(n)
    BY <1>2, <1>3, <1>4, <1>5 DEF PrimStep
<1>7. prim'[job.fault] = p(A)
    BY <1>3, AtTarget
<1> QED BY <1>3, <1>5, <1>6, <1>7

\* Where nothing has gone wrong the account was in order before the step.
LEMMA Going ==
    ASSUME IInv, NEW n, Step(n), ~Doomed'
    PROVE  /\ ~Doomed /\ AllHeld(n) /\ \A f \in Fault : Remembered(f, n)
           /\ PlannedInv /\ job.op \in {"inject", "withdraw"}
           /\ TargetDone(n) /\ ~TargetFailed(n)
<1>1. ~Doomed /\ job.op \in {"inject", "withdraw"}
    BY StepKeeps DEF Doomed, Step
<1>2. n \in Node
    BY StepJob
<1>3. job \in [op : {"inject", "withdraw", "rollback"}, fault : Fault,
               todo : SUBSET Node, err : BOOLEAN]
    BY AtTarget DEF Step
<1>4. ~TargetFailed(n)
    BY <1>1, <1>3 DEF TargetFailed, Doomed
<1> QED BY <1>1, <1>2, <1>4 DEF IInv, AccountInv, Step

\* A fault that withdraws has applied itself to the node, if it is of a kind that
\* knows where it did.
LEMMA Applied ==
    ASSUME IInv, NEW n, Step(n), ~Doomed', job.op = "withdraw",
           plan[job.fault].kind \in {"pause", "slow", "mem", "clock"}
    PROVE  n \in prim[job.fault].applied
BY Going, AtTarget DEF Remembered, Answers, Step, IInv, JobInv

\* Where no qdisc is added and no slot released, qdiscs stay claimed.
LEMMA QdiscsKept ==
    ASSUME NEW n, AllHeld(n), UNCHANGED claims, box'[n].netem \subseteq box[n].netem,
           box'[n].root => box[n].root
    PROVE  QdiscsHeld(n)'
BY DEF AllHeld, QdiscsHeld

\* What may become of a container, and that it is sound again.
LEMMA Becoming ==
    ASSUME NEW a \in Box, Sound(a), NEW v \in Fault \cup {None}, NEW f \in Fault
    PROVE  /\ Stopped(a) \in Box /\ Sound(Stopped(a))
           /\ [Stopped(a) EXCEPT !.up = TRUE] \in Box /\ Sound([Stopped(a) EXCEPT !.up = TRUE])
           /\ [a EXCEPT !.paused = FALSE] \in Box /\ Sound([a EXCEPT !.paused = FALSE])
           /\ a.here /\ a.up => LET b == [a EXCEPT !.paused = TRUE] IN b \in Box /\ Sound(b)
           /\ a.here => LET b == [a EXCEPT !.quota = v] IN b \in Box /\ Sound(b)
           /\ a.here => LET b == [a EXCEPT !.mem = v] IN b \in Box /\ Sound(b)
           /\ a.here /\ a.up => LET b == [a EXCEPT !.fd = v] IN b \in Box /\ Sound(b)
           /\ Recreated(v) \in Box /\ Sound(Recreated(v))
           /\ Stopped(Recreated(v)) \in Box /\ Sound(Stopped(Recreated(v)))
           /\ a.here => LET b == [a EXCEPT !.ballast = @ \cup {f}] IN b \in Box /\ Sound(b)
           /\ LET b == [a EXCEPT !.ballast = @ \ {f}] IN b \in Box /\ Sound(b)
           /\ a.here /\ a.up =>
                 LET b == [a EXCEPT !.rules = @ \cup {f}] IN b \in Box /\ Sound(b)
           /\ LET b == [a EXCEPT !.rules = @ \ {f}] IN b \in Box /\ Sound(b)
<1> USE DEF Box, Sound
<1>1. Stopped(a) \in Box /\ Sound(Stopped(a))
    BY DEF Stopped
<1>2. [Stopped(a) EXCEPT !.up = TRUE] \in Box /\ Sound([Stopped(a) EXCEPT !.up = TRUE])
    BY DEF Stopped
<1>3. [a EXCEPT !.paused = FALSE] \in Box /\ Sound([a EXCEPT !.paused = FALSE])
    OBVIOUS
<1>4. a.here /\ a.up => LET b == [a EXCEPT !.paused = TRUE] IN b \in Box /\ Sound(b)
    OBVIOUS
<1>5. a.here => LET b == [a EXCEPT !.quota = v] IN b \in Box /\ Sound(b)
    OBVIOUS
<1>6. a.here => LET b == [a EXCEPT !.mem = v] IN b \in Box /\ Sound(b)
    OBVIOUS
<1>7. a.here /\ a.up => LET b == [a EXCEPT !.fd = v] IN b \in Box /\ Sound(b)
    OBVIOUS
<1>8. Recreated(v) \in Box /\ Sound(Recreated(v))
    BY DEF Recreated, BootBox
<1>9. Stopped(Recreated(v)) \in Box /\ Sound(Stopped(Recreated(v)))
    BY DEF Recreated, BootBox, Stopped
<1>10. a.here => LET b == [a EXCEPT !.ballast = @ \cup {f}] IN b \in Box /\ Sound(b)
    OBVIOUS
<1>11. LET b == [a EXCEPT !.ballast = @ \ {f}] IN b \in Box /\ Sound(b)
    OBVIOUS
<1>12. a.here /\ a.up => LET b == [a EXCEPT !.rules = @ \cup {f}] IN b \in Box /\ Sound(b)
    OBVIOUS
<1>13. LET b == [a EXCEPT !.rules = @ \ {f}] IN b \in Box /\ Sound(b)
    OBVIOUS
<1> QED BY <1>1, <1>2, <1>3, <1>4, <1>5, <1>6, <1>7, <1>8, <1>9, <1>10, <1>11, <1>12, <1>13

-----------------------------------------------------------------------------
(* The process family.                                                     *)

\* ProcPause.Inject: a node it pauses is its own to resume.
LEMMA PauseSettles ==
    ASSUME IInv, NEW n, PauseTarget(n), UNCHANGED claims
    PROVE  Step(n) /\ (Doomed' \/ Settled(n))
<1>1. /\ n \in job.todo /\ job.op = "inject" /\ plan[job.fault].kind = "pause"
    BY DEF PauseTarget, Turn, KindOf
<1>2. Step(n)
    <2>1. BoxStep(n)
        BY <1>1, BoxStays, AtTarget, Becoming DEF PauseTarget, BoxStep
    <2>2. PrimStep(n)
        BY <1>1, PrimStays, PrimMarks DEF PauseTarget, Fails
    <2>3. TargetDone(n) \/ TargetFailed(n)
        BY DEF PauseTarget, Marked, Fails
    <2> QED BY <1>1, <2>1, <2>2, <2>3, ClaimsStay DEF PauseTarget, Step
<1>3. ASSUME ~Doomed' PROVE Settled(n)
    <2>1. /\ job.op = "inject" /\ AllHeld(n) /\ Marked(n) /\ n \in prim'[job.fault].applied
          /\ box'[n] = [box[n] EXCEPT !.paused = TRUE]
        BY <1>1, <1>2, <1>3, Going, AtTarget, PrimMarks DEF PauseTarget, Fails, Becomes
    <2>2. QdiscsHeld(n)'
        BY <2>1, AtTarget, <1>1, QdiscsKept DEF Box
    <2> QED BY <1>1, <2>1, <2>2, AtTarget DEF Settled, Box
<1> QED BY <1>2, <1>3

\* ProcPause.Withdraw: a node it was done with is not paused.
LEMMA ResumeSettles ==
    ASSUME IInv, NEW n, ResumeTarget(n), UNCHANGED claims
    PROVE  Step(n) /\ (Doomed' \/ Settled(n))
<1>1. n \in job.todo /\ job.op \in {"withdraw", "rollback"} /\ plan[job.fault].kind = "pause"
    BY DEF ResumeTarget, Turn, KindOf, Undo
<1>2. Step(n)
    <2>1. BoxStep(n)
        BY <1>1, BoxStays, AtTarget, Becoming DEF ResumeTarget, Uninspected, BoxStep
    <2>2. PrimStep(n)
        BY <1>1, PrimStays, PrimMarks DEF ResumeTarget, Uninspected, Fails
    <2>3. TargetDone(n) \/ TargetFailed(n)
        BY DEF ResumeTarget, Uninspected, Cleared, Fails
    <2> QED BY <1>1, <2>1, <2>2, <2>3, ClaimsStay DEF ResumeTarget, Step
<1>3. ASSUME ~Doomed' PROVE Settled(n)
    <2>1. job.op = "withdraw" /\ AllHeld(n) /\ n \in prim[job.fault].applied
        BY <1>1, <1>2, <1>3, Going, Applied
    <2>2. box'[n] \in {box[n], [box[n] EXCEPT !.paused = FALSE]} /\ ~box'[n].paused
        BY <1>1, <1>2, <1>3, <2>1, Going, AtTarget
           DEF ResumeTarget, Uninspected, LostSight, Fails, Becomes, Skips, Box
    <2>3. QdiscsHeld(n)'
        BY <2>1, <2>2, AtTarget, <1>1, QdiscsKept DEF Box
    <2> QED BY <1>1, <2>1, <2>2, <2>3, AtTarget DEF Settled, Box
<1> QED BY <1>2, <1>3

\* ProcKill.Inject and ProcRestart.Inject add nothing to a container.
LEMMA KillSettles ==
    ASSUME IInv, NEW n, KillTarget(n) \/ RestartTarget(n), UNCHANGED claims
    PROVE  Step(n) /\ (Doomed' \/ Settled(n))
<1>1. n \in job.todo /\ job.op = "inject" /\ plan[job.fault].kind \in {"kill", "restart"}
    BY DEF KillTarget, RestartTarget, Turn, KindOf
<1>2. Step(n)
    <2>1. BoxStep(n)
        BY <1>1, BoxStays, AtTarget, Becoming DEF KillTarget, RestartTarget, BoxStep
    <2>2. PrimStep(n)
        BY <1>1, PrimStays DEF KillTarget, RestartTarget, Fails
    <2>3. TargetDone(n) \/ TargetFailed(n)
        BY DEF KillTarget, RestartTarget, Fails
    <2> QED BY <1>1, <2>1, <2>2, <2>3, ClaimsStay DEF KillTarget, RestartTarget, Step
<1>3. ASSUME ~Doomed' PROVE Settled(n)
    <2>1. AllHeld(n) /\ ~Fails(n)
        BY <1>2, <1>3, Going DEF Fails
    <2>2. box'[n] \in {Stopped(box[n]), [Stopped(box[n]) EXCEPT !.up = TRUE]}
        BY <1>1, <2>1, AtTarget DEF KillTarget, RestartTarget, Becomes
    <2>3. Less(box'[n], box[n])
        <3>1. box[n] \in Box
            BY <1>1, AtTarget
        <3>2. Less(Stopped(box[n]), box[n])
            BY <3>1 DEF Stopped, Less, Box
        <3>3. Less([Stopped(box[n]) EXCEPT !.up = TRUE], box[n])
            BY <3>1 DEF Stopped, Less, Box
        <3> QED BY <2>2, <3>2, <3>3
    <2>4. QdiscsHeld(n)'
        BY <2>1, <2>3, QdiscsKept DEF Less
    <2> QED BY <1>1, <2>1, <2>3, <2>4 DEF Settled, Less
<1> QED BY <1>2, <1>3

\* ProcSlow.Inject: the first to throttle a node knows the quota it booted with.
LEMMA SlowSettles ==
    ASSUME IInv, NEW n, SlowTarget(n), UNCHANGED claims
    PROVE  Step(n) /\ (Doomed' \/ Settled(n))
<1>1. n \in job.todo /\ job.op = "inject" /\ plan[job.fault].kind = "slow"
    BY DEF SlowTarget, Turn, KindOf
<1>2. box[n].quota \in Fault \cup {None}
    BY <1>1, AtTarget DEF Box
<1>3. Step(n)
    <2>1. BoxStep(n)
        BY <1>1, BoxStays, AtTarget, Becoming DEF SlowTarget, BoxStep, NoAnswer
    <2>2. PrimStep(n)
        BY <1>1, <1>2, PrimStays, PrimObserves DEF SlowTarget, Fails
    <2>3. TargetDone(n) \/ TargetFailed(n)
        BY DEF SlowTarget, Fails
    <2> QED BY <1>1, <2>1, <2>2, <2>3, ClaimsStay DEF SlowTarget, Step
<1>4. ASSUME ~Doomed' PROVE Settled(n)
    <2>1. AllHeld(n) /\ PlannedInv /\ ~TargetFailed(n)
        BY <1>3, <1>4, Going
    <2>2. /\ prim' = [prim EXCEPT ![job.fault].base[n] = Baseline(n, box[n].quota),
                                  ![job.fault].applied = @ \cup {n}]
          /\ box'[n] = [box[n] EXCEPT !.quota = job.fault]
        BY <1>1, <2>1, AtTarget DEF SlowTarget, Becomes, Fails
    <2>3. prim'[job.fault].base[n] = Baseline(n, box[n].quota) /\ n \in prim'[job.fault].applied
        BY <1>1, <2>2, AtTarget DEF Memory
    <2>4. box[n].quota = None => prim'[job.fault].base[n] = None
        BY <1>1, <2>1, <2>3 DEF PlannedInv, Baseline
    <2>5. QdiscsHeld(n)'
        BY <2>1, <2>2, AtTarget, <1>1, QdiscsKept DEF Box
    <2> QED BY <1>1, <2>1, <2>2, <2>3, <2>4, <2>5, AtTarget DEF Settled, Box
<1> QED BY <1>3, <1>4

\* ProcSlow.Withdraw: the quota it restores is none, or an earlier throttle's.
LEMMA UnthrottleSettles ==
    ASSUME IInv, NEW n, UnthrottleTarget(n), UNCHANGED claims
    PROVE  Step(n) /\ (Doomed' \/ Settled(n))
<1> DEFINE base == prim[job.fault].base[n]
<1>1. n \in job.todo /\ job.op \in {"withdraw", "rollback"} /\ plan[job.fault].kind = "slow"
    BY DEF UnthrottleTarget, Turn, KindOf, Undo
<1>2. base \in Fault \cup {None, Unknown}
    BY <1>1, AtTarget DEF Memory
<1>3. Step(n)
    <2>1. BoxStep(n)
        BY <1>1, <1>2, BoxStays, AtTarget, Becoming DEF UnthrottleTarget, Uninspected, BoxStep
    <2>2. PrimStep(n)
        BY <1>1, PrimStays, PrimMarks DEF UnthrottleTarget, Uninspected, Fails
    <2>3. TargetDone(n) \/ TargetFailed(n)
        BY DEF UnthrottleTarget, Uninspected, Cleared, Fails
    <2> QED BY <1>1, <2>1, <2>2, <2>3, ClaimsStay DEF UnthrottleTarget, Step
<1>4. ASSUME ~Doomed' PROVE Settled(n)
    <2>1. job.op = "withdraw" /\ AllHeld(n) /\ n \in prim[job.fault].applied
        BY <1>1, <1>3, <1>4, Going, Applied
    <2>2. \/ box'[n] = box[n] /\ box[n].quota = None
          \/ box'[n] = [box[n] EXCEPT !.quota = base] /\ box[n].quota # None
        BY <1>1, <1>3, <1>4, <2>1, Going, AtTarget
           DEF UnthrottleTarget, Uninspected, LostSight, Fails, Becomes
    <2>3. QdiscsHeld(n)'
        BY <2>1, <2>2, AtTarget, <1>1, QdiscsKept DEF Box
    <2> QED BY <1>1, <2>1, <2>2, <2>3, AtTarget DEF Settled, Box
<1> QED BY <1>3, <1>4

-----------------------------------------------------------------------------
(* The clock, disk, memory and descriptor faults.                          *)

\* ClockShift.injectOne: the new container is in its time namespace, and clean.
LEMMA SkewSettles ==
    ASSUME IInv, NEW n, SkewTarget(n), UNCHANGED claims
    PROVE  Step(n) /\ (Doomed' \/ Settled(n))
<1>1. n \in job.todo /\ job.op = "inject" /\ plan[job.fault].kind = "clock"
    BY DEF SkewTarget, Turn, KindOf
<1>2. Step(n)
    <2>1. BoxStep(n)
        BY <1>1, BoxStays, AtTarget, Becoming DEF SkewTarget, Halfway, BoxStep
    <2>2. PrimStep(n)
        BY <1>1, PrimStays, PrimMarks DEF SkewTarget, Fails
    <2>3. TargetDone(n) \/ TargetFailed(n)
        BY DEF SkewTarget, Marked, Fails
    <2> QED BY <1>1, <2>1, <2>2, <2>3, ClaimsStay DEF SkewTarget, Step
<1>3. ASSUME ~Doomed' PROVE Settled(n)
    <2>1. AllHeld(n) /\ ~Fails(n)
        BY <1>2, <1>3, Going DEF Fails
    <2>2. box'[n] = Recreated(job.fault) /\ n \in prim'[job.fault].applied
        BY <1>1, <2>1, AtTarget, PrimMarks DEF SkewTarget, Becomes
    <2>3. QdiscsHeld(n)'
        BY <2>2 DEF QdiscsHeld, Recreated, BootBox
    <2> QED BY <1>1, <2>1, <2>2, <2>3 DEF Settled, Recreated, BootBox
<1> QED BY <1>2, <1>3

\* ClockShift.Withdraw: the new container is in no time namespace, and clean.
LEMMA UnskewSettles ==
    ASSUME IInv, NEW n, UnskewTarget(n), UNCHANGED claims
    PROVE  Step(n) /\ (Doomed' \/ Settled(n))
<1>1. n \in job.todo /\ job.op \in {"withdraw", "rollback"} /\ plan[job.fault].kind = "clock"
    BY DEF UnskewTarget, Turn, KindOf, Undo
<1>2. Step(n)
    <2>1. BoxStep(n)
        BY <1>1, BoxStays, AtTarget, Becoming DEF UnskewTarget, Uninspected, Halfway, BoxStep
    <2>2. PrimStep(n)
        BY <1>1, PrimStays, PrimMarks DEF UnskewTarget, Uninspected, Fails
    <2>3. TargetDone(n) \/ TargetFailed(n)
        BY DEF UnskewTarget, Uninspected, Cleared, Fails
    <2> QED BY <1>1, <2>1, <2>2, <2>3, ClaimsStay DEF UnskewTarget, Step
<1>3. ASSUME ~Doomed' PROVE Settled(n)
    <2>1. job.op = "withdraw" /\ AllHeld(n) /\ n \in prim[job.fault].applied
        BY <1>1, <1>2, <1>3, Going, Applied
    <2>2. \/ box'[n] = box[n] /\ box[n].skew = None
          \/ box'[n] = Recreated(None)
        BY <1>1, <1>2, <1>3, <2>1, Going, AtTarget
           DEF UnskewTarget, Uninspected, LostSight, Fails, Becomes
    <2>3. QdiscsHeld(n)'
        BY <2>1, <2>2, QdiscsKept DEF Recreated, BootBox, UnskewTarget
    <2> QED BY <1>1, <2>1, <2>2, <2>3 DEF Settled, Recreated, BootBox
<1> QED BY <1>2, <1>3

\* IOFill.injectOne: the ballast is its own.
LEMMA FillSettles ==
    ASSUME IInv, NEW n, FillTarget(n), UNCHANGED claims
    PROVE  Step(n) /\ (Doomed' \/ Settled(n))
<1>1. n \in job.todo /\ job.op = "inject" /\ plan[job.fault].kind = "fill"
    BY DEF FillTarget, Turn, KindOf
<1>2. Step(n)
    <2>1. BoxStep(n)
        BY <1>1, BoxStays, AtTarget, Becoming DEF FillTarget, BoxStep, Runs
    <2>2. PrimStep(n)
        BY <1>1, PrimStays, PrimMarks DEF FillTarget, Fails
    <2>3. TargetDone(n) \/ TargetFailed(n)
        BY DEF FillTarget, Marked, Fails
    <2> QED BY <1>1, <2>1, <2>2, <2>3, ClaimsStay DEF FillTarget, Step
<1>3. ASSUME ~Doomed' PROVE Settled(n)
    <2>1. AllHeld(n) /\ ~Fails(n)
        BY <1>2, <1>3, Going DEF Fails
    <2>2. box'[n] = [box[n] EXCEPT !.ballast = @ \cup {job.fault}]
        BY <1>1, <2>1, AtTarget DEF FillTarget, Becomes
    <2>3. QdiscsHeld(n)'
        BY <2>1, <2>2, AtTarget, <1>1, QdiscsKept DEF Box
    <2> QED BY <1>1, <2>1, <2>2, <2>3, AtTarget DEF Settled, Box
<1> QED BY <1>2, <1>3

\* IOFill.Withdraw: the ballast is gone, or the node could not be inspected.
LEMMA EmptySettles ==
    ASSUME IInv, NEW n, EmptyTarget(n), UNCHANGED claims
    PROVE  Step(n) /\ (Doomed' \/ Settled(n))
<1>1. n \in job.todo /\ job.op \in {"withdraw", "rollback"} /\ plan[job.fault].kind = "fill"
    BY DEF EmptyTarget, Turn, KindOf, Undo
<1>2. Step(n)
    <2>1. BoxStep(n)
        BY <1>1, BoxStays, AtTarget, Becoming DEF EmptyTarget, TakenForGone, Emptied, BoxStep
    <2>2. PrimStep(n)
        BY <1>1, PrimStays, PrimMarks DEF EmptyTarget, TakenForGone, Fails
    <2>3. TargetDone(n) \/ TargetFailed(n)
        BY DEF EmptyTarget, TakenForGone, Cleared, Fails
    <2>4. blind' \in {blind, blind \cup {n}}
        BY DEF EmptyTarget, TakenForGone
    <2> QED BY <1>1, <2>1, <2>2, <2>3, <2>4, ClaimsStay DEF EmptyTarget, Step
<1>3. ASSUME ~Doomed' PROVE Settled(n)
    <2>1. job.op = "withdraw" /\ AllHeld(n) /\ ~Fails(n)
        BY <1>1, <1>2, <1>3, Going DEF Fails
    <2>2. \/ box'[n] = box[n] /\ blind' = blind \cup {n}
          \/ box'[n] = box[n] /\ box[n].ballast = {}
          \/ box'[n] = [box[n] EXCEPT !.ballast = @ \ {job.fault}]
        BY <1>1, <2>1, AtTarget DEF EmptyTarget, TakenForGone, Emptied, Becomes, Sound
    <2>3. QdiscsHeld(n)'
        BY <2>1, <2>2, AtTarget, <1>1, QdiscsKept DEF Box
    <2>4. blind \subseteq blind'
        BY DEF EmptyTarget, TakenForGone
    <2> QED BY <1>1, <2>1, <2>2, <2>3, <2>4, AtTarget DEF Settled, Box
<1> QED BY <1>2, <1>3

\* MemPressure.Inject: the limit is its own.
LEMMA PressSettles ==
    ASSUME IInv, NEW n, PressTarget(n), UNCHANGED claims
    PROVE  Step(n) /\ (Doomed' \/ Settled(n))
<1>1. n \in job.todo /\ job.op = "inject" /\ plan[job.fault].kind = "mem"
    BY DEF PressTarget, Turn, KindOf
<1>2. box[n].mem \in Fault \cup {None}
    BY <1>1, AtTarget DEF Box
<1>3. Step(n)
    <2>1. BoxStep(n)
        BY <1>1, BoxStays, AtTarget, Becoming DEF PressTarget, BoxStep
    <2>2. PrimStep(n)
        BY <1>1, <1>2, PrimStays, PrimObserves DEF PressTarget, Fails
    <2>3. TargetDone(n) \/ TargetFailed(n)
        BY DEF PressTarget, Fails
    <2> QED BY <1>1, <2>1, <2>2, <2>3, ClaimsStay DEF PressTarget, Step
<1>4. ASSUME ~Doomed' PROVE Settled(n)
    <2>1. AllHeld(n) /\ ~TargetFailed(n)
        BY <1>3, <1>4, Going
    <2>2. /\ prim' = [prim EXCEPT ![job.fault].base[n] = Baseline(n, box[n].mem),
                                  ![job.fault].applied = @ \cup {n}]
          /\ box'[n] = [box[n] EXCEPT !.mem = job.fault]
        BY <1>1, <2>1, AtTarget DEF PressTarget, Becomes, Fails
    <2>3. n \in prim'[job.fault].applied
        BY <1>1, <2>2, AtTarget DEF Memory
    <2>4. QdiscsHeld(n)'
        BY <2>1, <2>2, AtTarget, <1>1, QdiscsKept DEF Box
    <2> QED BY <1>1, <2>1, <2>2, <2>3, <2>4, AtTarget DEF Settled, Box
<1> QED BY <1>3, <1>4

\* MemPressure.Withdraw: the limit is the baseline again.
LEMMA RelieveSettles ==
    ASSUME IInv, NEW n, RelieveTarget(n), UNCHANGED claims
    PROVE  Step(n) /\ (Doomed' \/ Settled(n))
<1> DEFINE base == prim[job.fault].base[n]
<1>1. n \in job.todo /\ job.op \in {"withdraw", "rollback"} /\ plan[job.fault].kind = "mem"
    BY DEF RelieveTarget, Turn, KindOf, Undo
<1>2. base \in Fault \cup {None, Unknown}
    BY <1>1, AtTarget DEF Memory
<1>3. Step(n)
    <2>1. BoxStep(n)
        BY <1>1, <1>2, BoxStays, AtTarget, Becoming DEF RelieveTarget, Uninspected, BoxStep
    <2>2. PrimStep(n)
        BY <1>1, PrimStays, PrimMarks DEF RelieveTarget, Uninspected, Fails
    <2>3. TargetDone(n) \/ TargetFailed(n)
        BY DEF RelieveTarget, Uninspected, Cleared, Fails
    <2> QED BY <1>1, <2>1, <2>2, <2>3, ClaimsStay DEF RelieveTarget, Step
<1>4. ASSUME ~Doomed' PROVE Settled(n)
    <2>1. job.op = "withdraw" /\ AllHeld(n) /\ n \in prim[job.fault].applied
        BY <1>1, <1>3, <1>4, Going, Applied
    <2>2. \/ box'[n] = box[n] /\ box[n].mem = base
          \/ box'[n] = [box[n] EXCEPT !.mem = base]
        BY <1>1, <1>3, <1>4, <2>1, Going, AtTarget
           DEF RelieveTarget, Uninspected, LostSight, Fails, Becomes
    <2>3. n \in KnownBaseline => base = None
        BY <1>1, AtTarget
    <2>4. QdiscsHeld(n)'
        BY <2>1, <2>2, AtTarget, <1>1, QdiscsKept DEF Box
    <2> QED BY <1>1, <2>1, <2>2, <2>3, <2>4, AtTarget DEF Settled, Box
<1> QED BY <1>3, <1>4

\* FDExhaust.Inject: the limit is its own.
LEMMA ExhaustSettles ==
    ASSUME IInv, NEW n, ExhaustTarget(n), UNCHANGED claims
    PROVE  Step(n) /\ (Doomed' \/ Settled(n))
<1>1. n \in job.todo /\ job.op = "inject" /\ plan[job.fault].kind = "fd"
    BY DEF ExhaustTarget, Turn, KindOf
<1>2. box[n].fd \in Fault \cup {None}
    BY <1>1, AtTarget DEF Box
<1>3. Step(n)
    <2>1. BoxStep(n)
        BY <1>1, BoxStays, AtTarget, Becoming DEF ExhaustTarget, BoxStep, Runs
    <2>2. PrimStep(n)
        BY <1>1, <1>2, PrimStays, PrimObserves DEF ExhaustTarget, Fails
    <2>3. TargetDone(n) \/ TargetFailed(n)
        BY DEF ExhaustTarget, Fails
    <2> QED BY <1>1, <2>1, <2>2, <2>3, ClaimsStay DEF ExhaustTarget, Step
<1>4. ASSUME ~Doomed' PROVE Settled(n)
    <2>1. AllHeld(n) /\ ~TargetFailed(n)
        BY <1>3, <1>4, Going
    <2>2. box'[n] = [box[n] EXCEPT !.fd = job.fault]
        BY <1>1, <2>1, AtTarget DEF ExhaustTarget, Becomes, Fails
    <2>3. QdiscsHeld(n)'
        BY <2>1, <2>2, AtTarget, <1>1, QdiscsKept DEF Box
    <2> QED BY <1>1, <2>1, <2>2, <2>3, AtTarget DEF Settled, Box
<1> QED BY <1>3, <1>4

\* FDExhaust.Withdraw: the limit is the baseline again, or the node could not be
\* inspected.
LEMMA UnlimitSettles ==
    ASSUME IInv, NEW n, UnlimitTarget(n), UNCHANGED claims
    PROVE  Step(n) /\ (Doomed' \/ Settled(n))
<1> DEFINE base == prim[job.fault].base[n]
<1>1. n \in job.todo /\ job.op \in {"withdraw", "rollback"} /\ plan[job.fault].kind = "fd"
    BY DEF UnlimitTarget, Turn, KindOf, Undo
<1>2. base \in Fault \cup {None, Unknown}
    BY <1>1, AtTarget DEF Memory
<1>3. Step(n)
    <2>1. BoxStep(n)
        BY <1>1, <1>2, BoxStays, AtTarget, Becoming
           DEF UnlimitTarget, TakenForGone, Uninspected, BoxStep
    <2>2. PrimStep(n)
        BY <1>1, PrimStays, PrimMarks DEF UnlimitTarget, TakenForGone, Uninspected, Fails
    <2>3. TargetDone(n) \/ TargetFailed(n)
        BY DEF UnlimitTarget, TakenForGone, Uninspected, Cleared, Fails
    <2>4. blind' \in {blind, blind \cup {n}}
        BY DEF UnlimitTarget, TakenForGone
    <2> QED BY <1>1, <2>1, <2>2, <2>3, <2>4, ClaimsStay DEF UnlimitTarget, Step
<1>4. ASSUME ~Doomed' PROVE Settled(n)
    <2>1. job.op = "withdraw" /\ AllHeld(n) /\ ~Fails(n)
        BY <1>1, <1>3, <1>4, Going DEF Fails
    <2>2. n \in KnownBaseline => base = None
        BY <1>1, AtTarget
    <2>3. \/ box'[n] = box[n] /\ blind' = blind \cup {n}
          \/ box'[n] = box[n] /\ (n \in KnownBaseline => box[n].fd = None)
          \/ box'[n] = [box[n] EXCEPT !.fd = base]
        BY <1>1, <2>1, <2>2, AtTarget
           DEF UnlimitTarget, TakenForGone, Uninspected, Becomes, Sound, None, Unknown
    <2>4. QdiscsHeld(n)'
        BY <2>1, <2>3, AtTarget, <1>1, QdiscsKept DEF Box
    <2>5. blind \subseteq blind'
        BY DEF UnlimitTarget, TakenForGone
    <2> QED BY <1>1, <2>1, <2>2, <2>3, <2>4, <2>5, AtTarget DEF Settled, Box
<1> QED BY <1>3, <1>4

-----------------------------------------------------------------------------
(* The network family.                                                     *)

\* NetFault.Inject of a partition on one node: the rules carry its tag.
LEMMA CutSettles ==
    ASSUME IInv, NEW n, CutNode(n)
    PROVE  Step(n) /\ (Doomed' \/ Settled(n))
<1>1. n \in job.todo /\ job.op = "inject" /\ plan[job.fault].kind = "partition"
    BY DEF CutNode, Anywhere, KindOf
<1>2. UNCHANGED claims
    BY DEF CutNode, NetFails, NetDone
<1>3. Step(n)
    <2>1. BoxStep(n)
        BY <1>1, BoxStays, AtTarget, Becoming DEF CutNode, Joins, BoxStep
    <2>2. PrimStep(n)
        BY <1>1, PrimStays DEF CutNode, NetFails, NetDone, Fails
    <2>3. TargetDone(n) \/ TargetFailed(n)
        BY DEF CutNode, NetFails, NetDone, Fails
    <2> QED BY <1>1, <1>2, <2>1, <2>2, <2>3, ClaimsStay DEF CutNode, Step
<1>4. ASSUME ~Doomed' PROVE Settled(n)
    <2>1. AllHeld(n) /\ ~NetFails(n)
        BY <1>3, <1>4, Going DEF NetFails, Fails
    <2>2. box'[n] = [box[n] EXCEPT !.rules = @ \cup {job.fault}]
        BY <1>1, <2>1, AtTarget DEF CutNode, Becomes
    <2>3. QdiscsHeld(n)'
        BY <1>2, <2>1, <2>2, AtTarget, <1>1, QdiscsKept DEF Box
    <2> QED BY <1>1, <1>2, <2>1, <2>2, <2>3, AtTarget DEF Settled, Box
<1> QED BY <1>3, <1>4

\* NetFault.Inject of shaping on one node: the qdisc is in the slot it claimed.
LEMMA ShapeSettles ==
    ASSUME IInv, NEW n, ShapeNode(n)
    PROVE  Step(n) /\ (Doomed' \/ Settled(n))
<1> DEFINE rooted == [box[n] EXCEPT !.root = TRUE]
           shaped == [rooted EXCEPT !.netem = @ \cup {Mine(n)}]
<1>1. n \in job.todo /\ job.op = "inject" /\ plan[job.fault].kind = "shape"
    BY DEF ShapeNode, Anywhere, KindOf
<1>2. UNCHANGED claims
    BY DEF ShapeNode, NetFails, NetDone
<1>3. Mine(n) \in claims[n] /\ Mine(n) \in 1..Slots
    BY <1>1, AtTarget DEF IInv, JobInv, KindOf, Mine
<1>4. Step(n)
    <2>1. ASSUME Joins(n) PROVE /\ rooted \in Box /\ Sound(rooted)
                                /\ shaped \in Box /\ Sound(shaped)
        <3>1. box[n] \in Box /\ Sound(box[n]) /\ box[n].here /\ box[n].up
            BY <1>1, <2>1, AtTarget DEF Joins
        <3>2. rooted \in Box /\ Sound(rooted) /\ rooted.here /\ rooted.up /\ rooted.root
            BY <3>1 DEF Box, Sound
        <3>3. shaped \in Box /\ Sound(shaped)
            BY <1>3, <3>2 DEF Box, Sound
        <3> QED BY <3>2, <3>3
    <2>2. BoxStep(n)
        BY <1>1, <2>1, BoxStays DEF ShapeNode, BoxStep
    <2>3. PrimStep(n)
        BY <1>1, PrimStays DEF ShapeNode, NetFails, NetDone, Fails
    <2>4. TargetDone(n) \/ TargetFailed(n)
        BY DEF ShapeNode, NetFails, NetDone, Fails
    <2> QED BY <1>1, <1>2, <2>2, <2>3, <2>4, ClaimsStay DEF ShapeNode, Step
<1>5. ASSUME ~Doomed' PROVE Settled(n)
    <2>1. AllHeld(n) /\ ~NetFails(n)
        BY <1>4, <1>5, Going DEF NetFails, Fails
    <2>2. box'[n] = shaped
        BY <1>1, <2>1, AtTarget DEF ShapeNode, Becomes
    <2>3. QdiscsHeld(n)'
        BY <1>1, <1>2, <1>3, <2>1, <2>2, AtTarget DEF AllHeld, QdiscsHeld, Box
    <2> QED BY <1>1, <1>2, <2>1, <2>2, <2>3, AtTarget DEF Settled, Box
<1> QED BY <1>4, <1>5

\* withdrawNode: the slot it releases is empty, and the root goes with the last.
LEMMA SweepSettles ==
    ASSUME IInv, NEW n, SweepNode(n)
    PROVE  Step(n) /\ (Doomed' \/ Settled(n))
<1>1. /\ n \in job.todo /\ job.op \in {"withdraw", "rollback"}
      /\ plan[job.fault].kind \in {"partition", "shape"}
    BY DEF SweepNode, Anywhere, KindOf, Undo, NetKind
<1>2. /\ claims' = [claims EXCEPT ![n] = @ \ {Mine(n)}]
      /\ claims'[n] = claims[n] \ {Mine(n)}
    BY <1>1, AtTarget DEF SweepNode
<1>3. /\ Swept(n) \in Box /\ Sound(Swept(n))
      /\ LET b == [box[n] EXCEPT !.rules = Swept(n).rules] IN b \in Box /\ Sound(b)
    <2>1. box[n] \in Box /\ Sound(box[n])
        BY <1>1, AtTarget
    <2>2. Swept(n) \in Box
        BY <2>1 DEF Swept, Box
    <2>3. Swept(n).rules \subseteq box[n].rules
        BY <2>1 DEF Swept, Box
    <2>4. Sound(Swept(n))
        BY <2>1 DEF Swept, Box, Sound
    <2>5. ASSUME NEW r \in SUBSET box[n].rules
          PROVE  [box[n] EXCEPT !.rules = r] \in Box
        BY <2>1 DEF Box
    <2>6. ASSUME NEW r \in SUBSET box[n].rules
          PROVE  Sound([box[n] EXCEPT !.rules = r])
        BY <2>1 DEF Box, Sound
    <2> QED BY <2>2, <2>3, <2>4, <2>5, <2>6
<1>4. Step(n)
    <2>1. BoxStep(n)
        BY <1>1, <1>3, AtTarget, BoxStays DEF SweepNode, BoxStep
    <2>2. PrimStep(n)
        BY <1>1, PrimStays DEF SweepNode
    <2>3. ClaimStep(n)
        BY <1>1, <1>2 DEF ClaimStep
    <2> QED BY <1>1, <2>1, <2>2, <2>3 DEF SweepNode, Step
<1>5. ASSUME ~Doomed' PROVE Settled(n)
    <2>1. job.op = "withdraw" /\ AllHeld(n) /\ ~TargetFailed(n)
        BY <1>1, <1>4, <1>5, Going
    <2>2. \/ box'[n] = box[n] /\ box[n].rules = {} /\ ~box[n].root /\ box[n].netem = {}
          \/ box'[n] = Swept(n)
        BY <1>1, <2>1, AtTarget DEF SweepNode, Becomes, Joins, Sound
    <2>3. 0 \notin claims[n]
        BY <1>1, AtTarget
    <2>4. QdiscsHeld(n)'
        <3>1. box[n].netem \subseteq claims[n] /\ (box[n].root => claims[n] # {})
            BY <2>1 DEF AllHeld, QdiscsHeld
        <3>2. CASE box'[n] = Swept(n)
            <4>1. /\ box'[n].root = (box[n].root /\ ~RemovesRoot(n))
                  /\ box'[n].netem = IF RemovesRoot(n) THEN {} ELSE box[n].netem \ {Mine(n)}
                BY <1>1, <3>2, AtTarget DEF Swept, Box
            <4>2. box'[n].netem \subseteq claims'[n]
                BY <1>2, <3>1, <4>1
            <4>3. box'[n].root => box[n].root /\ ~RemovesRoot(n)
                BY <4>1
            <4>4. box'[n].root => claims'[n] # {}
                BY <1>2, <2>3, <3>1, <4>3 DEF RemovesRoot
            <4> QED BY <4>2, <4>4 DEF QdiscsHeld
        <3> QED BY <2>2, <3>2 DEF QdiscsHeld
    <2>5. /\ box'[n].rules \subseteq box[n].rules \ {job.fault}
          /\ box'[n].paused = box[n].paused /\ box'[n].quota = box[n].quota
          /\ box'[n].mem = box[n].mem /\ box'[n].fd = box[n].fd
          /\ box'[n].ballast = box[n].ballast /\ box'[n].skew = box[n].skew
        BY <1>1, <2>2, AtTarget DEF Swept, Box
    <2> QED BY <1>1, <1>2, <2>1, <2>4, <2>5 DEF Settled, Mine
<1> QED BY <1>4, <1>5

-----------------------------------------------------------------------------
(* The calls.                                                              *)

\* What is held is reported.
LEMMA HeldTells ==
    StateInv =>
        \A n \in Node : AllHeld(n) /\ Dirty(n) =>
            \E f \in active \cup Working : n \in plan[f].nodes
<1> SUFFICES ASSUME StateInv, NEW n \in Node, AllHeld(n), Dirty(n)
             PROVE  \E f \in active \cup Working : n \in plan[f].nodes
    OBVIOUS
<1>1. \A f \in Fault : Answers(f, n) => f \in active \cup Working /\ n \in plan[f].nodes
    BY DEF Answers
<1>2. box[n] \in Box /\ claims[n] \subseteq 1..Slots
    BY DEF StateInv
<1>3. CASE box[n].paused
    BY <1>1, <1>3 DEF AllHeld, PauseHeld, Held
<1>4. CASE box[n].quota # None
    BY <1>1, <1>4 DEF AllHeld, QuotaHeld
<1>5. CASE box[n].skew # None
    BY <1>1, <1>5 DEF AllHeld, SkewHeld, Held
<1>6. CASE NetDirty(n)
    <2>1. CASE box[n].rules # {}
        BY <1>1, <1>2, <2>1 DEF AllHeld, RulesHeld, Box
    <2>2. CASE claims[n] # {}
        BY <1>1, <2>2 DEF AllHeld, SlotsHeld
    <2> QED BY <1>6, <2>1, <2>2 DEF NetDirty, AllHeld, QdiscsHeld
<1>7. CASE n \in KnownBaseline /\ box[n].mem # None
    BY <1>1, <1>7 DEF AllHeld, MemHeld, Held
<1>8. CASE n \notin blind /\ box[n].ballast # {}
    BY <1>1, <1>2, <1>8 DEF AllHeld, BallastHeld, Box
<1>9. CASE n \notin blind /\ n \in KnownBaseline /\ box[n].fd # None
    BY <1>1, <1>9 DEF AllHeld, FdHeld, Held
<1> QED BY <1>3, <1>4, <1>5, <1>6, <1>7, <1>8, <1>9 DEF Dirty

\* A step of the call itself, which does nothing to a container that its account
\* would not have: nobody stops answering for what there is, or it is reported.
LEMMA CallKeeps ==
    ASSUME IInv, StateInv', JobInv', CallsInv',
           UNCHANGED <<claims, plan, blind>>, errs => errs',
           \A n \in Node : Less(box'[n], box[n]),
           Doomed' /\ ~errs' => active \cup Working \subseteq (active \cup Working)',
           ~Doomed' => /\ ~Doomed
                       /\ \A f \in Fault, n \in Node :
                             /\ Answers(f, n) => /\ Answers(f, n)'
                                                 /\ prim'[f].base[n] = prim[f].base[n]
                                                 /\ prim'[f].slot[n] = prim[f].slot[n]
                             /\ Remembered(f, n)'
                       /\ PlannedInv'
    PROVE  IInv'
<1>0. (StateInv =>
          \A n \in Node : AllHeld(n) /\ Dirty(n) =>
              \E f \in active \cup Working : n \in plan[f].nodes)'
    BY HeldTells, PTL
<1>1. ASSUME ~Doomed', NEW n \in Node PROVE AllHeld(n)'
    <2>1. AllHeld(n) /\ box[n] \in Box
        BY <1>1 DEF IInv, AccountInv, StateInv
    <2> QED BY <1>1, <2>1, Kept
<1>2. AccountInv'
    BY <1>1 DEF AccountInv
<1>3. ASSUME NEW n \in Node, Dirty(n)', ~errs'
      PROVE  \E f \in (active \cup Working)' : n \in plan'[f].nodes
    <2>1. CASE ~Doomed'
        BY <1>1, <1>3, <1>0, <2>1
    <2>2. CASE Doomed'
        <3>1. Less(box'[n], box[n]) /\ box[n] \in Box
            BY DEF IInv, StateInv
        <3>2. Dirty(n)
            BY <1>3, <3>1 DEF Dirty, NetDirty, Less, Box
        <3>3. \E f \in active \cup Working : n \in plan[f].nodes
            BY <1>3, <3>2 DEF IInv, LeaksAreReported
        <3> QED BY <1>3, <2>2, <3>3
    <2> QED BY <2>1, <2>2
<1> QED BY <1>2, <1>3 DEF IInv, LeaksAreReported

\* A container that stops is disturbed in no new way.
LEMMA CrashKeeps ==
    ASSUME IInv, UNCHANGED claims, NEW c \in Node, Crash(c)
    PROVE  IInv'
<1>1. UNCHANGED <<prim, plan, live, active, injected, job, stage, sweep, errs, residue, blind>>
    BY DEF Crash, schedule
<1>2. \A n \in Node : box[n] \in Box /\ Sound(box[n])
    BY DEF IInv, StateInv
<1>3. box' = [box EXCEPT ![c] = Stopped(box[c])] /\ box \in [Node -> Box]
    BY DEF Crash, Becomes, IInv, StateInv
<1>4. Stopped(box[c]) \in Box /\ Sound(Stopped(box[c])) /\ Less(Stopped(box[c]), box[c])
    BY <1>2 DEF Box, Sound, Stopped, Less
<1>5. box' \in [Node -> Box] /\ \A n \in Node : Sound(box'[n]) /\ Less(box'[n], box[n])
    BY <1>2, <1>3, <1>4 DEF Less
<1>6. StateInv'
    BY <1>1, <1>5 DEF IInv, StateInv
<1>7. JobInv' /\ CallsInv'
    BY <1>1 DEF IInv, JobInv, CallsInv, KindOf, Working, Undo, Doomed
<1>8. (Doomed' <=> Doomed) /\ Working' = Working
    BY <1>1 DEF Doomed, Working
<1>9. \A f \in Fault, n \in Node : /\ Answers(f, n)' <=> Answers(f, n)
                                   /\ Remembered(f, n)' <=> Remembered(f, n)
    BY <1>1, <1>8 DEF Answers, Remembered
<1>10. PlannedInv' <=> PlannedInv
    BY <1>1 DEF PlannedInv, KindOf
<1> QED BY <1>1, <1>5, <1>6, <1>7, <1>8, <1>9, <1>10, CallKeeps DEF IInv, AccountInv

\* A container is as disturbed as it was.
LEMMA LessSame == \A a : Less(a, a)
BY DEF Less

\* A primitive that remembers nothing but the BOOT snapshot.
LEMMA FreshTyped ==
    /\ Fresh \in Memory
    /\ \A n \in Node : Fresh.base[n] \in {None, Unknown}
    /\ \A n \in KnownBaseline : Fresh.base[n] = None
<1>1. [n \in Node |-> 0] \in [Node -> 0..Slots]
    BY InjectorAssumption
<1> DEFINE base == [n \in Node |-> IF n \in KnownBaseline THEN None ELSE Unknown]
<1>2. base \in [Node -> Fault \cup {None, Unknown}]
    OBVIOUS
<1>3. /\ Fresh.applied = {} /\ Fresh.base = base
      /\ Fresh = [applied |-> {}, base |-> base, slot |-> [n \in Node |-> 0]]
    BY DEF Fresh
<1>4. Fresh \in Memory
    BY <1>1, <1>2, <1>3 DEF Memory
<1> QED BY <1>3, <1>4, InjectorAssumption

\* A call of Inject begins: its primitive is new, and has done nothing yet.
LEMMA InjectKeeps ==
    ASSUME IInv, UNCHANGED claims, NEW f \in Fault, Inject(f)
    PROVE  IInv'
<1>1. /\ stage = "drive" /\ job = NoJob /\ f \notin injected /\ injected' = injected \cup {f}
      /\ prim' = [prim EXCEPT ![f] = Fresh]
      /\ UNCHANGED <<box, plan, live, active, stage, sweep, errs, residue, blind>>
      /\ job' = Job(FirstOp(f), f, plan[f].nodes, FALSE)
    BY DEF Inject
<1>2. /\ job'.op \in {"plan", "inject"} /\ job'.fault = f /\ job'.todo = plan[f].nodes
      /\ job'.err = FALSE /\ job.op = "none" /\ f \notin active
      /\ (job'.op = "plan" <=> plan[f].kind \in NetKind)
    BY <1>1 DEF Job, FirstOp, NoJob, IInv, CallsInv
<1>3. /\ job' \in [op : {"plan", "inject"}, fault : Fault, todo : SUBSET Node, err : BOOLEAN]
    BY <1>1, PlanTyped DEF Job, FirstOp, IInv
<1>4. Fresh \in Memory /\ (\A n \in Node : Fresh.base[n] \in {None, Unknown})
      /\ \A n \in KnownBaseline : Fresh.base[n] = None
    BY FreshTyped
<1>5. StateInv'
    BY <1>1, <1>4 DEF IInv, StateInv
<1>6. JobInv'
    BY <1>1, <1>2, <1>3 DEF IInv, JobInv, KindOf, NetKind
<1>7. CallsInv'
    BY <1>1, <1>2 DEF IInv, CallsInv, Doomed
<1>8. (Doomed' <=> errs) /\ (Doomed <=> errs) /\ Working = {} /\ Working' = {f}
    BY <1>1, <1>2 DEF Doomed, Working, Undo
<1>9. ASSUME NEW g \in Fault, NEW n \in Node, Answers(g, n)
      PROVE  /\ Answers(g, n)'
             /\ prim'[g].base[n] = prim[g].base[n] /\ prim'[g].slot[n] = prim[g].slot[n]
    <2>1. g \in active /\ g # f /\ n \in plan[g].nodes
        BY <1>2, <1>8, <1>9 DEF Answers
    <2> QED BY <1>1, <1>2, <2>1 DEF Answers, IInv, StateInv
<1>10. ASSUME NEW g \in Fault, NEW n \in Node, ~Doomed PROVE Remembered(g, n)'
    <2>1. CASE g = f
        BY <1>1, <1>2, <2>1 DEF Remembered, Answers, NetKind
    <2>2. CASE g # f
        <3>1. Remembered(g, n) /\ prim'[g] = prim[g] /\ (Answers(g, n)' => Answers(g, n))
            BY <1>1, <1>2, <1>8, <1>10, <2>2 DEF IInv, AccountInv, Answers, StateInv
        <3> QED BY <1>1, <1>2, <2>2, <3>1 DEF Remembered
    <2> QED BY <2>1, <2>2
<1>11. PlannedInv'
    <2>1. prim'[f] = Fresh
        BY <1>1 DEF IInv, StateInv
    <2> QED BY <1>1, <1>2, <1>3, <1>4, <2>1 DEF PlannedInv, KindOf
<1> QED BY <1>1, <1>5, <1>6, <1>7, <1>8, <1>9, <1>10, <1>11, CallKeeps, LessSame

\* A call of Inject ends: the fault is counted before the call is forgotten.
LEMMA InjectedKeeps ==
    ASSUME IInv, UNCHANGED claims, Injected
    PROVE  IInv'
<1>1. /\ job.op = "inject" /\ job.todo = {} /\ ~job.err /\ job' = NoJob
      /\ live' = live \cup {job.fault} /\ active' = active \cup {job.fault}
      /\ UNCHANGED <<box, prim, plan, injected, stage, sweep, errs, residue, blind>>
    BY DEF Injected
<1>2. /\ job.fault \in Fault /\ job.fault \in injected /\ stage = "drive" /\ job'.op = "none"
    BY <1>1 DEF IInv, JobInv, NoJob
<1>3. StateInv' /\ JobInv' /\ PlannedInv'
    BY <1>1, <1>2 DEF IInv, StateInv, JobInv, PlannedInv
<1>4. (Doomed' <=> errs) /\ (Doomed <=> errs) /\ Working = {job.fault} /\ Working' = {}
    BY <1>1, <1>2 DEF Doomed, Working, Undo
<1>5. CallsInv'
    BY <1>1, <1>2 DEF IInv, CallsInv
<1>6. active \cup Working = (active \cup Working)'
    BY <1>1, <1>4
<1>7. ASSUME NEW f \in Fault, NEW n \in Node PROVE Answers(f, n)' <=> Answers(f, n)
    BY <1>1, <1>2, <1>6 DEF Answers
<1>8. ASSUME NEW f \in Fault, NEW n \in Node, ~Doomed PROVE Remembered(f, n)'
    BY <1>1, <1>2, <1>7, <1>8 DEF IInv, AccountInv, Remembered
<1> QED BY <1>1, <1>3, <1>4, <1>5, <1>6, <1>7, <1>8, CallKeeps, LessSame

\* Inject turns to its rollback: from here on it will return an error.
LEMMA RollBackKeeps ==
    ASSUME IInv, UNCHANGED claims, RollBack
    PROVE  IInv'
<1>1. /\ job.op \in {"plan", "inject"} /\ job.err
      /\ job' = Job("rollback", job.fault, plan[job.fault].nodes, FALSE)
      /\ UNCHANGED <<box, prim, plan, live, active, injected, stage, sweep, errs, residue,
                     blind>>
    BY DEF RollBack, schedule
<1>2. job.fault \in Fault /\ job.fault \in injected \ active /\ stage = "drive"
    BY <1>1 DEF IInv, JobInv, NoJob
<1>3. /\ job'.op = "rollback" /\ job'.fault = job.fault /\ job'.todo = plan[job.fault].nodes
      /\ job' \in [op : {"rollback"}, fault : Fault, todo : SUBSET Node, err : BOOLEAN]
    BY <1>1, <1>2, PlanTyped DEF Job, IInv
<1>4. StateInv' /\ JobInv'
    BY <1>1, <1>2, <1>3 DEF IInv, StateInv, JobInv
<1>5. Doomed' /\ Working' = Working
    BY <1>1, <1>3 DEF Doomed, Working, Undo
<1>6. CallsInv'
    BY <1>1, <1>2, <1>5 DEF IInv, CallsInv
<1> QED BY <1>1, <1>4, <1>5, <1>6, CallKeeps, LessSame

\* Inject has rolled back, and its error has reached the executor.
LEMMA RolledBackKeeps ==
    ASSUME IInv, UNCHANGED claims, RolledBack
    PROVE  IInv'
<1>1. /\ job.op = "rollback" /\ errs' = TRUE /\ stage' = "stopped" /\ job' = NoJob
      /\ UNCHANGED <<box, prim, plan, live, active, injected, sweep, residue, blind>>
    BY DEF RolledBack
<1>2. stage = "drive" /\ job'.op = "none" /\ Doomed'
    BY <1>1 DEF IInv, JobInv, NoJob, Doomed
<1>3. StateInv' /\ JobInv' /\ CallsInv'
    BY <1>1, <1>2 DEF IInv, StateInv, JobInv, CallsInv
<1> QED BY <1>1, <1>2, <1>3, CallKeeps, LessSame

\* A call of Withdraw begins: the fault answers for each node until it is done
\* with it.
LEMMA WithdrawKeeps ==
    ASSUME IInv, UNCHANGED claims, NEW f \in Fault, Withdraw(f)
    PROVE  IInv'
<1>1. /\ job = NoJob /\ f \in active
      /\ \/ stage \in {"drive", "stopped"} /\ UNCHANGED sweep
         \/ stage = "heal" /\ f \in sweep /\ sweep' = sweep \ {f}
      /\ prim' = IF f \in live THEN prim ELSE [prim EXCEPT ![f] = Fresh]
      /\ job' = Job("withdraw", f, plan[f].nodes, FALSE)
      /\ UNCHANGED <<box, plan, live, active, injected, stage, errs, residue, blind>>
    BY DEF Withdraw
<1>2. /\ job'.op = "withdraw" /\ job'.fault = f /\ job'.todo = plan[f].nodes /\ ~job'.err
      /\ job' \in [op : {"withdraw"}, fault : Fault, todo : SUBSET Node, err : BOOLEAN]
      /\ job.op = "none"
    BY <1>1, PlanTyped DEF Job, NoJob, IInv
<1>3. StateInv'
    BY <1>1, FreshTyped DEF IInv, StateInv
<1>4. JobInv'
    BY <1>1, <1>2 DEF IInv, JobInv, CallsInv
<1>5. CallsInv'
    BY <1>1, <1>2 DEF IInv, CallsInv, Doomed
<1>6. (Doomed' <=> errs) /\ (Doomed <=> errs) /\ Working = {} /\ Working' = {f}
    BY <1>1, <1>2 DEF Doomed, Working, Undo
<1>7. ASSUME NEW g \in Fault, NEW n \in Node PROVE Answers(g, n)' <=> Answers(g, n)
    BY <1>1, <1>2, <1>6 DEF Answers
<1>8. ~errs => prim' = prim
    BY <1>1 DEF IInv, CallsInv
<1>9. ASSUME NEW g \in Fault, NEW n \in Node, ~errs PROVE Remembered(g, n)'
    BY <1>2, <1>6, <1>7, <1>8, <1>9, <1>1 DEF IInv, AccountInv, Remembered
<1>10. PlannedInv'
    BY <1>2 DEF PlannedInv
<1> QED BY <1>1, <1>3, <1>4, <1>5, <1>6, <1>7, <1>8, <1>9, <1>10, CallKeeps, LessSame

\* A call of Withdraw ends: without an error there is nothing left to answer for.
LEMMA WithdrawnKeeps ==
    ASSUME IInv, UNCHANGED claims, Withdrawn
    PROVE  IInv'
<1>1. /\ job.op = "withdraw" /\ job.todo = {} /\ live' = live \ {job.fault}
      /\ active' = IF job.err THEN active ELSE active \ {job.fault}
      /\ errs' = (errs \/ job.err) /\ job' = NoJob
      /\ UNCHANGED <<box, prim, plan, injected, stage, sweep, residue, blind>>
    BY DEF Withdrawn, StillLive, StillActive
<1>2. /\ job.fault \in active \ sweep /\ job.fault \in Fault
      /\ job.err \in BOOLEAN /\ job'.op = "none"
    BY <1>1 DEF IInv, JobInv, NoJob
<1>3. StateInv' /\ JobInv' /\ PlannedInv'
    BY <1>1, <1>2 DEF IInv, StateInv, JobInv, PlannedInv
<1>4. /\ Doomed' <=> errs'
      /\ Doomed <=> errs'
      /\ errs => errs'
      /\ Working' = {}
    BY <1>1, <1>2 DEF Doomed, Working, Undo
<1>5. CallsInv'
    BY <1>1, <1>2, <1>4 DEF IInv, CallsInv
<1>6. ASSUME ~errs', NEW f \in Fault, NEW n \in Node PROVE Answers(f, n)' <=> Answers(f, n)
    BY <1>1, <1>2, <1>4, <1>6 DEF Answers, Working, Undo
<1>7. ASSUME ~errs', NEW f \in Fault, NEW n \in Node PROVE Remembered(f, n)'
    BY <1>1, <1>2, <1>4, <1>6, <1>7 DEF IInv, AccountInv, Remembered
<1> QED BY <1>1, <1>3, <1>4, <1>5, <1>6, <1>7, CallKeeps, LessSame

\* planShaping: the fault has a free slot on each of its nodes, and takes no other.
LEMMA ClaimClaims ==
    ASSUME StateInv, job.fault \in Fault, SlotsFree, Claim
    PROVE  LET f == job.fault IN
           /\ \A g \in Fault : g # f => prim'[g] = prim[g]
           /\ prim'[f].base = prim[f].base /\ prim'[f].applied = prim[f].applied
           /\ prim' \in [Fault -> Memory] /\ claims' \in [Node -> SUBSET (1..Slots)]
           /\ \A n \in Node : claims[n] \subseteq claims'[n]
           /\ \A n \in plan[f].nodes : prim'[f].slot[n] \in claims'[n]
           /\ \A n \in Node : claims'[n] \ claims[n] \subseteq {prim'[f].slot[n]}
           /\ \A n \in Node \ plan[f].nodes : claims'[n] = claims[n]
<1> DEFINE f == job.fault
           slot == [n \in Node |-> IF n \in plan[f].nodes THEN LowestFree(n) ELSE 0]
<1>1. /\ prim' = [prim EXCEPT ![f].slot = slot]
      /\ claims' = [n \in Node |-> claims[n] \cup ({slot[n]} \ {0})]
    BY DEF Claim
<1>2. plan[f].nodes \subseteq Node /\ prim[f] \in Memory
    BY PlanTyped DEF StateInv
<1>3. ASSUME NEW n \in plan[f].nodes PROVE LowestFree(n) \in 1..Slots
    <2> DEFINE free == 1..Slots \ claims[n]
    <2>1. free # {} /\ free \subseteq Nat
        <3>1. n \in Node /\ claims[n] \subseteq 1..Slots
            BY <1>2, <1>3 DEF StateInv
        <3>2. claims[n] # 1..Slots
            BY <1>3 DEF SlotsFree
        <3>3. free # {}
            BY <3>1, <3>2
        <3>4. free \subseteq Nat
            BY <3>1, InjectorAssumption
        <3> QED BY <3>3, <3>4
    <2>2. \E s \in free : \A t \in free : s <= t
        <3> HIDE DEF free
        <3> QED BY <2>1, LeastOf
    <2> QED BY <2>2 DEF LowestFree
<1>4. slot \in [Node -> 0..Slots] /\ (\A n \in plan[f].nodes : slot[n] \in 1..Slots)
      /\ \A n \in Node \ plan[f].nodes : slot[n] = 0
    BY <1>2, <1>3, InjectorAssumption
<1>5. claims' \in [Node -> SUBSET (1..Slots)]
    BY <1>1, <1>4 DEF StateInv
<1>6. prim'[f] = [prim[f] EXCEPT !.slot = slot] /\ \A g \in Fault : g # f => prim'[g] = prim[g]
    BY <1>1 DEF StateInv
<1>7. /\ prim'[f] \in Memory /\ prim'[f].slot = slot
      /\ prim'[f].base = prim[f].base /\ prim'[f].applied = prim[f].applied
    BY <1>2, <1>4, <1>6 DEF Memory
<1>8. prim' \in [Fault -> Memory]
    BY <1>1, <1>6, <1>7 DEF StateInv
<1>9. \A n \in Node : claims'[n] = claims[n] \cup ({slot[n]} \ {0})
    BY <1>1
<1>10. \A n \in Node : claims[n] \subseteq claims'[n]
    BY <1>9
<1>11. \A n \in plan[f].nodes : prim'[f].slot[n] \in claims'[n]
    BY <1>2, <1>4, <1>7, <1>9
<1>12. \A n \in Node : claims'[n] \ claims[n] \subseteq {prim'[f].slot[n]}
    BY <1>7, <1>9
<1>13. \A n \in Node \ plan[f].nodes : claims'[n] = claims[n]
    BY <1>4, <1>9
<1> HIDE DEF slot
<1> QED BY <1>5, <1>6, <1>7, <1>8, <1>10, <1>11, <1>12, <1>13

\* HEAL begins, and its checks follow each other.
LEMMA HealKeeps ==
    ASSUME IInv, UNCHANGED claims, Heal \/ VerifyClean \/ NextFamily \/ Reported
    PROVE  IInv'
<1> DEFINE Checks == [op : {"verify"}, fault : 1..Len(Families), todo : SUBSET Node,
                      err : BOOLEAN]
<1>1. /\ UNCHANGED <<box, prim, plan, live, active, injected, errs, residue, blind>>
      /\ job = NoJob \/ job.op = "verify"
      /\ job' = NoJob \/ \E i \in 1..Len(Families) : job' = Job("verify", i, Node, FALSE)
    <2>1. CASE Heal
        BY <2>1 DEF Heal
    <2>2. CASE VerifyClean
        <3>1. 1 \in 1..Len(Families)
            BY DEF Families
        <3> QED BY <2>2, <3>1 DEF VerifyClean
    <2>3. CASE NextFamily
        <3>1. job.fault \in 1..Len(Families) /\ job.fault < Len(Families)
            <4>1. job.op = "verify" /\ job.fault < Len(Families)
                BY <2>3 DEF NextFamily
            <4> QED BY <4>1 DEF NoJob, IInv, JobInv
        <3>2. Len(Families) = 4
            BY DEF Families
        <3>3. job.fault + 1 \in 1..Len(Families)
            BY <3>1, <3>2
        <3>4. /\ job' = Job("verify", job.fault + 1, Node, FALSE) /\ job.op = "verify"
              /\ UNCHANGED <<box, prim, plan, live, active, injected, errs, residue, blind>>
            BY <2>3 DEF NextFamily, schedule
        <3> QED BY <3>3, <3>4
    <2>4. CASE Reported
        BY <2>4 DEF Reported
    <2> QED BY <2>1, <2>2, <2>3, <2>4
<1>2. /\ job = NoJob \/ job \in Checks
      /\ job' = NoJob \/ job' \in Checks
    <2>1. job = NoJob \/ job \in Checks
        BY <1>1 DEF NoJob, IInv, JobInv
    <2>2. ASSUME NEW i \in 1..Len(Families) PROVE Job("verify", i, Node, FALSE) \in Checks
        <3> HIDE DEF Families
        <3> QED BY DEF Job
    <2> HIDE DEF Checks
    <2> QED BY <1>1, <2>1, <2>2
<1>3. /\ job.op \in {"none", "verify"} /\ job'.op \in {"none", "verify"}
      /\ job.op = "verify" => ~job.err
      /\ job'.op = "verify" => ~job'.err
    <2>1. job.op = "verify" => ~job.err
        BY DEF IInv, JobInv
    <2>2. \A i : LET j == Job("verify", i, Node, FALSE) IN j.op = "verify" /\ ~j.err
        BY DEF Job
    <2>3. NoJob.op = "none"
        BY DEF NoJob
    <2> QED BY <1>1, <2>1, <2>2, <2>3
<1>4. job'.op = "verify" => stage' = "verify"
    <2>1. CASE Heal
        BY <1>3, <2>1 DEF Heal, NoJob
    <2>2. CASE VerifyClean
        BY <2>2 DEF VerifyClean
    <2>3. CASE NextFamily
        BY <2>3 DEF NextFamily, schedule, IInv, JobInv
    <2>4. CASE Reported
        BY <2>4 DEF Reported, NoJob
    <2> QED BY <2>1, <2>2, <2>3, <2>4
<1>11. StateInv' /\ PlannedInv' /\ JobInv'
    BY <1>1, <1>2, <1>3, <1>4 DEF IInv, StateInv, PlannedInv, JobInv
<1>5. (Doomed' <=> errs) /\ (errs => Doomed) /\ Working = {} /\ Working' = {}
    BY <1>1, <1>3 DEF Doomed, Working, Undo, NoJob
<1>6. ~errs => ~Doomed
    BY <1>3 DEF Doomed
<1>7. CallsInv'
    BY <1>1, <1>3, <1>5, <1>6
       DEF Heal, VerifyClean, NextFamily, Reported, schedule, IInv, CallsInv, JobInv, NoJob
<1>8. ASSUME NEW f \in Fault, NEW n \in Node PROVE Answers(f, n)' <=> Answers(f, n)
    BY <1>1, <1>3, <1>5 DEF Answers
<1>9. ASSUME ~errs, NEW f \in Fault, NEW n \in Node PROVE Remembered(f, n)'
    BY <1>1, <1>3, <1>6, <1>8, <1>9 DEF IInv, AccountInv, Remembered
<1> QED BY <1>1, <1>5, <1>6, <1>7, <1>8, <1>9, <1>11, CallKeeps, LessSame

\* VerifyClean of any family looks, and touches nothing but its report.
LEMMA VerifyKeeps ==
    ASSUME IInv, UNCHANGED claims, NEW n \in Node,
           VerifyProc(n) \/ VerifyNet(n) \/ VerifyClock(n) \/ VerifyIO(n)
    PROVE  IInv'
<1>1. /\ job.op = "verify" /\ TargetDone(n) /\ residue' \in BOOLEAN
      /\ UNCHANGED <<box, prim, plan, live, active, injected, stage, sweep, errs, blind>>
    <2>1. \E seen \in BOOLEAN : Reports(n, seen)
        BY DEF VerifyProc, VerifyNet, VerifyClock, VerifyIO, Joins, NetDirty, IInv, StateInv,
           Box
    <2>2. job.op = "verify"
        BY DEF VerifyProc, VerifyNet, VerifyClock, VerifyIO, Verifies, Turn
    <2> QED BY <2>1, <2>2 DEF Reports, IInv, StateInv
<1>2. /\ job \in [op : {"verify"}, fault : 1..Len(Families), todo : SUBSET Node, err : BOOLEAN]
      /\ job' \in [op : {"verify"}, fault : 1..Len(Families), todo : SUBSET Node,
                   err : {job.err}]
    BY <1>1 DEF IInv, JobInv, NoJob, TargetDone
<1>3. StateInv' /\ JobInv' /\ PlannedInv'
    BY <1>1, <1>2 DEF IInv, StateInv, JobInv, PlannedInv
<1>4. (Doomed' <=> Doomed) /\ Working = {} /\ Working' = {}
    BY <1>1, <1>2 DEF Doomed, Working, Undo
<1>5. CallsInv'
    BY <1>1, <1>2, <1>4 DEF IInv, CallsInv
<1>6. ASSUME NEW f \in Fault, NEW m \in Node PROVE Answers(f, m)' <=> Answers(f, m)
    BY <1>1, <1>2, <1>4 DEF Answers
<1>7. ASSUME ~Doomed, NEW f \in Fault, NEW m \in Node PROVE Remembered(f, m)'
    BY <1>1, <1>2, <1>6, <1>7 DEF IInv, AccountInv, Remembered
<1> QED BY <1>1, <1>3, <1>4, <1>5, <1>6, <1>7, CallKeeps, LessSame

\* A kill and a restart leave nothing that is held.
LEMMA NothingKeeps ==
    ASSUME IInv, UNCHANGED claims, NothingToUndo
    PROVE  IInv'
<1>1. /\ job.op \in {"withdraw", "rollback"} /\ plan[job.fault].kind \in {"kill", "restart"}
      /\ job' = [job EXCEPT !.todo = {}]
      /\ UNCHANGED <<box, prim, plan, live, active, injected, stage, sweep, errs, residue,
                     blind>>
    BY DEF NothingToUndo, Undo, KindOf, schedule
<1>2. job \in [op : {"withdraw", "rollback"}, fault : Fault, todo : SUBSET Node, err : BOOLEAN]
    BY <1>1 DEF IInv, JobInv, NoJob
<1>3. /\ job' \in [op : {job.op}, fault : {job.fault}, todo : {{}}, err : {job.err}]
    BY <1>1, <1>2
<1>4. StateInv' /\ PlannedInv'
    BY <1>1, <1>3 DEF IInv, StateInv, PlannedInv
<1>5. JobInv'
    BY <1>1, <1>2, <1>3 DEF IInv, JobInv
<1>6. (Doomed' <=> Doomed) /\ Working' = Working
    BY <1>1, <1>2, <1>3 DEF Doomed, Working, Undo
<1>7. CallsInv'
    BY <1>1, <1>3, <1>6 DEF IInv, CallsInv
<1>8. ASSUME NEW n \in Node, AllHeld(n), box[n] \in Box PROVE AllHeld(n)'
    <2>1. \A f \in Fault : Answers(f, n) /\ plan[f].kind \notin {"kill", "restart"} =>
                               Answers(f, n)'
        BY <1>1, <1>3, <1>6 DEF Answers
    <2> USE <1>1, <1>8, <2>1 DEF AllHeld, Held
    <2>2. PauseHeld(n)' /\ QuotaHeld(n)' /\ MemHeld(n)'
        BY DEF PauseHeld, QuotaHeld, MemHeld
    <2>3. FdHeld(n)' /\ SkewHeld(n)' /\ RulesHeld(n)'
        BY DEF FdHeld, SkewHeld, RulesHeld, Box
    <2>4. BallastHeld(n)' /\ SlotsHeld(n)' /\ QdiscsHeld(n)'
        BY DEF BallastHeld, SlotsHeld, QdiscsHeld, Box
    <2> QED BY <2>2, <2>3, <2>4
<1>9. ASSUME NEW f \in Fault, NEW n \in Node, Remembered(f, n) PROVE Remembered(f, n)'
    BY <1>1, <1>3, <1>6, <1>9 DEF Remembered, Answers
<1>10. AccountInv'
    BY <1>4, <1>6, <1>8, <1>9 DEF IInv, AccountInv, StateInv
<1>11. LeaksAreReported'
    BY <1>1, <1>6 DEF IInv, LeaksAreReported, Dirty, NetDirty
<1> QED BY <1>4, <1>5, <1>7, <1>10, <1>11 DEF IInv

\* NetFault.Inject up to its first script: the slots it takes are its own.
LEMMA PlanKeeps ==
    ASSUME IInv, Plan
    PROVE  IInv'
<1>1. /\ job.op = "plan"
      /\ UNCHANGED <<box, plan, live, active, injected, stage, sweep, errs, residue, blind>>
    BY DEF Plan, schedule
<1>2. /\ job \in [op : {"plan"}, fault : Fault, todo : SUBSET Node, err : BOOLEAN]
      /\ job.todo \subseteq plan[job.fault].nodes
      /\ job.fault \in injected \ active /\ stage = "drive"
    BY <1>1 DEF IInv, JobInv, NoJob
<1>3. CASE job' = [job EXCEPT !.todo = {}, !.err = TRUE] /\ UNCHANGED <<prim, claims>>
    <2>1. job' \in [op : {"plan"}, fault : {job.fault}, todo : {{}}, err : {TRUE}]
        BY <1>2, <1>3
    <2>2. StateInv' /\ JobInv'
        BY <1>1, <1>2, <1>3, <2>1 DEF IInv, StateInv, JobInv
    <2>3. Doomed' /\ Working' = Working
        BY <1>1, <2>1 DEF Doomed, Working
    <2>4. CallsInv'
        BY <1>1, <1>2, <2>1 DEF IInv, CallsInv
    <2> QED BY <1>1, <1>3, <2>2, <2>3, <2>4, CallKeeps, LessSame
<1>4. CASE job' = [job EXCEPT !.op = "inject"] /\ (Shaping => SlotsFree)
           /\ IF Shaping THEN Claim ELSE UNCHANGED <<prim, claims>>
    <2> DEFINE f == job.fault
    <2>1. /\ job' \in [op : {"inject"}, fault : {f}, todo : {job.todo}, err : {job.err}]
          /\ Working = {f} /\ Working' = {f}
        BY <1>1, <1>2, <1>4 DEF Working
    <2>2. /\ \A g \in Fault : g # f => prim'[g] = prim[g]
          /\ prim'[f].base = prim[f].base /\ prim'[f].applied = prim[f].applied
          /\ prim' \in [Fault -> Memory] /\ claims' \in [Node -> SUBSET (1..Slots)]
          /\ \A n \in Node : claims[n] \subseteq claims'[n]
          /\ plan[f].kind # "shape" => prim' = prim /\ claims' = claims
          /\ plan[f].kind = "shape" =>
                /\ \A n \in plan[f].nodes : prim'[f].slot[n] \in claims'[n]
                /\ \A n \in Node : claims'[n] \ claims[n] \subseteq {prim'[f].slot[n]}
                /\ \A n \in Node \ plan[f].nodes : claims'[n] = claims[n]
        BY <1>4, <1>2, ClaimClaims DEF Shaping, KindOf, IInv, StateInv
    <2>3. StateInv'
        BY <1>1, <2>2 DEF IInv, StateInv
    <2>4. JobInv'
        BY <1>1, <1>2, <2>1, <2>2 DEF IInv, JobInv, KindOf
    <2>5. Doomed' <=> Doomed
        BY <1>1, <2>1 DEF Doomed
    <2>6. CallsInv'
        BY <1>1, <1>2, <2>1 DEF IInv, CallsInv
    <2>7. ASSUME NEW g \in Fault, NEW n \in Node PROVE Answers(g, n)' <=> Answers(g, n)
        BY <1>1, <1>2, <2>1 DEF Answers
    <2>8. ASSUME ~Doomed PROVE /\ \A n \in Node : AllHeld(n) /\ box[n] \in Box
                               /\ \A g \in Fault, n \in Node : Remembered(g, n)
                               /\ prim[f] = Fresh /\ plan[f].kind \in {"partition", "shape"}
        BY <1>1, <2>8 DEF IInv, AccountInv, StateInv, PlannedInv, KindOf, NetKind
    <2>9. ASSUME ~Doomed, NEW n \in Node PROVE AllHeld(n)'
        <3> USE <1>1, <2>2, <2>7, <2>8, <2>9 DEF AllHeld, Held
        <3>1. PauseHeld(n)' /\ QuotaHeld(n)' /\ MemHeld(n)'
            BY DEF PauseHeld, QuotaHeld, MemHeld
        <3>2. FdHeld(n)' /\ SkewHeld(n)' /\ RulesHeld(n)'
            BY DEF FdHeld, SkewHeld, RulesHeld, Box
        <3>3. BallastHeld(n)' /\ QdiscsHeld(n)'
            BY DEF BallastHeld, QdiscsHeld, Box
        <3>4. ASSUME NEW s \in claims'[n]
              PROVE  \E g \in Fault : /\ Answers(g, n)' /\ plan[g].kind = "shape"
                                      /\ prim'[g].slot[n] = s
            <4>1. CASE s \in claims[n]
                <5>1. PICK g \in Fault : /\ Answers(g, n) /\ plan[g].kind = "shape"
                                         /\ prim[g].slot[n] = s
                    BY <4>1 DEF SlotsHeld
                <5>2. s # 0
                    BY <4>1 DEF IInv, StateInv
                <5>3. g # f
                    BY <5>1, <5>2 DEF Fresh
                <5> QED BY <5>1, <5>3
            <4>2. CASE s \notin claims[n]
                <5>1. plan[f].kind = "shape" /\ n \in plan[f].nodes /\ prim'[f].slot[n] = s
                    BY <3>4, <4>2
                <5>2. Answers(f, n)
                    BY <1>1, <2>1, <5>1 DEF Answers
                <5> QED BY <1>2, <5>1, <5>2
            <4> QED BY <4>1, <4>2
        <3>5. SlotsHeld(n)'
            BY <3>4 DEF SlotsHeld
        <3> QED BY <3>1, <3>2, <3>3, <3>5
    <2>10. ASSUME ~Doomed, NEW g \in Fault, NEW n \in Node PROVE Remembered(g, n)'
        BY <1>1, <1>2, <2>1, <2>2, <2>7, <2>8, <2>10 DEF Remembered
    <2>11. ASSUME ~Doomed PROVE PlannedInv'
        BY <1>2, <2>1, <2>2, <2>8, <2>11, FreshTyped DEF PlannedInv
    <2>12. AccountInv'
        BY <2>5, <2>9, <2>10, <2>11 DEF AccountInv
    <2>13. LeaksAreReported'
        BY <1>1, <2>1 DEF IInv, LeaksAreReported, Dirty, NetDirty
    <2> QED BY <2>3, <2>4, <2>6, <2>12, <2>13 DEF IInv
<1> QED BY <1>3, <1>4 DEF Plan

-----------------------------------------------------------------------------
(* The world.                                                              *)

\* A world starts with its containers as they booted, and nothing to account for.
LEMMA InitIInv == Init => IInv
<1> SUFFICES ASSUME Init PROVE IInv
    OBVIOUS
<1>1. BootBox \in Box /\ Sound(BootBox)
    BY DEF BootBox, Box, Sound
<1>2. StateInv
    BY <1>1, FreshTyped, InjectorAssumption DEF Init, StateInv
<1>3. job.op = "none" /\ Working = {} /\ ~Doomed
    BY DEF Init, NoJob, Working, Undo, Doomed
<1>4. JobInv /\ CallsInv /\ PlannedInv
    BY <1>3 DEF Init, JobInv, CallsInv, PlannedInv
<1>5. \A n \in Node : box[n] = BootBox /\ claims[n] = {}
    BY DEF Init
<1>6. ASSUME NEW n \in Node PROVE AllHeld(n)
    BY <1>5 DEF BootBox, AllHeld, PauseHeld, QuotaHeld, MemHeld, FdHeld, SkewHeld, RulesHeld,
                BallastHeld, SlotsHeld, QdiscsHeld
<1>7. \A f \in Fault, n \in Node : Remembered(f, n)
    BY <1>3 DEF Init, Remembered, Answers
<1>8. LeaksAreReported
    BY <1>5 DEF BootBox, LeaksAreReported, Dirty, NetDirty
<1> QED BY <1>2, <1>4, <1>6, <1>7, <1>8 DEF IInv, AccountInv

\* Every step of every family keeps the account.
LEMMA NextIInv == IInv /\ [Next]_vars => IInv'
<1> SUFFICES ASSUME IInv, [Next]_vars PROVE IInv'
    OBVIOUS
<1>1. CASE UNCHANGED vars
    <2>1. UNCHANGED <<box, prim, plan, live, active, injected, job, stage, sweep, errs,
                      residue, blind, claims>>
        BY <1>1 DEF vars
    <2>2. (Doomed' <=> Doomed) /\ Working' = Working
        BY <2>1 DEF Doomed, Working
    <2>3. StateInv' /\ JobInv' /\ CallsInv' /\ (PlannedInv' <=> PlannedInv)
        BY <2>1, <2>2 DEF IInv, StateInv, JobInv, CallsInv, PlannedInv, KindOf
    <2>4. \A f \in Fault, n \in Node : /\ Answers(f, n)' <=> Answers(f, n)
                                       /\ Remembered(f, n)' <=> Remembered(f, n)
        BY <2>1, <2>2 DEF Answers, Remembered
    <2> QED BY <2>1, <2>2, <2>3, <2>4, CallKeeps, LessSame DEF IInv, AccountInv
<1>2. CASE Call /\ UNCHANGED claims
    BY <1>2, CrashKeeps, InjectKeeps, WithdrawKeeps, InjectedKeeps, RollBackKeeps,
       RolledBackKeeps, WithdrawnKeeps, HealKeeps DEF Call
<1>3. CASE ProcStep /\ UNCHANGED claims
    BY <1>3, PauseSettles, ResumeSettles, KillSettles, SlowSettles, UnthrottleSettles,
       TargetKeeps, NothingKeeps, VerifyKeeps DEF ProcStep
<1>4. CASE HostStep /\ UNCHANGED claims
    BY <1>4, SkewSettles, UnskewSettles, FillSettles, EmptySettles, PressSettles,
       RelieveSettles, ExhaustSettles, UnlimitSettles, TargetKeeps, VerifyKeeps DEF HostStep
<1>5. CASE NetStep
    BY <1>5, PlanKeeps, CutSettles, ShapeSettles, SweepSettles, TargetKeeps, VerifyKeeps
       DEF NetStep
<1> QED BY <1>1, <1>2, <1>3, <1>4, <1>5 DEF Next

\* The invariant holds in every world.
LEMMA Invariance == Spec => []IInv
BY InitIInv, NextIInv, PTL DEF Spec

\* The containers, the calls and the report are well formed in every world.
THEOREM FamiliesTypeOK == Spec => []TypeOK
<1>1. IInv => TypeOK
    <2> SUFFICES ASSUME IInv PROVE TypeOK
        OBVIOUS
    <2>1. plan \in [Fault -> [kind : Kind, nodes : SUBSET Node]]
        BY PlanTyped DEF IInv
    <2>2. ASSUME NEW n \in Node
          PROVE  /\ box[n].rules \subseteq Fault /\ box[n].ballast \subseteq Fault
                 /\ {box[n].quota, box[n].mem, box[n].fd, box[n].skew}
                       \subseteq Fault \cup {None}
                 /\ box[n].netem \subseteq 1..Slots /\ claims[n] \subseteq 1..Slots
                 /\ box[n].netem # {} => box[n].root
                 /\ box[n].paused => box[n].up
        <3>1. box[n] \in Box /\ Sound(box[n]) /\ claims[n] \subseteq 1..Slots
            BY DEF IInv, StateInv
        <3> QED BY <3>1 DEF Box, Sound
    <2> QED BY <2>1, <2>2 DEF IInv, StateInv, CallsInv, TypeOK
<1> QED BY <1>1, Invariance, PTL

\* A leaked disturbance is somebody's to undo or somebody's error at every step of
\* every world, whatever its nodes, its faults and their kinds; a healed world none
\* of whose calls failed is clean; and no slot is taken in the kernel that is free
\* in memory.
THEOREM NothingLeaks == Spec => []NothingIsLeftUnseen
<1>1. IInv => LeaksAreReported
    BY DEF IInv
<1>2. IInv => CleanWithoutErrors
    <2> SUFFICES ASSUME IInv, stage = "done", ~errs, NEW n \in Node PROVE ~Dirty(n)
        BY DEF CleanWithoutErrors
    <2>1. active = {} /\ job.op \notin {"plan", "inject", "rollback", "withdraw"}
        BY DEF IInv, CallsInv, JobInv
    <2>2. Working = {}
        BY <2>1 DEF Working, Undo
    <2> QED BY <2>1, <2>2 DEF IInv, LeaksAreReported
<1>3. IInv => QdiscsAreClaimed
    <2> SUFFICES ASSUME IInv, job = NoJob, ~errs, NEW n \in Node
                 PROVE  /\ box[n].netem \subseteq claims[n]
                        /\ box[n].root => claims[n] # {}
        BY DEF QdiscsAreClaimed
    <2>1. ~Doomed
        BY DEF Doomed, NoJob
    <2> QED BY <2>1 DEF IInv, AccountInv, AllHeld, QdiscsHeld
<1> QED BY <1>1, <1>2, <1>3, Invariance, PTL DEF NothingIsLeftUnseen

-----------------------------------------------------------------------------
(* What a withdrawal undoes.                                               *)

\* The injection of f has come to n.
Touched(f, n) ==
    f \in injected /\ ~(job.op \in {"plan", "inject"} /\ job.fault = f /\ n \in job.todo)

Of(h, f, n) == plan[f].kind = h /\ Touched(f, n)

\* What a container carries of a fault is of that fault's kind.
LabelsInv ==
    \A n \in Node :
        /\ box[n].quota # None => Of("slow", box[n].quota, n)
        /\ box[n].mem # None => Of("mem", box[n].mem, n)
        /\ box[n].fd # None => Of("fd", box[n].fd, n)
        /\ box[n].skew # None => plan[box[n].skew].kind = "clock"
        /\ \A f \in box[n].rules : plan[f].kind = "partition"
        /\ \A f \in box[n].ballast : plan[f].kind = "fill"

\* The baseline a fault observed is another fault's of its kind, never its own.
BasesInv ==
    \A f \in Fault, n \in Node :
        /\ prim[f].base[n] \in Fault =>
              prim[f].base[n] # f /\ Of(plan[f].kind, prim[f].base[n], n)
        /\ plan[f].kind # "shape" => prim[f].slot[n] = 0

Marking == {"pause", "slow", "mem", "clock", "fd"}

\* The primitive whose injection went well, and that is still there to withdraw
\* it, has marked every node it came to and has not left again.
MarksInv ==
    /\ job.op = "plan" => plan[job.fault].kind \in NetKind
    /\ \A f \in Fault, n \in Node :
        /\ f \in live \/ (job.op = "inject" /\ job.fault = f /\ ~job.err)
        /\ n \in plan[f].nodes /\ plan[f].kind \in Marking
        => \/ n \in prim[f].applied
           \/ job.op = "inject" /\ job.fault = f /\ n \in job.todo
           \/ job.op = "withdraw" /\ job.fault = f /\ n \notin job.todo

Undone(f, n) ==
    /\ plan[f].kind = "pause" => ~box[n].paused
    /\ box[n].quota # f /\ box[n].mem # f /\ box[n].skew # f /\ f \notin box[n].rules
    /\ prim[f].slot[n] \notin box[n].netem
    /\ n \notin blind => box[n].fd # f /\ f \notin box[n].ballast

UndoneInv ==
    job.op = "withdraw" /\ job.fault \in live /\ ~job.err =>
        \A n \in plan[job.fault].nodes \ job.todo : Undone(job.fault, n)

UInv == LabelsInv /\ BasesInv /\ MarksInv /\ UndoneInv

\* What an injector may leave on a node's container: what it found there, nothing,
\* the name of the fault it injects, or the baseline it restores.
TracedBox(n) ==
    LET f == job.fault
        h == plan[f].kind
        a == box[n]
        b == box'[n]
        mine == IF job.op = "inject" THEN f ELSE prim[f].base[n]
    IN  /\ b.quota = None \/ b.quota = a.quota \/ (h = "slow" /\ b.quota = mine)
        /\ b.mem = None \/ b.mem = a.mem \/ (h = "mem" /\ b.mem = mine)
        /\ b.fd = None \/ b.fd = a.fd \/ (h = "fd" /\ b.fd = mine)
        /\ b.skew = None \/ b.skew = a.skew \/ (h = "clock" /\ b.skew = f)
        /\ b.rules \subseteq a.rules \cup {f} /\ (h # "partition" => b.rules \subseteq a.rules)
        /\ b.ballast \subseteq a.ballast \cup {f}
        /\ h # "fill" => b.ballast \subseteq a.ballast

\* And what its primitive remembers of the node.
TracedPrim(n) ==
    LET f == job.fault
        h == plan[f].kind
        old == prim[f].base[n]
        new == prim'[f].base[n]
    IN  /\ \/ new = old
           \/ job.op = "inject" /\ h = "slow" /\ new = box[n].quota
           \/ job.op = "inject" /\ h = "mem" /\ new = box[n].mem
           \/ job.op = "inject" /\ h = "fd" /\ new = box[n].fd
        /\ job.op = "inject" /\ ~job'.err /\ h \in Marking => n \in prim'[f].applied

\* A withdrawal that reports nothing has undone what its fault does, if the
\* primitive knows that it did it here.
Cleaned(n) ==
    LET f == job.fault
        h == plan[f].kind
        b == box'[n]
        base == prim[f].base[n]
    IN  job.op = "withdraw" /\ ~job'.err /\ (h \in Marking => n \in prim[f].applied) =>
            /\ h = "pause" => ~b.paused
            /\ h = "slow" => b.quota \in {None, base}
            /\ h = "mem" => b.mem \in {None, base}
            /\ h = "fd" => n \in blind' \/ b.fd \in {None, base}
            /\ h = "clock" => b.skew = None
            /\ h = "partition" => f \notin b.rules
            /\ h = "shape" => prim[f].slot[n] \notin b.netem
            /\ h = "fill" => n \in blind' \/ f \notin b.ballast

Traced(n) == TracedBox(n) /\ TracedPrim(n) /\ Cleaned(n)

\* The injection of a fault goes on to come to no node it has not come to.
LEMMA TouchedStays ==
    ASSUME IInv, NEW n, Step(n), NEW f \in Fault, NEW m \in Node
    PROVE  /\ Touched(f, m) => Touched(f, m)'
           /\ job.op = "inject" => Touched(job.fault, n)'
           /\ job.op = "inject" => ~Touched(job.fault, n)
<1>1. /\ job'.op = job.op /\ job'.fault = job.fault /\ job'.todo = job.todo \ {n}
      /\ injected' = injected
    BY StepJob DEF schedule
<1>2. n \in job.todo /\ (job.op = "inject" => job.fault \in injected)
    BY AtTarget DEF Step, IInv, JobInv
<1> QED BY <1>1, <1>2 DEF Touched

\* A step whose traces are its fault's keeps the labels, and a withdrawal's leaves
\* its node undone.
LEMMA TargetTraces ==
    ASSUME IInv, UInv, NEW n, Step(n), Traced(n)
    PROVE  UInv'
<1> DEFINE f == job.fault
<1>1. /\ f \in Fault /\ n \in Node /\ n \in plan[f].nodes
      /\ job'.op = job.op /\ job'.fault = f /\ job'.todo = job.todo \ {n}
      /\ job.err => job'.err
      /\ plan' = plan /\ live' = live /\ n \in job.todo
      /\ job.op \in {"inject", "withdraw", "rollback"}
    BY StepJob DEF schedule, Step
<1>2. /\ \A g \in Fault \ {f} : prim'[g] = prim[g]
      /\ prim'[f].slot = prim[f].slot
      /\ \A m \in Node \ {n} : prim'[f].base[m] = prim[f].base[m]
      /\ \A m \in Node \ {n} : m \in prim[f].applied => m \in prim'[f].applied
    BY <1>1 DEF Step, PrimStep, IInv, StateInv
<1>3. /\ box[n] \in Box /\ box'[n] \in Box
      /\ \A m \in Node \ {n} : box'[m] = box[m] /\ (m \in blind' <=> m \in blind)
    BY <1>1 DEF Step, BoxStep, Becomes, IInv, StateInv
<1>4. /\ \A g \in Fault, m \in Node : Touched(g, m) => Touched(g, m)'
      /\ \A v \in Fault : job.op = "inject" /\ v = f => Touched(v, n)' /\ ~Touched(v, n)
    <2>1. job.op = "inject" => Touched(f, n)' /\ ~Touched(f, n)
        BY <1>1, TouchedStays
    <2>2. job.op = "inject" => \A v \in Fault : v = f => Touched(v, n)' /\ ~Touched(v, n)
        BY <1>1, <2>1 DEF Touched
    <2> QED BY <2>2, TouchedStays
<1>5. LabelsInv'
    <2>1. /\ \A m \in Node : /\ box[m].quota # None => Of("slow", box[m].quota, m)
                             /\ box[m].mem # None => Of("mem", box[m].mem, m)
                             /\ box[m].fd # None => Of("fd", box[m].fd, m)
          /\ box[n].skew # None => plan[box[n].skew].kind = "clock"
          /\ \A g \in box[n].rules : plan[g].kind = "partition"
          /\ \A g \in box[n].ballast : plan[g].kind = "fill"
          /\ None \notin Fault
        BY <1>1, FamiliesAssumption DEF UInv, LabelsInv
    <2>2. ASSUME NEW v \in Fault, NEW h, \/ Of(h, v, n)
                                         \/ job.op = "inject" /\ v = f /\ h = plan[f].kind
                                         \/ job.op # "inject" /\ v = prim[f].base[n]
                                               /\ h = plan[f].kind
          PROVE  plan[v].kind = h /\ Touched(v, n)'
        <3>1. CASE Of(h, v, n)
            BY <1>1, <1>4, <3>1 DEF Of
        <3>2. CASE job.op = "inject" /\ v = f /\ h = plan[f].kind
            BY <1>4, <3>2
        <3>3. CASE job.op # "inject" /\ v = prim[f].base[n] /\ h = plan[f].kind
            <4>1. Of(h, v, n)
                BY <1>1, <3>3 DEF UInv, BasesInv
            <4> QED BY <1>1, <1>4, <4>1 DEF Of
        <3> QED BY <2>2, <3>1, <3>2, <3>3
    <2>3. ASSUME NEW v \in Fault
          PROVE  /\ box'[n].quota = v => plan[v].kind = "slow" /\ Touched(v, n)'
                 /\ box'[n].mem = v => plan[v].kind = "mem" /\ Touched(v, n)'
                 /\ box'[n].fd = v => plan[v].kind = "fd" /\ Touched(v, n)'
        <3>1. box'[n].quota = v => plan[v].kind = "slow" /\ Touched(v, n)'
            <4>1. box'[n].quota = v =>
                     \/ box[n].quota = v
                     \/ /\ plan[f].kind = "slow"
                        /\ v = IF job.op = "inject" THEN f ELSE prim[f].base[n]
                BY <2>1 DEF Traced, TracedBox
            <4>2. box[n].quota = v => Of("slow", v, n)
                BY <1>1, <2>1
            <4> QED BY <2>2, <4>1, <4>2
        <3>2. box'[n].mem = v => plan[v].kind = "mem" /\ Touched(v, n)'
            <4>1. box'[n].mem = v =>
                     \/ box[n].mem = v
                     \/ /\ plan[f].kind = "mem"
                        /\ v = IF job.op = "inject" THEN f ELSE prim[f].base[n]
                BY <2>1 DEF Traced, TracedBox
            <4>2. box[n].mem = v => Of("mem", v, n)
                BY <1>1, <2>1
            <4> QED BY <2>2, <4>1, <4>2
        <3>3. box'[n].fd = v => plan[v].kind = "fd" /\ Touched(v, n)'
            <4>1. box'[n].fd = v =>
                     \/ box[n].fd = v
                     \/ /\ plan[f].kind = "fd"
                        /\ v = IF job.op = "inject" THEN f ELSE prim[f].base[n]
                BY <2>1 DEF Traced, TracedBox
            <4>2. box[n].fd = v => Of("fd", v, n)
                BY <1>1, <2>1
            <4> QED BY <2>2, <4>1, <4>2
        <3> QED BY <3>1, <3>2, <3>3
    <2>4. ASSUME NEW v \in Fault, NEW m \in Node \ {n}
          PROVE  /\ box'[m].quota = v => plan[v].kind = "slow" /\ Touched(v, m)'
                 /\ box'[m].mem = v => plan[v].kind = "mem" /\ Touched(v, m)'
                 /\ box'[m].fd = v => plan[v].kind = "fd" /\ Touched(v, m)'
        BY <1>3, <1>4, <2>1 DEF Of
    <2>5. /\ box'[n].skew # None => plan[box'[n].skew].kind = "clock"
          /\ \A g \in box'[n].rules : plan[g].kind = "partition"
          /\ \A g \in box'[n].ballast : plan[g].kind = "fill"
        BY <2>1 DEF Traced, TracedBox
    <2>6. \A m \in Node : /\ box'[m].skew # None => plan[box'[m].skew].kind = "clock"
                          /\ \A g \in box'[m].rules : plan[g].kind = "partition"
                          /\ \A g \in box'[m].ballast : plan[g].kind = "fill"
        BY <1>3, <2>5 DEF UInv, LabelsInv
    <2>7. \A m \in Node : box'[m] \in Box
        BY StepKeeps DEF StateInv
    <2> QED BY <1>1, <2>3, <2>4, <2>6, <2>7 DEF LabelsInv, Of, Touched, Box
<1>6. BasesInv'
    <2>1. ASSUME NEW g \in Fault, NEW m \in Node, NEW v \in Fault, prim'[g].base[m] = v
          PROVE  v # g /\ plan[v].kind = plan[g].kind /\ Touched(v, m)'
        <3>1. CASE prim'[g].base[m] = prim[g].base[m]
            BY <1>4, <2>1, <3>1 DEF UInv, BasesInv, Of
        <3>2. CASE prim'[g].base[m] # prim[g].base[m]
            <4>1. g = f /\ m = n
                BY <1>2, <3>2
            <4>2. job.op = "inject" /\ Of(plan[f].kind, v, n)
                <5>1. v # None
                    BY FamiliesAssumption
                <5> QED BY <1>1, <2>1, <3>2, <4>1, <5>1 DEF Traced, TracedPrim, UInv, LabelsInv
            <4> QED BY <1>1, <1>4, <4>1, <4>2 DEF Of
        <3> QED BY <3>1, <3>2
    <2>2. \A g \in Fault, m \in Node : plan[g].kind # "shape" => prim'[g].slot[m] = 0
        BY <1>2 DEF UInv, BasesInv
    <2> QED BY <1>1, <2>1, <2>2 DEF BasesInv, Of, Touched
<1>7. MarksInv'
    <2> SUFFICES ASSUME NEW g \in Fault, NEW m \in Node,
                        g \in live \/ (job.op = "inject" /\ f = g /\ ~job'.err),
                        m \in plan[g].nodes, plan[g].kind \in Marking
        PROVE  \/ m \in prim'[g].applied
               \/ job.op = "inject" /\ f = g /\ m \in job.todo \ {n}
               \/ job.op = "withdraw" /\ f = g /\ m \notin job.todo \ {n}
        BY <1>1 DEF MarksInv
    <2>1. \/ m \in prim[g].applied
          \/ job.op = "inject" /\ f = g /\ m \in job.todo
          \/ job.op = "withdraw" /\ f = g /\ m \notin job.todo
        BY <1>1 DEF UInv, MarksInv
    <2>2. CASE g # f
        BY <1>2, <2>1, <2>2
    <2>3. CASE g = f /\ m # n
        BY <1>2, <2>1, <2>3
    <2>4. CASE g = f /\ m = n
        <3>1. CASE job.op = "inject"
            <4>1. f \notin live
                BY <3>1 DEF IInv, JobInv, CallsInv
            <4> QED BY <2>4, <3>1, <4>1 DEF Traced, TracedPrim
        <3>2. CASE job.op = "withdraw"
            BY <2>4, <3>2
        <3>3. CASE job.op = "rollback"
            <4>1. f \notin live
                BY <3>3 DEF IInv, JobInv, CallsInv
            <4> QED BY <2>4, <3>3, <4>1
        <3> QED BY <1>1, <3>1, <3>2, <3>3
    <2> QED BY <2>2, <2>3, <2>4
<1>8. UndoneInv'
    <2> SUFFICES ASSUME job.op = "withdraw", f \in live, ~job'.err,
                        NEW m \in plan[f].nodes \ (job.todo \ {n})
                 PROVE  Undone(f, m)'
        BY <1>1 DEF UndoneInv
    <2>1. plan[f].nodes \subseteq Node
        BY <1>1, PlanTyped DEF IInv
    <2>2. CASE m # n
        <3>1. Undone(f, m)
            BY <1>1, <2>2 DEF UInv, UndoneInv
        <3>2. m \in Node \ {n}
            BY <2>1, <2>2
        <3> QED BY <1>1, <1>2, <1>3, <3>1, <3>2 DEF Undone
    <2>3. CASE m = n
        <3>1. plan[f].kind \in Marking => n \in prim[f].applied
            BY <1>1 DEF UInv, MarksInv
        <3>2. /\ prim[f].base[n] # f
              /\ plan[f].kind # "shape" => prim'[f].slot[n] = 0
              /\ None \notin Fault /\ prim'[f].slot[n] = prim[f].slot[n]
            BY <1>1, <1>2, FamiliesAssumption DEF UInv, BasesInv
        <3>3. LabelsInv' /\ box'[n].netem \subseteq 1..Slots
            BY <1>3, <1>5 DEF Box
        <3>4. /\ box'[n].quota # f /\ box'[n].mem # f
            <4>1. plan[f].kind # "slow" => box'[n].quota # f
                BY <1>1, <3>2, <3>3 DEF LabelsInv, Of
            <4>2. plan[f].kind # "mem" => box'[n].mem # f
                BY <1>1, <3>2, <3>3 DEF LabelsInv, Of
            <4> QED BY <1>1, <3>1, <3>2, <4>1, <4>2 DEF Traced, Cleaned
        <3>5. n \notin blind' => box'[n].fd # f
            <4>1. plan[f].kind # "fd" => box'[n].fd # f
                BY <1>1, <3>2, <3>3 DEF LabelsInv, Of
            <4> QED BY <1>1, <3>1, <3>2, <4>1 DEF Traced, Cleaned
        <3>6. box'[n].skew # f /\ f \notin box'[n].rules
            <4>1. /\ plan[f].kind # "clock" => box'[n].skew # f
                  /\ plan[f].kind # "partition" => f \notin box'[n].rules
                BY <1>1, <3>2, <3>3 DEF LabelsInv
            <4> QED BY <1>1, <3>1, <3>2, <4>1 DEF Traced, Cleaned
        <3>7. n \notin blind' => f \notin box'[n].ballast
            <4>1. plan[f].kind # "fill" => f \notin box'[n].ballast
                BY <1>1, <3>3 DEF LabelsInv
            <4> QED BY <1>1, <3>1, <4>1 DEF Traced, Cleaned
        <3>8. prim'[f].slot[n] \notin box'[n].netem
            <4>1. CASE plan[f].kind = "shape"
                BY <1>1, <3>1, <3>2, <4>1 DEF Traced, Cleaned
            <4>2. CASE plan[f].kind # "shape"
                BY <3>2, <3>3, <4>2
            <4> QED BY <4>1, <4>2
        <3>9. plan[f].kind = "pause" => ~box'[n].paused
            BY <1>1, <3>1 DEF Traced, Cleaned
        <3> QED BY <1>1, <2>3, <3>4, <3>5, <3>6, <3>7, <3>8, <3>9 DEF Undone
    <2> QED BY <2>2, <2>3
<1> QED BY <1>5, <1>6, <1>7, <1>8 DEF UInv

\* A step that failed says so.
LEMMA FailureCounts ==
    ASSUME IInv, NEW n, n \in job.todo, job.op \in {"inject", "withdraw", "rollback"}
    PROVE  TargetFailed(n) => job'.err
BY AtTarget DEF TargetFailed

\* A primitive that marks, clears or fails keeps the baseline it has.
LEMMA BaseStays ==
    ASSUME IInv, NEW n, n \in job.todo, job.op \in {"inject", "withdraw", "rollback"},
           UNCHANGED prim \/ Marked(n) \/ Cleared(n)
    PROVE  prim'[job.fault].base[n] = prim[job.fault].base[n]
BY PrimMarks

-----------------------------------------------------------------------------
(* Each injector on one target.                                            *)

\* ProcPause.Inject.
LEMMA PauseTraces ==
    ASSUME IInv, NEW n, PauseTarget(n)
    PROVE  Traced(n)
<1>1. n \in job.todo /\ job.op = "inject" /\ plan[job.fault].kind = "pause"
    BY DEF PauseTarget, Turn, KindOf
<1>2. box'[n] \in {box[n], [box[n] EXCEPT !.paused = TRUE]}
    BY <1>1, AtTarget DEF PauseTarget, Becomes
<1>3. TracedBox(n)
    BY <1>1, <1>2, AtTarget DEF TracedBox, Box
<1>4. (job'.err \/ Marked(n)) /\ prim'[job.fault].base[n] = prim[job.fault].base[n]
    BY <1>1, FailureCounts, BaseStays DEF PauseTarget, Fails
<1>5. TracedPrim(n)
    BY <1>1, <1>4, PrimMarks DEF TracedPrim
<1> QED BY <1>1, <1>3, <1>5 DEF Traced, Cleaned

\* ProcPause.Withdraw.
LEMMA ResumeTraces ==
    ASSUME IInv, NEW n, ResumeTarget(n)
    PROVE  Traced(n)
<1>1. n \in job.todo /\ job.op \in {"withdraw", "rollback"} /\ plan[job.fault].kind = "pause"
    BY DEF ResumeTarget, Turn, KindOf, Undo
<1>2. box'[n] \in {box[n], [box[n] EXCEPT !.paused = FALSE]}
    BY <1>1, AtTarget DEF ResumeTarget, Uninspected, Becomes
<1>3. TracedBox(n)
    BY <1>1, <1>2, AtTarget DEF TracedBox, Box
<1>4. prim'[job.fault].base[n] = prim[job.fault].base[n]
    BY <1>1, BaseStays DEF ResumeTarget, Uninspected, Fails
<1>5. job'.err \/ n \notin prim[job.fault].applied \/ ~box'[n].paused
    BY <1>1, FailureCounts, AtTarget
       DEF ResumeTarget, Uninspected, LostSight, Fails, Skips, Becomes, Box
<1> QED BY <1>1, <1>3, <1>4, <1>5 DEF Traced, TracedPrim, Cleaned, Marking

\* ProcKill.Inject and ProcRestart.Inject.
LEMMA KillTraces ==
    ASSUME IInv, NEW n, KillTarget(n) \/ RestartTarget(n)
    PROVE  Traced(n)
<1>1. n \in job.todo /\ job.op = "inject" /\ plan[job.fault].kind \in {"kill", "restart"}
    BY DEF KillTarget, RestartTarget, Turn, KindOf
<1>2. box'[n] \in {box[n], Stopped(box[n]), [Stopped(box[n]) EXCEPT !.up = TRUE],
                   [box[n] EXCEPT !.paused = FALSE]}
    BY <1>1, AtTarget DEF KillTarget, RestartTarget, Becomes
<1>3. TracedBox(n)
    BY <1>1, <1>2, AtTarget DEF TracedBox, Box, Stopped
<1>4. prim' = prim
    BY DEF KillTarget, RestartTarget, Fails
<1> QED BY <1>1, <1>3, <1>4 DEF Traced, TracedPrim, Cleaned, Marking

\* ProcSlow.Inject.
LEMMA SlowTraces ==
    ASSUME IInv, NEW n, SlowTarget(n)
    PROVE  Traced(n)
<1>1. n \in job.todo /\ job.op = "inject" /\ plan[job.fault].kind = "slow"
    BY DEF SlowTarget, Turn, KindOf
<1>2. box[n].quota \in Fault \cup {None}
    BY <1>1, AtTarget DEF Box
<1>3. box'[n] \in {box[n], [box[n] EXCEPT !.quota = job.fault]}
    BY <1>1, AtTarget DEF SlowTarget, Becomes
<1>4. TracedBox(n)
    BY <1>1, <1>3, AtTarget DEF TracedBox, Box
<1>5. CASE UNCHANGED prim /\ job'.err
    BY <1>1, <1>4, <1>5 DEF Traced, TracedPrim, Cleaned
<1>6. CASE Observed(n, box[n].quota) /\ job'.err
    <2>1. prim'[job.fault].base[n] \in {prim[job.fault].base[n], box[n].quota}
        BY <1>1, <1>2, <1>6, PrimObserves DEF Baseline
    <2> QED BY <1>1, <1>4, <1>6, <2>1 DEF Traced, TracedPrim, Cleaned
<1>7. CASE prim' = [prim EXCEPT ![job.fault].base[n] = Baseline(n, box[n].quota),
                                ![job.fault].applied = @ \cup {n}]
    <2>1. /\ prim'[job.fault].base[n] \in {prim[job.fault].base[n], box[n].quota}
          /\ n \in prim'[job.fault].applied
        BY <1>1, <1>2, <1>7, AtTarget DEF Baseline, Memory
    <2> QED BY <1>1, <1>4, <2>1 DEF Traced, TracedPrim, Cleaned
<1> QED BY <1>1, <1>5, <1>6, <1>7, FailureCounts DEF SlowTarget, Fails

\* ProcSlow.Withdraw.
LEMMA UnthrottleTraces ==
    ASSUME IInv, NEW n, UnthrottleTarget(n)
    PROVE  Traced(n)
<1> DEFINE base == prim[job.fault].base[n]
<1>1. n \in job.todo /\ job.op \in {"withdraw", "rollback"} /\ plan[job.fault].kind = "slow"
    BY DEF UnthrottleTarget, Turn, KindOf, Undo
<1>2. box'[n] \in {box[n], [box[n] EXCEPT !.quota = base]}
    BY <1>1, AtTarget DEF UnthrottleTarget, Uninspected, Becomes
<1>3. TracedBox(n)
    BY <1>1, <1>2, AtTarget DEF TracedBox, Box
<1>4. prim'[job.fault].base[n] = base
    BY <1>1, BaseStays DEF UnthrottleTarget, Uninspected, Fails
<1>5. job'.err \/ n \notin prim[job.fault].applied \/ box'[n].quota \in {None, base}
    BY <1>1, FailureCounts, AtTarget
       DEF UnthrottleTarget, Uninspected, LostSight, Fails, Becomes, Box
<1> QED BY <1>1, <1>3, <1>4, <1>5 DEF Traced, TracedPrim, Cleaned, Marking

\* ClockShift.injectOne.
LEMMA SkewTraces ==
    ASSUME IInv, NEW n, SkewTarget(n)
    PROVE  Traced(n)
<1>1. n \in job.todo /\ job.op = "inject" /\ plan[job.fault].kind = "clock"
    BY DEF SkewTarget, Turn, KindOf
<1>2. box'[n] \in {box[n], Recreated(job.fault), Stopped(Recreated(job.fault))}
    BY <1>1, AtTarget DEF SkewTarget, Halfway, Becomes
<1>3. TracedBox(n)
    BY <1>1, <1>2, AtTarget DEF TracedBox, Box, Stopped, Recreated, BootBox
<1>4. (job'.err \/ Marked(n)) /\ prim'[job.fault].base[n] = prim[job.fault].base[n]
    BY <1>1, FailureCounts, BaseStays DEF SkewTarget, Fails
<1>5. TracedPrim(n)
    BY <1>1, <1>4, PrimMarks DEF TracedPrim
<1> QED BY <1>1, <1>3, <1>5 DEF Traced, Cleaned

\* ClockShift.Withdraw.
LEMMA UnskewTraces ==
    ASSUME IInv, NEW n, UnskewTarget(n)
    PROVE  Traced(n)
<1>1. n \in job.todo /\ job.op \in {"withdraw", "rollback"} /\ plan[job.fault].kind = "clock"
    BY DEF UnskewTarget, Turn, KindOf, Undo
<1>2. box'[n] \in {box[n], Recreated(None), Stopped(Recreated(None))}
    BY <1>1, AtTarget DEF UnskewTarget, Uninspected, Halfway, Becomes
<1>3. TracedBox(n)
    BY <1>1, <1>2, AtTarget DEF TracedBox, Box, Stopped, Recreated, BootBox
<1>4. prim'[job.fault].base[n] = prim[job.fault].base[n]
    BY <1>1, BaseStays DEF UnskewTarget, Uninspected, Fails
<1>5. job'.err \/ n \notin prim[job.fault].applied \/ box'[n].skew = None
    BY <1>1, FailureCounts, AtTarget
       DEF UnskewTarget, Uninspected, LostSight, Fails, Becomes, Recreated, BootBox
<1> QED BY <1>1, <1>3, <1>4, <1>5 DEF Traced, TracedPrim, Cleaned, Marking

\* IOFill.injectOne.
LEMMA FillTraces ==
    ASSUME IInv, NEW n, FillTarget(n)
    PROVE  Traced(n)
<1>1. n \in job.todo /\ job.op = "inject" /\ plan[job.fault].kind = "fill"
    BY DEF FillTarget, Turn, KindOf
<1>2. box'[n] \in {box[n], [box[n] EXCEPT !.ballast = @ \cup {job.fault}]}
    BY <1>1, AtTarget DEF FillTarget, Becomes
<1>3. TracedBox(n)
    BY <1>1, <1>2, AtTarget DEF TracedBox, Box
<1>4. prim'[job.fault].base[n] = prim[job.fault].base[n]
    BY <1>1, BaseStays DEF FillTarget, Fails
<1> QED BY <1>1, <1>3, <1>4 DEF Traced, TracedPrim, Cleaned, Marking

\* IOFill.Withdraw.
LEMMA EmptyTraces ==
    ASSUME IInv, NEW n, EmptyTarget(n)
    PROVE  Traced(n)
<1>1. n \in job.todo /\ job.op \in {"withdraw", "rollback"} /\ plan[job.fault].kind = "fill"
    BY DEF EmptyTarget, Turn, KindOf, Undo
<1>2. box'[n] \in {box[n], [box[n] EXCEPT !.ballast = @ \ {job.fault}]}
    BY <1>1, AtTarget DEF EmptyTarget, TakenForGone, Emptied, Becomes
<1>3. TracedBox(n)
    BY <1>1, <1>2, AtTarget DEF TracedBox, Box
<1>4. prim'[job.fault].base[n] = prim[job.fault].base[n]
    BY <1>1, BaseStays DEF EmptyTarget, TakenForGone, Fails
<1>5. job'.err \/ n \in blind' \/ job.fault \notin box'[n].ballast
    BY <1>1, FailureCounts, AtTarget
       DEF EmptyTarget, TakenForGone, Emptied, Fails, Becomes, Sound, Box
<1> QED BY <1>1, <1>3, <1>4, <1>5 DEF Traced, TracedPrim, Cleaned, Marking

\* MemPressure.Inject.
LEMMA PressTraces ==
    ASSUME IInv, NEW n, PressTarget(n)
    PROVE  Traced(n)
<1>1. n \in job.todo /\ job.op = "inject" /\ plan[job.fault].kind = "mem"
    BY DEF PressTarget, Turn, KindOf
<1>2. box[n].mem \in Fault \cup {None}
    BY <1>1, AtTarget DEF Box
<1>3. box'[n] \in {box[n], [box[n] EXCEPT !.mem = job.fault]}
    BY <1>1, AtTarget DEF PressTarget, Becomes
<1>4. TracedBox(n)
    BY <1>1, <1>3, AtTarget DEF TracedBox, Box
<1>5. CASE UNCHANGED prim /\ job'.err
    BY <1>1, <1>4, <1>5 DEF Traced, TracedPrim, Cleaned
<1>6. CASE Observed(n, box[n].mem) /\ job'.err
    <2>1. prim'[job.fault].base[n] \in {prim[job.fault].base[n], box[n].mem}
        BY <1>1, <1>2, <1>6, PrimObserves DEF Baseline
    <2> QED BY <1>1, <1>4, <1>6, <2>1 DEF Traced, TracedPrim, Cleaned
<1>7. CASE prim' = [prim EXCEPT ![job.fault].base[n] = Baseline(n, box[n].mem),
                                ![job.fault].applied = @ \cup {n}]
    <2>1. /\ prim'[job.fault].base[n] \in {prim[job.fault].base[n], box[n].mem}
          /\ n \in prim'[job.fault].applied
        BY <1>1, <1>2, <1>7, AtTarget DEF Baseline, Memory
    <2> QED BY <1>1, <1>4, <2>1 DEF Traced, TracedPrim, Cleaned
<1> QED BY <1>1, <1>5, <1>6, <1>7, FailureCounts DEF PressTarget, Fails

\* MemPressure.Withdraw.
LEMMA RelieveTraces ==
    ASSUME IInv, NEW n, RelieveTarget(n)
    PROVE  Traced(n)
<1> DEFINE base == prim[job.fault].base[n]
<1>1. n \in job.todo /\ job.op \in {"withdraw", "rollback"} /\ plan[job.fault].kind = "mem"
    BY DEF RelieveTarget, Turn, KindOf, Undo
<1>2. box'[n] \in {box[n], [box[n] EXCEPT !.mem = base]}
    BY <1>1, AtTarget DEF RelieveTarget, Uninspected, Becomes
<1>3. TracedBox(n)
    BY <1>1, <1>2, AtTarget DEF TracedBox, Box
<1>4. prim'[job.fault].base[n] = base
    BY <1>1, BaseStays DEF RelieveTarget, Uninspected, Fails
<1>5. job'.err \/ n \notin prim[job.fault].applied \/ box'[n].mem \in {None, base}
    BY <1>1, FailureCounts, AtTarget
       DEF RelieveTarget, Uninspected, LostSight, Fails, Becomes, Box
<1> QED BY <1>1, <1>3, <1>4, <1>5 DEF Traced, TracedPrim, Cleaned, Marking

\* FDExhaust.Inject.
LEMMA ExhaustTraces ==
    ASSUME IInv, NEW n, ExhaustTarget(n)
    PROVE  Traced(n)
<1>1. n \in job.todo /\ job.op = "inject" /\ plan[job.fault].kind = "fd"
    BY DEF ExhaustTarget, Turn, KindOf
<1>2. box[n].fd \in Fault \cup {None}
    BY <1>1, AtTarget DEF Box
<1>3. box'[n] \in {box[n], [box[n] EXCEPT !.fd = job.fault]}
    BY <1>1, AtTarget DEF ExhaustTarget, Becomes
<1>4. TracedBox(n)
    BY <1>1, <1>3, AtTarget DEF TracedBox, Box
<1>5. CASE UNCHANGED prim /\ job'.err
    BY <1>1, <1>4, <1>5 DEF Traced, TracedPrim, Cleaned
<1>6. CASE Observed(n, box[n].fd) /\ job'.err
    <2>1. prim'[job.fault].base[n] \in {prim[job.fault].base[n], box[n].fd}
        BY <1>1, <1>2, <1>6, PrimObserves DEF Baseline
    <2> QED BY <1>1, <1>4, <1>6, <2>1 DEF Traced, TracedPrim, Cleaned
<1>7. CASE prim' = [prim EXCEPT ![job.fault].base[n] = Baseline(n, box[n].fd),
                                ![job.fault].applied = @ \cup {n}]
    <2>1. /\ prim'[job.fault].base[n] \in {prim[job.fault].base[n], box[n].fd}
          /\ n \in prim'[job.fault].applied
        BY <1>1, <1>2, <1>7, AtTarget DEF Baseline, Memory
    <2> QED BY <1>1, <1>4, <2>1 DEF Traced, TracedPrim, Cleaned
<1> QED BY <1>1, <1>5, <1>6, <1>7, FailureCounts DEF ExhaustTarget, Fails

\* FDExhaust.Withdraw.
LEMMA UnlimitTraces ==
    ASSUME IInv, NEW n, UnlimitTarget(n)
    PROVE  Traced(n)
<1> DEFINE base == prim[job.fault].base[n]
<1>1. n \in job.todo /\ job.op \in {"withdraw", "rollback"} /\ plan[job.fault].kind = "fd"
    BY DEF UnlimitTarget, Turn, KindOf, Undo
<1>2. box'[n] \in {box[n], [box[n] EXCEPT !.fd = base]}
    BY <1>1, AtTarget DEF UnlimitTarget, TakenForGone, Uninspected, Becomes
<1>3. TracedBox(n)
    BY <1>1, <1>2, AtTarget DEF TracedBox, Box
<1>4. prim'[job.fault].base[n] = base
    BY <1>1, BaseStays DEF UnlimitTarget, TakenForGone, Uninspected, Fails
<1>5. \/ job'.err \/ n \notin prim[job.fault].applied
      \/ n \in blind' \/ box'[n].fd \in {None, base}
    BY <1>1, FailureCounts, AtTarget
       DEF UnlimitTarget, TakenForGone, Uninspected, LostSight, Fails, Becomes, Sound, Box
<1> QED BY <1>1, <1>3, <1>4, <1>5 DEF Traced, TracedPrim, Cleaned, Marking

\* NetFault.Inject of a partition on one node.
LEMMA CutTraces ==
    ASSUME IInv, NEW n, CutNode(n)
    PROVE  Traced(n)
<1>1. n \in job.todo /\ job.op = "inject" /\ plan[job.fault].kind = "partition"
    BY DEF CutNode, Anywhere, KindOf
<1>2. box'[n] \in {box[n], [box[n] EXCEPT !.rules = @ \cup {job.fault}]}
    BY <1>1, AtTarget DEF CutNode, Becomes
<1>3. TracedBox(n)
    BY <1>1, <1>2, AtTarget DEF TracedBox, Box
<1>4. prim' = prim
    BY DEF CutNode, NetFails, NetDone, Fails
<1> QED BY <1>1, <1>3, <1>4 DEF Traced, TracedPrim, Cleaned, Marking

\* NetFault.Inject of shaping on one node.
LEMMA ShapeTraces ==
    ASSUME IInv, NEW n, ShapeNode(n)
    PROVE  Traced(n)
<1> DEFINE rooted == [box[n] EXCEPT !.root = TRUE]
           shaped == [rooted EXCEPT !.netem = @ \cup {Mine(n)}]
<1>1. n \in job.todo /\ job.op = "inject" /\ plan[job.fault].kind = "shape"
    BY DEF ShapeNode, Anywhere, KindOf
<1>2. box'[n] \in {box[n], rooted, shaped}
    BY <1>1, AtTarget DEF ShapeNode, Becomes
<1>3. TracedBox(n)
    BY <1>1, <1>2, AtTarget DEF TracedBox, Box
<1>4. prim' = prim
    BY DEF ShapeNode, NetFails, NetDone, Fails
<1> QED BY <1>1, <1>3, <1>4 DEF Traced, TracedPrim, Cleaned, Marking

\* withdrawNode.
LEMMA SweepTraces ==
    ASSUME IInv, NEW n, SweepNode(n)
    PROVE  Traced(n)
<1>1. /\ n \in job.todo /\ job.op \in {"withdraw", "rollback"}
      /\ plan[job.fault].kind \in {"partition", "shape"}
    BY DEF SweepNode, Anywhere, KindOf, Undo, NetKind
<1>2. LET a == box[n]
          b == Swept(n)
      IN  /\ b.quota = a.quota /\ b.mem = a.mem /\ b.fd = a.fd /\ b.skew = a.skew
          /\ b.ballast = a.ballast /\ b.rules = a.rules \ {job.fault}
          /\ Mine(n) \notin b.netem
    BY <1>1, AtTarget DEF Swept, Box
<1>3. \/ box'[n] = box[n] /\ (~Joins(n) \/ job'.err)
      \/ box'[n] = [box[n] EXCEPT !.rules = Swept(n).rules] /\ job'.err
      \/ box'[n] = Swept(n)
    BY <1>1, AtTarget, FailureCounts DEF SweepNode, Becomes
<1>4. TracedBox(n)
    <2>1. /\ box'[n].quota = box[n].quota /\ box'[n].mem = box[n].mem
          /\ box'[n].fd = box[n].fd /\ box'[n].skew = box[n].skew
          /\ box'[n].ballast = box[n].ballast /\ box'[n].rules \subseteq box[n].rules
        <3>1. CASE box'[n] = box[n]
            BY <3>1
        <3>2. CASE box'[n] = [box[n] EXCEPT !.rules = Swept(n).rules]
            BY <1>1, <1>2, <3>2, AtTarget DEF Box
        <3>3. CASE box'[n] = Swept(n)
            BY <1>2, <3>3
        <3> QED BY <1>3, <3>1, <3>2, <3>3
    <2> QED BY <2>1 DEF TracedBox
<1>5. prim' = prim
    BY DEF SweepNode
<1>6. \/ job'.err
      \/ job.fault \notin box'[n].rules /\ Mine(n) \notin box'[n].netem
    <2>1. ~Joins(n) => box[n].rules = {} /\ box[n].netem = {}
        BY <1>1, AtTarget DEF Joins, Sound
    <2> QED BY <1>2, <1>3, <2>1
<1> QED BY <1>1, <1>4, <1>5, <1>6 DEF Traced, TracedPrim, Cleaned, Marking, Mine

-----------------------------------------------------------------------------
(* The calls, again.                                                       *)

\* A step that leaves the containers no more of any fault than they had, and every
\* primitive its memory, keeps the labels.
LEMMA LabelsKeep ==
    ASSUME IInv, UInv, UNCHANGED plan, StateInv',
           \A n \in Node : Less(box'[n], box[n]),
           \A f \in Fault : \/ prim'[f] = prim[f]
                            \/ prim'[f] = Fresh
                            \/ prim'[f].base = prim[f].base /\ plan[f].kind = "shape",
           \A f \in Fault, n \in Node : Touched(f, n) => Touched(f, n)'
    PROVE  LabelsInv' /\ BasesInv'
<1>1. \A n \in Node : box[n] \in Box /\ box'[n] \in Box
    BY DEF IInv, StateInv
<1>2. ASSUME NEW n \in Node, NEW v \in Fault
      PROVE  /\ box'[n].quota = v => plan[v].kind = "slow" /\ Touched(v, n)'
             /\ box'[n].mem = v => plan[v].kind = "mem" /\ Touched(v, n)'
             /\ box'[n].fd = v => plan[v].kind = "fd" /\ Touched(v, n)'
    <2>1. None \notin Fault
        BY FamiliesAssumption
    <2>2. /\ box'[n].quota \in {box[n].quota, None} /\ box'[n].mem \in {box[n].mem, None}
          /\ box'[n].fd \in {box[n].fd, None}
        BY DEF Less
    <2>3. box'[n].quota = v => Of("slow", v, n)
        BY <2>1, <2>2 DEF UInv, LabelsInv
    <2>4. box'[n].mem = v => Of("mem", v, n)
        BY <2>1, <2>2 DEF UInv, LabelsInv
    <2>5. box'[n].fd = v => Of("fd", v, n)
        BY <2>1, <2>2 DEF UInv, LabelsInv
    <2> QED BY <2>3, <2>4, <2>5 DEF Of
<1>3. \A n \in Node : /\ box'[n].skew # None => plan[box'[n].skew].kind = "clock"
                      /\ \A f \in box'[n].rules : plan[f].kind = "partition"
                      /\ \A f \in box'[n].ballast : plan[f].kind = "fill"
    BY DEF UInv, LabelsInv, Less
<1>4. LabelsInv'
    BY <1>1, <1>2, <1>3 DEF LabelsInv, Of, Touched, Box
<1>5. ASSUME NEW f \in Fault, NEW n \in Node, NEW v \in Fault, prim'[f].base[n] = v
      PROVE  v # f /\ plan[v].kind = plan[f].kind /\ Touched(v, n)'
    <2>1. prim'[f] # Fresh
        BY <1>5, FreshTyped, FamiliesAssumption
    <2>2. prim[f].base[n] = v
        BY <1>5, <2>1
    <2> QED BY <2>2 DEF UInv, BasesInv, Of
<1>6. ASSUME NEW f \in Fault, NEW n \in Node, plan[f].kind # "shape"
      PROVE  prim'[f].slot[n] = 0
    <2>1. Fresh.slot[n] = 0
        BY DEF Fresh
    <2> QED BY <1>6, <2>1 DEF UInv, BasesInv
<1> QED BY <1>4, <1>5, <1>6 DEF BasesInv, Of, Touched

\* A container that stops carries no more of a fault than it did.
LEMMA CrashTraces ==
    ASSUME IInv, UInv, IInv', NEW c \in Node, Crash(c)
    PROVE  UInv'
<1>1. UNCHANGED <<prim, plan, live, active, injected, job, stage, sweep, errs, residue, blind>>
    BY DEF Crash, schedule
<1>2. box' = [box EXCEPT ![c] = Stopped(box[c])] /\ box \in [Node -> Box]
    BY DEF Crash, Becomes, IInv, StateInv
<1>3. ASSUME NEW n \in Node PROVE Less(box'[n], box[n])
    <2>1. box[n] \in Box /\ (box'[n] = box[n] \/ box'[n] = Stopped(box[n]))
        BY <1>2
    <2> QED BY <2>1 DEF Less, Stopped, Box
<1>4. \A f \in Fault, n \in Node : Touched(f, n) => Touched(f, n)'
    BY <1>1 DEF Touched
<1>5. LabelsInv' /\ BasesInv'
    BY <1>1, <1>3, <1>4, LabelsKeep DEF IInv
<1>6. MarksInv'
    BY <1>1 DEF UInv, MarksInv
<1>7. ASSUME NEW f \in Fault, NEW n \in Node, Undone(f, n) PROVE Undone(f, n)'
    <2>1. None \notin Fault
        BY FamiliesAssumption
    <2> QED BY <1>1, <1>3, <1>7, <2>1 DEF Undone, Less
<1>8. UndoneInv'
    <2> SUFFICES ASSUME job.op = "withdraw", job.fault \in live, ~job.err,
                        NEW n \in plan[job.fault].nodes \ job.todo
                 PROVE  Undone(job.fault, n)'
        BY <1>1 DEF UndoneInv
    <2>1. job.fault \in Fault /\ n \in Node
        BY PlanTyped DEF IInv, CallsInv
    <2>2. Undone(job.fault, n)
        BY DEF UInv, UndoneInv
    <2>3. \A f \in Fault : f = job.fault => Undone(f, n)'
        BY <1>7, <2>1, <2>2
    <2> QED BY <1>1, <2>1, <2>3 DEF Undone
<1> QED BY <1>5, <1>6, <1>8 DEF UInv

\* A call of Inject begins with a primitive that has marked nothing.
LEMMA InjectTraces ==
    ASSUME IInv, UInv, IInv', NEW f \in Fault, Inject(f)
    PROVE  UInv'
<1>1. /\ job = NoJob /\ f \notin injected /\ injected' = injected \cup {f}
      /\ prim' = [prim EXCEPT ![f] = Fresh]
      /\ UNCHANGED <<box, plan, live, active, stage, sweep, errs, residue, blind>>
      /\ job' = Job(FirstOp(f), f, plan[f].nodes, FALSE)
    BY DEF Inject
<1>2. /\ job'.op \in {"plan", "inject"} /\ job'.fault = f /\ job'.todo = plan[f].nodes
      /\ job.op = "none" /\ f \notin live
      /\ job'.op = "plan" => plan[f].kind \in NetKind
    BY <1>1 DEF Job, FirstOp, NoJob, IInv, CallsInv
<1>3. \A g \in Fault : IF g = f THEN prim'[g] = Fresh ELSE prim'[g] = prim[g]
    BY <1>1 DEF IInv, StateInv
<1>4. \A g \in Fault, n \in Node : Touched(g, n) => Touched(g, n)'
    BY <1>1, <1>2 DEF Touched
<1>5. LabelsInv' /\ BasesInv'
    BY <1>1, <1>3, <1>4, LabelsKeep, LessSame DEF IInv
<1>6. MarksInv'
    BY <1>1, <1>2, <1>3 DEF UInv, MarksInv
<1>7. UndoneInv'
    BY <1>2 DEF UndoneInv
<1> QED BY <1>5, <1>6, <1>7 DEF UInv

\* A call of Inject ends with every node of the fault marked.
LEMMA InjectedTraces ==
    ASSUME IInv, UInv, IInv', Injected
    PROVE  UInv'
<1>1. /\ job.op = "inject" /\ job.todo = {} /\ ~job.err /\ job' = NoJob
      /\ live' = live \cup {job.fault}
      /\ UNCHANGED <<box, prim, plan, injected, blind>>
    BY DEF Injected
<1>2. job'.op = "none"
    BY <1>1 DEF NoJob
<1>3. \A g \in Fault, n \in Node : Touched(g, n) => Touched(g, n)'
    BY <1>1, <1>2 DEF Touched
<1>4. LabelsInv' /\ BasesInv'
    BY <1>1, <1>3, LabelsKeep, LessSame DEF IInv
<1>5. MarksInv'
    BY <1>1, <1>2 DEF UInv, MarksInv
<1>6. UndoneInv'
    BY <1>2 DEF UndoneInv
<1> QED BY <1>4, <1>5, <1>6 DEF UInv

\* A call of Withdraw begins, with the primitive that injected or a new one.
LEMMA WithdrawTraces ==
    ASSUME IInv, UInv, IInv', NEW f \in Fault, Withdraw(f)
    PROVE  UInv'
<1>1. /\ job = NoJob
      /\ prim' = IF f \in live THEN prim ELSE [prim EXCEPT ![f] = Fresh]
      /\ job' = Job("withdraw", f, plan[f].nodes, FALSE)
      /\ UNCHANGED <<box, plan, live, injected, blind>>
    BY DEF Withdraw
<1>2. /\ job'.op = "withdraw" /\ job'.fault = f /\ job'.todo = plan[f].nodes /\ job.op = "none"
    BY <1>1 DEF Job, NoJob
<1>3. \A g \in Fault : prim'[g] = prim[g] \/ (g = f /\ f \notin live /\ prim'[g] = Fresh)
    BY <1>1 DEF IInv, StateInv
<1>4. \A g \in Fault, n \in Node : Touched(g, n) => Touched(g, n)'
    BY <1>1, <1>2 DEF Touched
<1>5. LabelsInv' /\ BasesInv'
    BY <1>1, <1>3, <1>4, LabelsKeep, LessSame DEF IInv
<1>6. MarksInv'
    BY <1>1, <1>2, <1>3 DEF UInv, MarksInv
<1>7. UndoneInv'
    BY <1>1, <1>2 DEF UndoneInv
<1> QED BY <1>5, <1>6, <1>7 DEF UInv

\* The end of a withdrawal or of a rollback, and HEAL and its checks: no injector
\* has anything left to do.
LEMMA EndTraces ==
    ASSUME IInv, UInv, IInv',
           Withdrawn \/ RolledBack \/ Heal \/ VerifyClean \/ NextFamily \/ Reported
    PROVE  UInv'
<1>1. /\ UNCHANGED <<box, prim, plan, injected, blind>>
      /\ job.op \in {"none", "withdraw", "rollback", "verify"}
      /\ job.op = "withdraw" => live' = live \ {job.fault}
      /\ job.op # "withdraw" => live' = live
      /\ job' = NoJob \/ \E i \in Int : job' = Job("verify", i, Node, FALSE)
    <2>1. CASE Withdrawn
        BY <2>1 DEF Withdrawn, StillLive
    <2>2. CASE RolledBack
        BY <2>2 DEF RolledBack
    <2>3. CASE Heal
        BY <2>3 DEF Heal, NoJob
    <2>4. CASE VerifyClean
        <3>1. 1 \in Int /\ job = NoJob /\ job' = Job("verify", 1, Node, FALSE)
              /\ UNCHANGED <<box, prim, plan, live, injected, blind>>
            BY <2>4 DEF VerifyClean
        <3> QED BY <3>1 DEF NoJob
    <2>5. CASE NextFamily
        <3>1. job.op = "verify"
            BY <2>5 DEF NextFamily
        <3>2. job.fault + 1 \in Int
            BY <3>1 DEF IInv, JobInv, NoJob, Families
        <3> QED BY <2>5, <3>1, <3>2 DEF NextFamily, schedule
    <2>6. CASE Reported
        BY <2>6 DEF Reported
    <2> QED BY <2>1, <2>2, <2>3, <2>4, <2>5, <2>6
<1>2. job'.op \in {"none", "verify"}
    BY <1>1 DEF NoJob, Job
<1>3. \A g \in Fault, n \in Node : Touched(g, n) => Touched(g, n)'
    BY <1>1, <1>2 DEF Touched
<1>4. LabelsInv' /\ BasesInv'
    BY <1>1, <1>3, LabelsKeep, LessSame DEF IInv
<1>5. MarksInv'
    BY <1>1, <1>2 DEF UInv, MarksInv
<1>6. UndoneInv'
    BY <1>2 DEF UndoneInv
<1> QED BY <1>4, <1>5, <1>6 DEF UInv

\* A rollback begins, or one of a kind that has nothing to undo ends.
LEMMA RollBackTraces ==
    ASSUME IInv, UInv, IInv', RollBack \/ NothingToUndo
    PROVE  UInv'
<1>1. CASE RollBack
    <2>1. /\ job.op \in {"plan", "inject"}
          /\ job' = Job("rollback", job.fault, plan[job.fault].nodes, FALSE)
          /\ UNCHANGED <<box, prim, plan, live, injected, blind>>
        BY <1>1 DEF RollBack, schedule
    <2>2. job'.op = "rollback" /\ job.fault \notin live
        BY <2>1 DEF Job, IInv, JobInv, CallsInv
    <2>3. \A g \in Fault, n \in Node : Touched(g, n) => Touched(g, n)'
        BY <2>1, <2>2 DEF Touched
    <2>4. LabelsInv' /\ BasesInv'
        BY <2>1, <2>3, LabelsKeep, LessSame DEF IInv
    <2>5. MarksInv' /\ UndoneInv'
        BY <2>1, <2>2 DEF UInv, MarksInv, UndoneInv
    <2> QED BY <2>4, <2>5 DEF UInv
<1>2. CASE NothingToUndo
    <2>1. /\ job.op \in {"withdraw", "rollback"} /\ plan[job.fault].kind \in {"kill", "restart"}
          /\ job' = [job EXCEPT !.todo = {}]
          /\ UNCHANGED <<box, prim, plan, live, injected, blind>>
        BY <1>2 DEF NothingToUndo, Undo, KindOf, schedule
    <2>2. job \in [op : {"withdraw", "rollback"}, fault : Fault, todo : SUBSET Node,
                   err : BOOLEAN]
        BY <2>1 DEF IInv, JobInv, NoJob
    <2>3. job'.op = job.op /\ job'.fault = job.fault /\ job'.todo = {}
        BY <2>1, <2>2
    <2>4. \A g \in Fault, n \in Node : Touched(g, n) => Touched(g, n)'
        BY <2>1, <2>3 DEF Touched
    <2>5. LabelsInv' /\ BasesInv'
        BY <2>1, <2>4, LabelsKeep, LessSame DEF IInv
    <2>6. MarksInv'
        BY <2>1, <2>3 DEF UInv, MarksInv, Marking
    <2>7. UndoneInv'
        <3> DEFINE f == job.fault
        <3> SUFFICES ASSUME NEW n \in plan[f].nodes PROVE Undone(f, n)'
            BY <2>1, <2>3 DEF UndoneInv
        <3>1. f \in Fault /\ n \in Node /\ box[n] \in Box
            BY <2>2, PlanTyped DEF IInv, StateInv
        <3>2. /\ None \notin Fault /\ prim[f].slot[n] = 0
            BY <2>1, <3>1, FamiliesAssumption DEF UInv, BasesInv
        <3>3. /\ box[n].quota # f /\ box[n].mem # f /\ box[n].fd # f /\ box[n].skew # f
              /\ f \notin box[n].rules /\ f \notin box[n].ballast
            BY <2>1, <3>1, <3>2 DEF UInv, LabelsInv, Of
        <3>4. prim[f].slot[n] \notin box[n].netem
            BY <3>1, <3>2 DEF Box
        <3> QED BY <2>1, <2>3, <3>3, <3>4 DEF Undone
    <2> QED BY <2>5, <2>6, <2>7 DEF UInv
<1> QED BY <1>1, <1>2

\* VerifyClean touches no container and no primitive.
LEMMA VerifyTraces ==
    ASSUME IInv, UInv, IInv', NEW n \in Node,
           VerifyProc(n) \/ VerifyNet(n) \/ VerifyClock(n) \/ VerifyIO(n)
    PROVE  UInv'
<1>1. job.op = "verify" /\ TargetDone(n) /\ UNCHANGED <<box, prim, plan, live, injected, blind>>
    BY DEF VerifyProc, VerifyNet, VerifyClock, VerifyIO, Verifies, Turn, Reports
<1>2. job \in [op : {"verify"}, fault : 1..Len(Families), todo : SUBSET Node, err : BOOLEAN]
    BY <1>1 DEF IInv, JobInv, NoJob
<1>3. job'.op = "verify"
    BY <1>1, <1>2 DEF TargetDone
<1>4. \A g \in Fault, m \in Node : Touched(g, m) => Touched(g, m)'
    BY <1>1, <1>3 DEF Touched
<1>5. LabelsInv' /\ BasesInv'
    BY <1>1, <1>4, LabelsKeep, LessSame DEF IInv
<1>6. MarksInv' /\ UndoneInv'
    BY <1>1, <1>3 DEF UInv, MarksInv, UndoneInv
<1> QED BY <1>5, <1>6 DEF UInv

\* A network fault's plan changes no container.
LEMMA PlanTraces ==
    ASSUME IInv, UInv, IInv', Plan
    PROVE  UInv'
<1>1. job.op = "plan" /\ UNCHANGED <<box, plan, live, injected, blind>>
    BY DEF Plan, schedule
<1>2. /\ job \in [op : {"plan"}, fault : Fault, todo : SUBSET Node, err : BOOLEAN]
      /\ job.fault \notin live
    BY <1>1 DEF IInv, JobInv, NoJob, CallsInv
<1>3. CASE job' = [job EXCEPT !.todo = {}, !.err = TRUE] /\ UNCHANGED prim
    <2>1. job'.op = "plan" /\ job'.fault = job.fault /\ job'.todo = {}
        BY <1>2, <1>3
    <2>2. \A g \in Fault, n \in Node : Touched(g, n) => Touched(g, n)'
        BY <1>1, <2>1 DEF Touched
    <2>3. LabelsInv' /\ BasesInv'
        BY <1>1, <1>3, <2>2, LabelsKeep, LessSame DEF IInv
    <2>4. MarksInv' /\ UndoneInv'
        BY <1>1, <1>3, <2>1 DEF UInv, MarksInv, UndoneInv
    <2> QED BY <2>3, <2>4 DEF UInv
<1>4. CASE job' = [job EXCEPT !.op = "inject"] /\ (Shaping => SlotsFree)
           /\ IF Shaping THEN Claim ELSE UNCHANGED <<prim, claims>>
    <2> DEFINE f == job.fault
    <2>1. job'.op = "inject" /\ job'.fault = f /\ job'.todo = job.todo
        BY <1>2, <1>4
    <2>2. /\ \A g \in Fault : g # f => prim'[g] = prim[g]
          /\ prim'[f].base = prim[f].base /\ prim'[f].applied = prim[f].applied
          /\ plan[f].kind # "shape" => prim' = prim
        BY <1>4, <1>2, ClaimClaims DEF Shaping, KindOf, IInv, StateInv
    <2>3. \A g \in Fault, n \in Node : Touched(g, n) => Touched(g, n)'
        BY <1>1, <2>1 DEF Touched
    <2>4. LabelsInv' /\ BasesInv'
        BY <1>1, <1>2, <2>2, <2>3, LabelsKeep, LessSame DEF IInv
    <2>5. plan[f].kind \notin Marking
        BY <1>1 DEF UInv, MarksInv, Marking, NetKind
    <2>6. MarksInv'
        BY <1>1, <1>2, <2>1, <2>2, <2>5 DEF UInv, MarksInv
    <2>7. UndoneInv'
        BY <2>1 DEF UndoneInv
    <2> QED BY <2>4, <2>6, <2>7 DEF UInv
<1> QED BY <1>3, <1>4 DEF Plan

\* Containers boot without a trace of any fault.
LEMMA InitUInv == Init => UInv
<1> SUFFICES ASSUME Init PROVE UInv
    OBVIOUS
<1>1. job.op = "none" /\ live = {}
    BY DEF Init, NoJob
<1>2. \A n \in Node : box[n] = BootBox
    BY DEF Init
<1>3. LabelsInv
    BY <1>2 DEF LabelsInv, BootBox
<1>4. BasesInv
    <2>1. ASSUME NEW n \in Node PROVE Fresh.base[n] \notin Fault /\ Fresh.slot[n] = 0
        BY FreshTyped, FamiliesAssumption DEF Fresh
    <2> QED BY <2>1 DEF Init, BasesInv
<1>5. MarksInv /\ UndoneInv
    BY <1>1 DEF MarksInv, UndoneInv
<1> QED BY <1>3, <1>4, <1>5 DEF UInv

\* Every step of every family keeps the traces in order.
LEMMA NextUInv == IInv /\ UInv /\ [Next]_vars => UInv'
<1> SUFFICES ASSUME IInv, UInv, [Next]_vars PROVE UInv'
    OBVIOUS
<1>0. IInv'
    BY NextIInv
<1>1. CASE UNCHANGED vars
    <2>1. UNCHANGED <<box, prim, plan, live, active, injected, job, blind>>
        BY <1>1 DEF vars
    <2> QED BY <2>1 DEF UInv, LabelsInv, BasesInv, MarksInv, UndoneInv, Undone, Of, Touched
<1>2. CASE Call /\ UNCHANGED claims
    BY <1>0, <1>2, CrashTraces, InjectTraces, WithdrawTraces, InjectedTraces, RollBackTraces,
       EndTraces DEF Call
<1>3. CASE ProcStep /\ UNCHANGED claims
    BY <1>0, <1>3, TargetTraces, PauseSettles, PauseTraces, ResumeSettles, ResumeTraces,
       KillSettles, KillTraces, SlowSettles, SlowTraces, UnthrottleSettles, UnthrottleTraces,
       RollBackTraces, VerifyTraces DEF ProcStep
<1>4. CASE HostStep /\ UNCHANGED claims
    BY <1>0, <1>4, TargetTraces, SkewSettles, SkewTraces, UnskewSettles, UnskewTraces,
       FillSettles, FillTraces, EmptySettles, EmptyTraces, PressSettles, PressTraces,
       RelieveSettles, RelieveTraces, ExhaustSettles, ExhaustTraces, UnlimitSettles,
       UnlimitTraces, VerifyTraces DEF HostStep
<1>5. CASE NetStep
    BY <1>0, <1>5, TargetTraces, PlanTraces, CutSettles, CutTraces, ShapeSettles, ShapeTraces,
       SweepSettles, SweepTraces, VerifyTraces DEF NetStep
<1> QED BY <1>1, <1>2, <1>3, <1>4, <1>5 DEF Next

\* A withdrawal by the primitive that injected, returning no error, leaves none of
\* its targets with what it did, whatever other faults of any family, crashes and
\* recreated containers came in between (Withdraw of the primitives of
\* internal/perturber/faults).
THEOREM WithdrawalsUndo == Spec => WithdrawnMeansUndone
<1>1. UInv /\ [Next]_vars =>
        [Withdrawn /\ ~job.err /\ job.fault \in live =>
            \A n \in plan[job.fault].nodes :
                /\ KindOf({"pause"}) => ~box[n].paused
                /\ box[n].quota # job.fault /\ box[n].mem # job.fault
                /\ box[n].skew # job.fault /\ job.fault \notin box[n].rules
                /\ prim[job.fault].slot[n] \notin box[n].netem
                /\ n \notin blind =>
                      box[n].fd # job.fault /\ job.fault \notin box[n].ballast]_vars
    <2> SUFFICES ASSUME UInv, Withdrawn, ~job.err, job.fault \in live,
                        NEW n \in plan[job.fault].nodes
                 PROVE  /\ KindOf({"pause"}) => ~box[n].paused
                        /\ box[n].quota # job.fault /\ box[n].mem # job.fault
                        /\ box[n].skew # job.fault /\ job.fault \notin box[n].rules
                        /\ prim[job.fault].slot[n] \notin box[n].netem
                        /\ n \notin blind =>
                              box[n].fd # job.fault /\ job.fault \notin box[n].ballast
        OBVIOUS
    <2>1. Undone(job.fault, n)
        BY DEF UInv, UndoneInv, Withdrawn
    <2> QED BY <2>1 DEF Undone, KindOf
<1>2. Spec => []UInv
    BY InitUInv, NextUInv, InitIInv, NextIInv, PTL DEF Spec
<1> QED BY <1>1, <1>2, PTL DEF Spec, WithdrawnMeansUndone

-----------------------------------------------------------------------------
(* What a replay of one revision says of a world that is stable.           *)

LEMMA StableVerdict ==
    ASSUME NEW r \in Int, introduced \in Int, stable, ~expect,
           execs \in Seq(ExecutionAt(r))
    PROVE  /\ Verdict \in {"good", "bad", "skip"}
           /\ Verdict = "bad" => Reproduces(r)
           /\ Verdict = "good" => ~Reproduces(r)
<1>1. Verdict \in {"good", "bad", "skip"}
    BY DEF Verdict
<1>2. ASSUME Verdict = "bad" PROVE Reproduces(r)
    <2>1. PICK i \in 1..Len(execs) : Signal(execs[i]) = "reproduced"
        BY <1>2 DEF Verdict, Reproduced, Attempts
    <2>2. execs[i] \in ExecutionAt(r)
        OBVIOUS
    <2>3. execs[i].found # {}
        BY <2>1 DEF Signal, Matches
    <2> QED BY <2>2, <2>3 DEF ExecutionAt
<1>3. ASSUME Verdict = "good" PROVE ~Reproduces(r)
    <2>1. Len(execs) # 0 /\ Len(execs) \in Nat
        BY <1>3 DEF Verdict
    <2>2. 1 \in 1..Len(execs)
        BY <2>1
    <2>3. execs[1] \in ExecutionAt(r)
        BY <2>2
    <2>4. Signal(execs[1]) \notin {"unknown", "reproduced"}
        BY <1>3, <2>2 DEF Verdict, Reproduced, Inconclusive, Attempts
    <2>5. /\ Conducted(execs[1]) /\ execs[1].honoured /\ execs[1].found = {}
          /\ ~Silent(execs[1])
        BY <2>4 DEF Signal, Matches
    <2>6. execs[1] \in Execution
        BY <2>3 DEF ExecutionAt
    <2>7. execs[1].outcome = "pass"
        BY <2>5, <2>6 DEF Execution, Conducted, Silent
    <2> QED BY <2>3, <2>7 DEF ExecutionAt
<1> QED BY <1>1, <1>2, <1>3

-----------------------------------------------------------------------------
(* The search.                                                             *)

Premise == verify \/ introduced \in Revision

\* Which command a place belongs to.
PlaceInv ==
    /\ pc \in {"replay", "replaying"} => cmd = "replay"
    /\ pc \in {"regress", "entries", "prepare", "entry"} => cmd = "regress"
    /\ pc \in {"bisect", "checkout", "build", "testing", "restore"} => cmd = "bisect"

\* What is being tested, and by what executions.
TestInv ==
    /\ cmd = "bisect" => ~expect
    /\ pc \in {"checkout", "build", "testing"} =>
          /\ phase = "good" => cur = Good
          /\ phase = "bad" => cur = N - 1
          /\ phase = "search" => cur \in lo..hi
    /\ pc = "testing" => execs \in Seq(ExecutionAt(cur))

\* What the endpoints' measurements and the narrowing have established.
LiveInv ==
    /\ phase # "search" => lo = 0 /\ hi = N - 1 /\ verify
    /\ stable /\ phase = "bad" => introduced >= 0
    /\ stable /\ Premise /\ phase = "search" => introduced \in lo..hi

AnswerInv ==
    firstBad # Null =>
        /\ cmd = "bisect" /\ pc \in {"restore", "done"}
        /\ phase = "search" /\ firstBad = lo /\ lo >= hi

TypeInv ==
    /\ introduced \in -1..N /\ stable \in BOOLEAN /\ verify \in BOOLEAN
    /\ phase \in {"good", "bad", "search"}
    /\ lo \in 0..N /\ hi \in Revision
    /\ cur \in Revision \cup {Good}
    /\ firstBad \in Revision \cup {Null}

SearchInv == TypeInv /\ PlaceInv /\ TestInv /\ LiveInv /\ AnswerInv /\ TreeIsRestored

LEMMA InitSearch == CommandsInit => SearchInv
<1> SUFFICES ASSUME CommandsInit PROVE SearchInv
    OBVIOUS
<1> USE CandidatesAssumption
<1>1. TypeInv
    <2>1. stable \in BOOLEAN /\ verify \in BOOLEAN
        BY Zenon DEF CommandsInit
    <2>2. introduced \in -1..N
        BY SMT DEF CommandsInit
    <2>3. phase \in {"good", "bad", "search"}
        BY DEF CommandsInit
    <2>4. lo \in 0..N /\ hi \in Revision /\ cur = Good /\ firstBad = Null
        BY DEF CommandsInit, Revision
    <2> QED BY <2>1, <2>2, <2>3, <2>4 DEF TypeInv
<1>2. PlaceInv /\ TestInv
    BY DEF CommandsInit, PlaceInv, TestInv
<1>3. LiveInv
    BY DEF CommandsInit, LiveInv, Premise, Revision
<1>4. AnswerInv /\ TreeIsRestored
    BY DEF CommandsInit, AnswerInv, TreeIsRestored, Done
<1> QED BY <1>1, <1>2, <1>3, <1>4 DEF SearchInv

\* A verdict that is true of the revision under test keeps the range right.
LEMMA JudgedKeeps ==
    ASSUME SearchInv, pc \in {"checkout", "build", "testing"},
           NEW v \in {"good", "bad", "skip"}, Judged(v),
           stable => (v = "bad" => Reproduces(cur)) /\ (v = "good" => ~Reproduces(cur)),
           UNCHANGED <<cur, expect, tree>>
    PROVE  SearchInv'
<1> USE CandidatesAssumption DEF SearchInv
<1>0. cmd = "bisect" /\ firstBad = Null /\ cmd' = cmd /\ firstBad' = Null
    BY DEF PlaceInv, AnswerInv, Judged, Undetermined
<1>1. CASE phase = "search"
    <2>1. pc' = "bisect" /\ phase' = phase
        BY <1>1 DEF Judged
    <2>2. cur \in lo..hi
        BY <1>1 DEF TestInv
    <2>3. \/ v = "good" /\ lo' = cur + 1 /\ hi' = hi
          \/ v = "bad" /\ hi' = cur /\ lo' = lo
          \/ v = "skip" /\ lo' = lo /\ hi' = hi
        BY <1>1 DEF Judged, AfterGood, AfterBad, AfterSkip, range
    <2>4. TypeInv'
        BY <1>0, <2>1, <2>2, <2>3 DEF TypeInv, Revision, tree, Good, Null
    <2>5. PlaceInv' /\ TestInv'
        BY <1>0, <2>1 DEF PlaceInv, TestInv
    <2>6. LiveInv'
        BY <1>1, <2>1, <2>2, <2>3 DEF LiveInv, TypeInv, Premise, Reproduces, tree, Revision
    <2>7. AnswerInv' /\ TreeIsRestored'
        BY <1>0, <2>1 DEF AnswerInv, TreeIsRestored, Done
    <2> QED BY <2>4, <2>5, <2>6, <2>7
<1>2. CASE phase # "search" /\ v = phase
    <2>1. pc' = "bisect" /\ lo' = lo /\ hi' = hi /\ phase' = (IF phase = "good" THEN "bad" ELSE "search")
        BY <1>2 DEF Judged, NextPhase, range
    <2>2. TypeInv'
        BY <1>0, <2>1 DEF TypeInv, Revision, tree, Good, Null
    <2>3. PlaceInv' /\ TestInv'
        BY <1>0, <2>1 DEF PlaceInv, TestInv
    <2>4. LiveInv'
        BY <1>2, <2>1 DEF LiveInv, TestInv, TypeInv, Premise, Reproduces, tree, Revision, Good
    <2>5. AnswerInv' /\ TreeIsRestored'
        BY <1>0, <2>1 DEF AnswerInv, TreeIsRestored, Done
    <2> QED BY <2>2, <2>3, <2>4, <2>5
<1>3. CASE phase # "search" /\ v # phase
    <2>1. pc' = "restore" /\ UNCHANGED <<phase, lo, hi>>
        BY <1>3 DEF Judged, Undetermined, range
    <2> QED BY <1>0, <2>1 DEF TypeInv, PlaceInv, TestInv, LiveInv, Premise, AnswerInv,
            TreeIsRestored, Done, tree
<1> QED BY <1>1, <1>2, <1>3

\* Steps that leave the search alone.
LEMMA OtherSteps ==
    ASSUME SearchInv, UNCHANGED <<search, head, tree>>, UNCHANGED <<cmd, expect>>,
           \/ UNCHANGED <<pc, exit, execs>>
           \/ UNCHANGED <<pc, exit>> /\ pc # "testing"
           \/ UNCHANGED <<pc, exit>> /\ execs' \in Seq(ExecutionAt(cur))
           \/ cmd = "replay" /\ pc' \in {"replaying", "done"}
           \/ cmd = "regress" /\ pc' \in {"entries", "prepare", "entry", "done"}
    PROVE  SearchInv'
<1> USE DEF SearchInv, search, range, tree
<1>1. TypeInv' /\ LiveInv'
    BY DEF TypeInv, LiveInv, Premise
<1>2. PlaceInv'
    BY DEF PlaceInv
<1>3. TestInv'
    <2>1. ExecutionAt(cur)' = ExecutionAt(cur)
        BY DEF ExecutionAt, Reproduces
    <2>2. CASE UNCHANGED pc /\ (UNCHANGED execs \/ pc # "testing" \/ execs' \in Seq(ExecutionAt(cur)))
        BY <2>1, <2>2 DEF TestInv
    <2>3. CASE pc' \in {"replaying", "done", "entries", "prepare", "entry"}
        BY <2>3 DEF TestInv
    <2> QED BY <2>2, <2>3
<1>4. AnswerInv' /\ TreeIsRestored'
    BY DEF AnswerInv, TreeIsRestored, Done, PlaceInv, TypeInv
<1> QED BY <1>1, <1>2, <1>3, <1>4

LEMMA NextSearch == SearchInv /\ [CommandsNext]_commandsVars => SearchInv'
<1> SUFFICES ASSUME SearchInv, [CommandsNext]_commandsVars PROVE SearchInv'
    OBVIOUS
<1> USE DEF command, clock
<1>1. CASE TimePasses \/ CallerCancels
    BY <1>1, OtherSteps DEF TimePasses, CallerCancels, Tick, Cancel, Rest, replay
<1>2. CASE ReplayLoop(May) /\ UNCHANGED Rest
    <2>1. CASE Attempt \/ ReplayReturns
        BY <1>2, <2>1, OtherSteps DEF Attempt, ReplayReturns, Rest
    <2>2. CASE Executed(May)
        <3>1. PICK e \in May : execs' = Append(execs, e)
            BY <2>2 DEF Executed
        <3>2. CASE pc = "testing"
            <4>1. cmd = "bisect" /\ execs \in Seq(ExecutionAt(cur))
                BY <3>2 DEF SearchInv, PlaceInv, TestInv
            <4>2. May = ExecutionAt(cur)
                BY <4>1 DEF May
            <4>3. execs' \in Seq(ExecutionAt(cur))
                BY <3>1, <4>1, <4>2
            <4> QED BY <1>2, <2>2, <4>3, OtherSteps DEF Executed, Rest
        <3>3. CASE pc # "testing"
            BY <1>2, <2>2, <3>3, OtherSteps DEF Executed, Rest
        <3> QED BY <3>2, <3>3
    <2> QED BY <1>2, <2>1, <2>2 DEF ReplayLoop
<1>3. CASE ReplayStep /\ UNCHANGED Rest
    BY <1>3, OtherSteps DEF ReplayStep, NoPlan, BeginReplay, EndReplay, StartReplay, Ends, Rest,
       replay, SearchInv, PlaceInv
<1>4. CASE RegressStep /\ UNCHANGED <<search, head, tree>>
    <2>1. cmd = "regress"
        BY <1>4 DEF SearchInv, PlaceInv, RegressStep, Open, NotReached, Unloadable, Enter,
           Unprepared, Prepared, EntryDone, Report
    <2>2. UNCHANGED <<cmd, expect>> /\ pc' \in {"entries", "prepare", "entry", "done"}
        BY <1>4 DEF RegressStep, Open, NotReached, Unloadable, Enter, Unprepared, Prepared,
           EntryDone, Report, Gets, Ends, StartReplay, Forget, replay
    <2> QED BY <1>4, <2>1, <2>2, OtherSteps
<1>5. CASE BisectStep /\ UNCHANGED regress
    <2> USE CandidatesAssumption
    <2>1. CASE EndpointCanceled \/ ProbeStops \/ AllSkipped
        BY <2>1 DEF EndpointCanceled, ProbeStops, AllSkipped, Undetermined, SearchInv, TypeInv,
           PlaceInv, TestInv, LiveInv, Premise, AnswerInv, TreeIsRestored, Done, range, tree,
           replay
    <2>2. CASE Endpoint
        <3>1. TypeInv' /\ PlaceInv'
            BY <2>2 DEF Endpoint, SearchInv, TypeInv, PlaceInv, AnswerInv, range, tree,
               Revision, Good
        <3>2. TestInv' /\ LiveInv'
            BY <2>2 DEF Endpoint, SearchInv, TypeInv, TestInv, LiveInv, Premise, range, tree,
               replay
        <3> QED BY <2>2, <3>1, <3>2 DEF Endpoint, SearchInv, AnswerInv, TreeIsRestored, Done
    <2>3. CASE Probe
        <3>1. cur' \in lo..hi
            BY <2>3 DEF Probe, Untried
        <3>2. TypeInv' /\ PlaceInv'
            BY <2>3, <3>1 DEF Probe, SearchInv, TypeInv, PlaceInv, tree, Revision
        <3>3. TestInv' /\ LiveInv'
            BY <2>3, <3>1 DEF Probe, SearchInv, TypeInv, TestInv, LiveInv, Premise, tree, replay
        <3> QED BY <2>3, <3>2, <3>3 DEF Probe, SearchInv, AnswerInv, TreeIsRestored, Done
    <2>4. CASE Collapsed
        <3>1. PlaceInv' /\ TestInv' /\ LiveInv' /\ TreeIsRestored'
            BY <2>4 DEF Collapsed, Undetermined, SearchInv, PlaceInv, TestInv, LiveInv, Premise,
               TreeIsRestored, Done, range, tree, replay
        <3>2. TypeInv' /\ AnswerInv'
            BY <2>4 DEF Collapsed, Undetermined, SearchInv, TypeInv, PlaceInv, AnswerInv,
               Revision, range, tree
        <3> QED BY <3>1, <3>2 DEF SearchInv
    <2>5. CASE CheckoutFails \/ BuildFails
        BY <2>5, JudgedKeeps DEF CheckoutFails, BuildFails, replay
    <2>6. CASE Checkout \/ Build
        <3>1. TypeInv' /\ PlaceInv' /\ LiveInv' /\ AnswerInv'
            BY <2>6 DEF Checkout, Build, SearchInv, TypeInv, PlaceInv, LiveInv, Premise,
               AnswerInv, search, range, tree
        <3>2. TreeIsRestored'
            BY <2>6 DEF Checkout, Build, TreeIsRestored, Done
        <3>3. execs' = <<>> \/ pc' # "testing"
            BY <2>6 DEF Checkout, Build, StartReplay
        <3>4. TestInv'
            <4>1. pc' = "testing" => execs' \in Seq(ExecutionAt(cur)')
                BY <3>3
            <4>2. pc \in {"checkout", "build"} /\ UNCHANGED <<cmd, expect, phase, cur, lo, hi>>
                BY <2>6 DEF Checkout, Build, StartReplay, search, range, replay
            <4> QED BY <4>1, <4>2 DEF SearchInv, TestInv
        <3> QED BY <3>1, <3>2, <3>4 DEF SearchInv
    <2>7. CASE Tested
        <3>1. stable => /\ Verdict = "bad" => Reproduces(cur)
                        /\ Verdict = "good" => ~Reproduces(cur)
            BY <2>7, StableVerdict DEF Tested, SearchInv, PlaceInv, TestInv, TypeInv, Revision,
               Good
        <3>2. Verdict \in {"good", "bad", "skip"}
            BY DEF Verdict
        <3> QED BY <2>7, <3>1, <3>2, JudgedKeeps DEF Tested, Forget
    <2>8. CASE Restore \/ RestoreFails
        <3>1. TypeInv' /\ PlaceInv' /\ LiveInv' /\ AnswerInv'
            BY <2>8 DEF Restore, RestoreFails, Ends, SearchInv, TypeInv, PlaceInv, LiveInv,
               Premise, AnswerInv, search, range, tree
        <3>2. TestInv' /\ TreeIsRestored'
            BY <2>8 DEF Restore, Restored, RestoreFails, Ends, SearchInv, TestInv,
               TreeIsRestored, Done, replay
        <3> QED BY <3>1, <3>2 DEF SearchInv
    <2> QED BY <1>5, <2>1, <2>2, <2>3, <2>4, <2>5, <2>6, <2>7, <2>8 DEF BisectStep
<1>6. CASE UNCHANGED commandsVars
    BY <1>6, OtherSteps DEF commandsVars, replay
<1> QED BY <1>1, <1>2, <1>3, <1>4, <1>5, <1>6 DEF CommandsNext, Command

-----------------------------------------------------------------------------
(* The exit codes of replay and regress.                                   *)

\* What has been counted so far, and what a budget that expired has seen.
CountInv ==
    /\ k \in Nat \ {0} /\ now \in Nat /\ budget \in Nat
    /\ execs \in Seq(Execution)
    /\ cmd = "replay" /\ expired => rpc = "over" /\ Len(execs) < k /\ Past(Deadline)
    /\ cmd = "replay" /\ rpc \in {"next", "world"} => pc = "replaying"

\* The report of a replay is read once its attempts are over.
ReplayInv ==
    /\ pc = "replay" => rpc = "idle" /\ ~expired
    /\ pc = "replaying" => rpc # "idle" /\ deadline = Deadline
    /\ Done("replay") => rpc \in {"idle", "over"} /\ exit \in {2, ReplayExit}

\* Entries are dealt with one by one, of a corpus that loads.
RegressInv ==
    /\ corpus \in Seq(Entry) /\ status \in Seq(Status)
    /\ pc = "regress" => status = <<>>
    /\ pc \in {"entries", "prepare", "entry"} =>
          corpus # <<>> /\ ~Refuses /\ Len(status) <= Len(corpus)
    /\ pc \in {"prepare", "entry"} => Len(status) < Len(corpus)
    /\ Done("regress") =>
          \/ corpus = <<>> /\ status = <<>> /\ exit = 0
          \/ Refuses /\ status = <<>> /\ exit = 2
          \/ corpus # <<>> /\ ~Refuses /\ Len(status) = Len(corpus) /\ exit = RegressExit

ExitInv == PlaceInv /\ CountInv /\ ReplayInv /\ RegressInv

LEMMA InitExit == CommandsInit => ExitInv
<1> SUFFICES ASSUME CommandsInit PROVE ExitInv
    OBVIOUS
<1>1. PlaceInv
    BY DEF CommandsInit, PlaceInv
<1>2. CountInv
    BY CommandsAssumption DEF CommandsInit, NoReplay, CountInv
<1>3. ReplayInv
    BY DEF CommandsInit, NoReplay, ReplayInv, Done
<1>4. corpus \in Seq(Entry)
    <2>1. <<>> \in Seq(Entry)
        OBVIOUS
    <2>2. corpus \in Corpora \/ corpus = <<>>
        BY DEF CommandsInit
    <2> QED BY <2>1, <2>2, CommandsAssumption
<1>5. RegressInv
    BY <1>4 DEF CommandsInit, RegressInv, Done
<1> QED BY <1>1, <1>2, <1>3, <1>5 DEF ExitInv

LEMMA NextExit == ExitInv /\ [CommandsNext]_commandsVars => ExitInv'
<1> SUFFICES ASSUME ExitInv, [CommandsNext]_commandsVars PROVE ExitInv'
    OBVIOUS
<1> USE DEF ExitInv, command, clock, Rest
<1>1. CASE TimePasses \/ CallerCancels
    <2>1. UNCHANGED <<cmd, pc, exit, budget, k, rpc, execs, expired, deadline, expect, corpus, status>>
          /\ now' \in {now, now + 1}
        BY <1>1 DEF TimePasses, CallerCancels, Tick, Cancel, replay, regress
    <2>2. PlaceInv' /\ RegressInv'
        BY <2>1 DEF PlaceInv, RegressInv, Done, Refuses, RegressExit, Have
    <2>3. CountInv'
        BY <2>1 DEF CountInv, Past, Deadline, Null
    <2>4. ReplayInv'
        BY <2>1 DEF ReplayInv, Done, Deadline, ReplayExit, Reproduced, Inconclusive, Attempts,
           Signal, Matches
    <2> QED BY <2>2, <2>3, <2>4
<1>2. CASE ReplayLoop(May) /\ UNCHANGED Rest
    <2>1. UNCHANGED <<cmd, pc, exit, now, budget, k, deadline, expect, corpus, status>>
          /\ rpc \in {"next", "world"} /\ rpc' \in {"next", "world", "over"}
        BY <1>2 DEF ReplayLoop, Attempt, Executed, ReplayReturns, regress
    <2>2. PlaceInv' /\ RegressInv'
        BY <2>1 DEF PlaceInv, RegressInv, Done, Refuses, RegressExit, Have
    <2>3. execs' \in Seq(Execution)
        <3>1. May \subseteq Execution
            BY DEF May, ExecutionAt
        <3> QED BY <1>2, <3>1 DEF ReplayLoop, Attempt, Executed, ReplayReturns, CountInv
    <2>4. CountInv'
        <3>1. CASE ReplayReturns
            <4>1. execs' = execs /\ rpc' = "over" /\ (expired' => Len(execs) < k /\ Past(deadline))
                BY <3>1 DEF ReplayReturns
            <4>2. cmd = "replay" => deadline = Deadline
                BY <2>1 DEF CountInv, ReplayInv
            <4>3. Past(Deadline)' = Past(Deadline)
                BY <2>1 DEF Past, Deadline
            <4> QED BY <2>1, <4>1, <4>2, <4>3 DEF CountInv
        <3>2. CASE Attempt \/ Executed(May)
            BY <2>1, <2>3, <3>2 DEF Attempt, Executed, CountInv
        <3> QED BY <1>2, <3>1, <3>2 DEF ReplayLoop
    <2>5. ReplayInv'
        BY <2>1 DEF ReplayInv, Done, Deadline
    <2> QED BY <2>2, <2>4, <2>5
<1>3. CASE ReplayStep /\ UNCHANGED Rest
    <2>1. UNCHANGED <<cmd, now, budget, k, expect, corpus, status>>
          /\ pc \in {"replay", "replaying"} /\ pc' \in {"replaying", "done"}
        BY <1>3 DEF ReplayStep, NoPlan, BeginReplay, EndReplay, StartReplay, Ends, regress,
           replay
    <2>2. PlaceInv' /\ RegressInv'
        BY <2>1 DEF PlaceInv, RegressInv, Done, Refuses
    <2>3. CountInv'
        <3>1. CASE BeginReplay
            <4>1. execs' = <<>> /\ ~expired' /\ pc' = "replaying"
                BY <3>1 DEF BeginReplay, StartReplay
            <4> QED BY <2>1, <4>1 DEF CountInv
        <3>2. CASE NoPlan \/ EndReplay
            <4>1. UNCHANGED <<execs, expired, rpc>> /\ rpc \in {"idle", "over"}
                BY <3>2 DEF NoPlan, EndReplay, replay, ReplayInv
            <4>2. Past(Deadline)' = Past(Deadline)
                BY <2>1 DEF Past, Deadline
            <4> QED BY <2>1, <4>1, <4>2 DEF CountInv
        <3> QED BY <1>3, <3>1, <3>2 DEF ReplayStep
    <2>4. ReplayInv'
        <3>1. CASE BeginReplay
            BY <3>1 DEF BeginReplay, StartReplay, ReplayInv, Done, Deadline
        <3>2. CASE NoPlan
            BY <3>2 DEF NoPlan, Ends, ReplayInv, Done, replay
        <3>3. CASE EndReplay
            <4>1. ReplayExit' = ReplayExit
                BY <3>3 DEF EndReplay, replay, ReplayExit, Reproduced, Inconclusive, Attempts,
                   Signal, Matches
            <4> QED BY <3>3, <4>1 DEF EndReplay, Ends, ReplayInv, Done, replay
        <3> QED BY <1>3, <3>1, <3>2, <3>3 DEF ReplayStep
    <2> QED BY <2>2, <2>3, <2>4
<1>4. CASE RegressStep /\ UNCHANGED <<search, head, tree>>
    <2>1. UNCHANGED <<cmd, now, budget, k, corpus>> /\ cmd = "regress"
          /\ pc \in {"regress", "entries", "prepare", "entry"} /\ pc' \in {"entries", "prepare", "entry", "done"}
        BY <1>4 DEF RegressStep, Open, NotReached, Unloadable, Enter, Unprepared, Prepared,
           EntryDone, Report, Gets, Ends, StartReplay, Forget, regress, replay, PlaceInv
    <2>2. PlaceInv' /\ ReplayInv'
        BY <2>1 DEF PlaceInv, ReplayInv, Done
    <2>3. CountInv'
        <3>1. execs' \in {execs, <<>>}
            BY <1>4 DEF RegressStep, Open, NotReached, Unloadable, Enter, Unprepared, Prepared,
               EntryDone, Report, StartReplay, Forget, replay
        <3>2. execs' \in Seq(Execution)
            <4>1. execs \in Seq(Execution)
                BY DEF CountInv
            <4>2. <<>> \in Seq(Execution)
                OBVIOUS
            <4> QED BY <3>1, <4>1, <4>2
        <3> QED BY <2>1, <3>2 DEF CountInv
    <2>4. RegressInv'
        <3>1. CASE Open
            BY <3>1 DEF Open, Ends, regress, RegressInv, Done, Refuses
        <3>2. CASE NotReached \/ Unloadable \/ Unprepared \/ EntryDone
            <4>1. PICK s \in Status : Gets(s)
                BY <3>2 DEF NotReached, Unloadable, Unprepared, EntryDone, EntryStatus, Status
            <4>2. Len(status) < Len(corpus)
                <5>1. Len(status) \in Nat /\ Len(corpus) \in Nat
                    BY DEF RegressInv
                <5>2. CASE NotReached \/ Unloadable
                    BY <5>1, <5>2 DEF NotReached, Unloadable, At, Gets
                <5>3. CASE Unprepared \/ EntryDone
                    BY <5>3 DEF Unprepared, EntryDone, RegressInv
                <5> QED BY <3>2, <5>2, <5>3
            <4>3. status' \in Seq(Status) /\ Len(status') = Len(status) + 1 /\ pc' = "entries"
                BY <4>1 DEF Gets, RegressInv
            <4>4. corpus # <<>> /\ ~Refuses
                BY <3>2 DEF NotReached, Unloadable, Unprepared, EntryDone, RegressInv
            <4> QED BY <2>1, <4>2, <4>3, <4>4 DEF RegressInv, Done, Refuses
        <3>3. CASE Enter \/ Prepared
            BY <2>1, <3>3 DEF Enter, Prepared, At, regress, RegressInv, Done, Refuses
        <3>4. CASE Report
            <4>1. UNCHANGED status /\ Len(status) = Len(corpus) /\ pc = "entries"
                BY <3>4 DEF Report, At, regress, RegressInv
            <4>2. exit' = RegressExit /\ pc' = "done" /\ RegressExit' = RegressExit
                BY <3>4, <4>1 DEF Report, Ends, RegressExit, Have
            <4> QED BY <2>1, <4>1, <4>2 DEF RegressInv, Done, Refuses
        <3> QED BY <1>4, <3>1, <3>2, <3>3, <3>4 DEF RegressStep
    <2> QED BY <2>2, <2>3, <2>4
<1>5. CASE BisectStep /\ UNCHANGED regress
    <2>1. cmd = "bisect" /\ UNCHANGED <<cmd, now, budget, k, corpus, status>>
          /\ pc' \in {"bisect", "checkout", "build", "testing", "restore", "done"}
        BY <1>5 DEF BisectStep, EndpointCanceled, Endpoint, Probe, ProbeStops, AllSkipped,
           Collapsed, CheckoutFails, Checkout, BuildFails, Build, Tested, Restore, RestoreFails,
           Judged, Undetermined, Ends, StartReplay, Forget, regress, replay, PlaceInv
    <2>2. PlaceInv' /\ ReplayInv'
        BY <2>1 DEF PlaceInv, ReplayInv, Done
    <2>3. CountInv'
        <3>1. execs' \in {execs, <<>>}
            BY <1>5 DEF BisectStep, EndpointCanceled, Endpoint, Probe, ProbeStops, AllSkipped,
               Collapsed, CheckoutFails, Checkout, BuildFails, Build, Tested, Restore,
               RestoreFails, StartReplay, Forget, replay
        <3>2. execs' \in Seq(Execution)
            <4>1. execs \in Seq(Execution)
                BY DEF CountInv
            <4>2. <<>> \in Seq(Execution)
                OBVIOUS
            <4> QED BY <3>1, <4>1, <4>2
        <3> QED BY <2>1, <3>2 DEF CountInv
    <2>4. RegressInv'
        BY <2>1 DEF RegressInv, Done, Refuses
    <2> QED BY <2>2, <2>3, <2>4
<1>6. CASE UNCHANGED commandsVars
    BY <1>6 DEF commandsVars, replay, regress, PlaceInv, CountInv, ReplayInv, RegressInv, Done, Past,
       Deadline, Refuses, RegressExit, Have, ReplayExit, Reproduced, Inconclusive, Attempts,
       Signal, Matches
<1> QED BY <1>1, <1>2, <1>3, <1>4, <1>5, <1>6 DEF CommandsNext, Command

LEMMA SignalsTell ==
    ASSUME NEW e \in Execution
    PROVE  /\ Signal(e) \notin {"reproduced", "unknown"} => Negative(e)
           /\ Signal(e) = "reproduced" =>
                 e.outcome = "violation" /\ e.honoured /\ (expect => "same" \in e.found)
BY DEF Execution, Signal, Conducted, Matches, Silent, Negative

-----------------------------------------------------------------------------
\* The live range holds the revision that brought the defect, for any number of
\* candidates, attempts, skips and failures (the loop of bisect.Run).
THEOREM RangeIsRight == CommandsSpec => []RangeHoldsTheAnswer
<1>1. SearchInv => RangeHoldsTheAnswer
    BY DEF SearchInv, LiveInv, Premise, RangeHoldsTheAnswer
<1> QED BY <1>1, InitSearch, NextSearch, PTL DEF CommandsSpec

\* The revision bisect names is the one that brought the defect, whenever the
\* world is stable and the endpoints are what they are said, or measured, to be.
THEOREM AnswerIsRight == CommandsSpec => []AnswerIsFirstBad
<1>1. SearchInv => AnswerIsFirstBad
    BY CandidatesAssumption DEF SearchInv, TypeInv, LiveInv, AnswerInv, Premise, Revision,
       AnswerIsFirstBad
<1> QED BY <1>1, InitSearch, NextSearch, PTL DEF CommandsSpec

\* Whatever happens, bisect ends with HEAD where it was or with exit code 2.
THEOREM TreeIsPutBack == CommandsSpec => []TreeIsRestored
<1>1. SearchInv => TreeIsRestored
    BY DEF SearchInv
<1> QED BY <1>1, InitSearch, NextSearch, PTL DEF CommandsSpec

\* Exit 0 of a replay is one or more clean negatives and nothing else, exit 1 a
\* conducted world that showed the violation, exit 3 a budget; regress says what
\* its entries say (Report.ExitCode, RegressReport.ExitCode, cmdRegress).
THEOREM ExitCodesAreTrue == CommandsSpec => []ExitIsTruthful
<1>1. ExitInv => ReplayExitIsTruthful
    <2> SUFFICES ASSUME ExitInv, Done("replay") PROVE ReplayExitIsTruthful
        BY DEF ReplayExitIsTruthful
    <2>1. exit \in {2, ReplayExit} /\ execs \in Seq(Execution) /\ \A i \in 1..Len(execs) : execs[i] \in Execution
        BY DEF ExitInv, ReplayInv, CountInv
    <2>2. ASSUME exit = 0 PROVE execs # <<>> /\ \A i \in 1..Len(execs) : Negative(execs[i])
        BY <2>1, <2>2, SignalsTell DEF ReplayExit, Reproduced, Inconclusive, Attempts
    <2>3. ASSUME exit = 1
          PROVE  \E i \in 1..Len(execs) : /\ execs[i].outcome = "violation" /\ execs[i].honoured
                                          /\ expect => "same" \in execs[i].found
        BY <2>1, <2>3, SignalsTell DEF ReplayExit, Reproduced, Attempts
    <2>4. ASSUME exit = 3 PROVE Len(execs) < k /\ now >= budget
        BY <2>1, <2>4 DEF ReplayExit, ExitInv, CountInv, Past, Deadline, Done, Null
    <2> QED BY <2>2, <2>3, <2>4 DEF ReplayExitIsTruthful
<1>2. ExitInv => RegressExitIsTruthful
    <2> SUFFICES ASSUME ExitInv, Done("regress") PROVE RegressExitIsTruthful
        BY DEF RegressExitIsTruthful
    <2>1. corpus \in Seq(Entry) /\ status \in Seq(Status) /\ Len(corpus) \in Nat
        BY DEF ExitInv, RegressInv
    <2>2. CASE corpus = <<>> /\ status = <<>> /\ exit = 0
        BY <2>2 DEF RegressExitIsTruthful
    <2>3. CASE Refuses /\ status = <<>> /\ exit = 2
        BY <2>3 DEF RegressExitIsTruthful
    <2>4. CASE corpus # <<>> /\ ~Refuses /\ Len(status) = Len(corpus) /\ exit = RegressExit
        <3>1. exit # 0 /\ (exit = 1 <=> Have("FAIL"))
            <4>1. 1 \in 1..Len(status)
                BY <2>1, <2>4
            <4>2. status[1] \in Status
                BY <2>1, <4>1
            <4>3. Have("FAIL") \/ Have("INCONCLUSIVE") \/ Have("NON_REPRODUCING") \/ Have("NOT_REACHED")
                BY <4>1, <4>2 DEF Have, Status
            <4> QED BY <2>4, <4>3 DEF RegressExit, Have, Done
        <3>2. ASSUME exit = 3, NEW i \in 1..Len(corpus) PROVE status[i] = "NOT_REACHED"
            <4>1. status[i] \in Status
                BY <2>1, <2>4
            <4>2. ~Have("FAIL") /\ ~Have("INCONCLUSIVE") /\ ~Have("NON_REPRODUCING")
                BY <2>4, <3>2 DEF RegressExit, Have, Done
            <4> QED BY <2>4, <4>1, <4>2 DEF Have, Status
        <3>3. \A i \in 1..Len(corpus) : corpus[i] # "corrupt"
            BY <2>4 DEF Refuses
        <3> QED BY <2>4, <3>1, <3>2, <3>3 DEF RegressExitIsTruthful
    <2> QED BY <2>2, <2>3, <2>4 DEF ExitInv, RegressInv
<1> QED BY <1>1, <1>2, InitExit, NextExit, PTL DEF CommandsSpec, ExitIsTruthful
=============================================================================
