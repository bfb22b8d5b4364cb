---------------------------- MODULE OraclesProofs ----------------------------
(***************************************************************************)
(* Theorems about Oracles for any nodes, operations, bounds and oracles:   *)
(* an external oracle is believed only when nobody cut it short, and the   *)
(* built-in ones accuse and clear the system only with cause.              *)
(***************************************************************************)
EXTENDS Oracles, SequenceTheorems, TLAPS

-----------------------------------------------------------------------------
(* The invariant.                                                          *)

\* What a node's process went through is in order, and a kill of a fault falls
\* in the instant the fault's window opened.
Recorded(s, n, ws) ==
    /\ s \in Seq(Life) /\ s # <<>>
    /\ \A i \in 1..Len(s) :
          /\ s[i].to = None => i = Len(s)
          /\ s[i].to # None => s[i].why # "none"
          /\ s[i].why = "fault" => \E w \in ws : w.node = n /\ w.start = s[i].to

\* An answer to a probe was true of the process when it was given.
Explains(s, p) ==
    /\ p.ok => \E i \in 1..Len(s) : s[i].to = None \/ s[i].to >= p.at
    /\ ~p.ok => \E i \in 1..Len(s) :
                   s[i].to # None /\ (i = Len(s) \/ s[i + 1].from >= p.at)

\* What explains an answer given so far explains it still.
Remembers(s, t) ==
    \A p \in [node : Node, at : 0..now, ok : BOOLEAN] : Explains(s, p) => Explains(t, p)

WindowInv ==
    \A w \in windows : /\ w.start <= now
                       /\ w.end = None => phase = "drive"
                       /\ w.end # None => w.start <= w.end

EvidenceInv ==
    /\ EvidenceTypeOK
    /\ \A n \in Node : Recorded(lives[n], n, windows)
    /\ \A p \in probes : p.at <= now /\ Explains(lives[p.node], p)
    /\ WindowInv
    /\ phase \in {"quiesce", "assert"} => healed.end # None

\* The harness kills an oracle only when its own time or the world's is over, or
\* its output is too much.
ProcInv ==
    /\ ProcTypeOK
    /\ kill # "unused" => said = "flood" \/ sup \in {"killing", "draining"} \/ cut # "no"
    /\ signalled => kill # "unused"
    /\ cut # "no" => sup = "done"
    /\ main.st = "none" => main.exit = "none"
    /\ sup = "idle" => main.st = "none" /\ kid.st = "none" /\ said = "nothing"
    /\ sup = "done" => main.st \in {"none", "reaped"}

Found == [oracle : STRING, status : Status, run : BOOLEAN]

\* What was found is what the evidence says, which no longer changes.
FindingsInv ==
    /\ registered \in Registrations /\ engine \in {"asking", "returned", "failed"}
    /\ findings \in Seq(Found) /\ Len(findings) <= Len(registered)
    /\ \A i \in 1..Len(findings) :
          /\ findings[i].oracle = registered[i]
          /\ \A o \in Builtins :
                findings[i].oracle = o /\ findings[i].status # "inconclusive" =>
                    findings[i].status = Builtin(o)
    /\ findings # <<>> => phase = "assert"
    /\ sup # "idle" => Asking /\ Asked \in Assertable \ Builtins

IInv == EvidenceInv /\ ProcInv /\ FindingsInv

-----------------------------------------------------------------------------
(* The evidence of a world.                                                *)

\* A process ends: its life is closed now, and what the probes saw of it is as
\* true as it was.
LEMMA LifeEnds ==
    ASSUME NEW s, NEW n, NEW ws, NEW why \in {"crash", "fault"}, now \in Time,
           Recorded(s, n, ws), s[Len(s)].to = None,
           why = "fault" => \E w \in ws : w.node = n /\ w.start = now
    PROVE  LET t == [s EXCEPT ![Len(s)] = [s[Len(s)] EXCEPT !.to = now, !.why = why]]
           IN  /\ Recorded(t, n, ws) /\ Len(t) = Len(s) /\ t[Len(t)].to # None
               /\ Remembers(s, t)
<1> DEFINE e == [s[Len(s)] EXCEPT !.to = now, !.why = why]
           t == [s EXCEPT ![Len(s)] = e]
<1>1. s \in Seq(Life) /\ Len(s) \in 1..Len(s)
    BY DEF Recorded
<1>2. s[Len(s)] \in Life
    BY <1>1
<1>3. e \in Life /\ e.to = now /\ e.why = why /\ e.from = s[Len(s)].from
    BY <1>2 DEF Life
<1> HIDE DEF e
<1>4. /\ t \in Seq(Life) /\ Len(t) = Len(s)
      /\ \A j \in 1..Len(s) : t[j] = IF j = Len(s) THEN e ELSE s[j]
    BY <1>1, <1>3, ExceptSeq
<1> HIDE DEF t
<1>5. now # None /\ now \in Nat
    BY EvidenceAssumption DEF Time, None
<1>6. Recorded(t, n, ws) /\ t[Len(t)].to # None
    BY <1>1, <1>3, <1>4, <1>5 DEF Recorded
<1>7. ASSUME NEW p \in [node : Node, at : 0..now, ok : BOOLEAN], Explains(s, p)
      PROVE  Explains(t, p)
    <2>0. p.at \in Int /\ p.at <= now /\ now \in Nat /\ p.ok \in BOOLEAN
        BY EvidenceAssumption DEF Time
    <2>1. ASSUME p.ok PROVE \E i \in 1..Len(t) : t[i].to = None \/ t[i].to >= p.at
        <3>1. PICK i \in 1..Len(s) : s[i].to = None \/ s[i].to >= p.at
            BY <1>7, <2>1 DEF Explains
        <3>2. t[i].to = None \/ t[i].to >= p.at
            BY <1>3, <1>4, <1>5, <2>0, <3>1
        <3> QED BY <1>4, <3>1, <3>2
    <2>2. ASSUME ~p.ok
          PROVE  \E i \in 1..Len(t) : t[i].to # None /\ (i = Len(t) \/ t[i + 1].from >= p.at)
        <3>1. PICK i \in 1..Len(s) : s[i].to # None /\ (i = Len(s) \/ s[i + 1].from >= p.at)
            BY <1>7, <2>2 DEF Explains
        <3>2. i # Len(s)
            BY <3>1
        <3>3. i + 1 \in 1..Len(s) /\ s[i + 1].from >= p.at
            BY <1>1, <3>1, <3>2
        <3>4. t[i].to # None /\ t[i + 1].from >= p.at
            BY <1>3, <1>4, <3>1, <3>2, <3>3
        <3> QED BY <1>4, <3>1, <3>4
    <2> QED BY <2>1, <2>2 DEF Explains
<1> QED BY <1>4, <1>6, <1>7 DEF t, e, Remembers

\* A process begins after one that ended: the record grows by a life, and no
\* answer of a probe loses its explanation.
LEMMA LifeBegins ==
    ASSUME NEW s, NEW n, NEW ws, NEW by \in {"boot", "supervisor", "fault"}, now \in Time,
           Recorded(s, n, ws), s[Len(s)].to # None
    PROVE  LET t == Append(s, Began(by))
           IN  /\ Recorded(t, n, ws)
               /\ Remembers(s, t)
<1> DEFINE t == Append(s, Began(by))
<1>1. s \in Seq(Life) /\ Len(s) \in Nat /\ Len(s) \in 1..Len(s)
    BY DEF Recorded
<1>2. /\ Began(by) \in Life /\ Began(by).to = None
      /\ Began(by).why = "none" /\ Began(by).from = now
    BY DEF Began, Life, None
<1>3. /\ t \in Seq(Life) /\ Len(t) = Len(s) + 1 /\ t[Len(s) + 1] = Began(by)
      /\ \A j \in 1..Len(s) : t[j] = s[j]
    BY <1>1, <1>2
<1> HIDE DEF t
<1>4. Recorded(t, n, ws)
    <2>1. t # <<>>
        BY <1>1, <1>3
    <2>2. ASSUME NEW i \in 1..Len(t)
          PROVE  /\ t[i].to = None => i = Len(t)
                 /\ t[i].to # None => t[i].why # "none"
                 /\ t[i].why = "fault" => \E w \in ws : w.node = n /\ w.start = t[i].to
        <3>1. CASE i = Len(s) + 1
            BY <1>2, <1>3, <3>1
        <3>2. CASE i \in 1..Len(s)
            BY <1>3, <3>2 DEF Recorded
        <3> QED BY <1>1, <1>3, <3>1, <3>2
    <2> QED BY <1>3, <2>1, <2>2 DEF Recorded
<1>5. ASSUME NEW p \in [node : Node, at : 0..now, ok : BOOLEAN], Explains(s, p)
      PROVE  Explains(t, p)
    <2>0. p.at \in Int /\ p.at <= now /\ now \in Nat /\ p.ok \in BOOLEAN
        BY EvidenceAssumption DEF Time
    <2>1. ASSUME p.ok PROVE \E i \in 1..Len(t) : t[i].to = None \/ t[i].to >= p.at
        <3>1. PICK i \in 1..Len(s) : s[i].to = None \/ s[i].to >= p.at
            BY <1>5, <2>1 DEF Explains
        <3>2. i \in 1..Len(t) /\ t[i] = s[i]
            BY <1>1, <1>3
        <3> QED BY <3>1, <3>2
    <2>2. ASSUME ~p.ok
          PROVE  \E i \in 1..Len(t) : t[i].to # None /\ (i = Len(t) \/ t[i + 1].from >= p.at)
        <3>1. PICK i \in 1..Len(s) : s[i].to # None /\ (i = Len(s) \/ s[i + 1].from >= p.at)
            BY <1>5, <2>2 DEF Explains
        <3>2. i \in 1..Len(t) /\ t[i] = s[i]
            BY <1>1, <1>3
        <3>3. t[i + 1].from >= p.at
            <4>1. CASE i = Len(s)
                <5> QED BY <1>2, <1>3, <2>0, <4>1
            <4>2. CASE i # Len(s)
                <5>1. i + 1 \in 1..Len(s) /\ s[i + 1].from >= p.at
                    BY <1>1, <3>1, <4>2
                <5> QED BY <1>3, <5>1
            <4> QED BY <4>1, <4>2
        <3> QED BY <3>1, <3>2, <3>3
    <2> QED BY <2>1, <2>2 DEF Explains
<1> QED BY <1>4, <1>5 DEF t, Remembers

\* What befalls one node's process, and the windows that only ever grow.
LEMMA LivesChange ==
    ASSUME EvidenceInv, NEW n \in Node, NEW t, lives' = [lives EXCEPT ![n] = t],
           UNCHANGED <<now, phase, healed, ops, probes, seen, reliable>>,
           windows \subseteq windows',
           EvidenceTypeOK', WindowInv',
           Recorded(t, n, windows'),
           Remembers(lives[n], t)
    PROVE  EvidenceInv'
<1> USE DEF EvidenceInv
<1>1. \A m \in Node : lives'[m] = IF m = n THEN t ELSE lives[m]
    BY DEF EvidenceTypeOK
<1>2. ASSUME NEW m \in Node PROVE Recorded(lives'[m], m, windows')
    <2>1. CASE m = n
        BY <1>1, <2>1
    <2>2. CASE m # n
        BY <1>1, <2>2 DEF Recorded
    <2> QED BY <2>1, <2>2
<1>3. ASSUME NEW p \in probes PROVE p.at <= now /\ Explains(lives'[p.node], p)
    <2>1. p.node \in Node /\ p.at <= now /\ Explains(lives[p.node], p)
        BY DEF EvidenceTypeOK
    <2>2. CASE p.node = n
        <3>1. p \in [node : Node, at : 0..now, ok : BOOLEAN]
            BY <2>1, EvidenceAssumption DEF EvidenceTypeOK, Time
        <3> QED BY <1>1, <2>1, <2>2, <3>1 DEF Remembers
    <2>3. CASE p.node # n
        BY <1>1, <2>1, <2>3
    <2> QED BY <2>2, <2>3
<1>4. \A m \in Node : Recorded(lives[m], m, windows)'
    BY <1>2 DEF Recorded
<1>5. \A p \in probes' : p.at <= now' /\ Explains(lives[p.node], p)'
    BY <1>3 DEF Explains
<1> QED BY <1>4, <1>5

\* Whatever happens in the world, the evidence stays an ordered record of it.
LEMMA WorldKeeps == EvidenceInv /\ Happens(ToSet(registered)) => EvidenceInv'
<1> SUFFICES ASSUME EvidenceInv, Happens(ToSet(registered)) PROVE EvidenceInv'
    OBVIOUS
<1> USE EvidenceAssumption DEF EvidenceInv
<1>1. now \in Time /\ now \in Nat /\ None \notin Time
    BY DEF EvidenceTypeOK, Time, None
<1>2. CASE Tick
    <2> USE <1>2 DEF Tick
    <2>1. EvidenceTypeOK'
        BY DEF EvidenceTypeOK, Time, None
    <2>2. \A n \in Node : Recorded(lives[n], n, windows)'
        BY DEF Recorded
    <2>3. \A p \in probes' : p.at <= now' /\ Explains(lives[p.node], p)'
        BY DEF Explains, EvidenceTypeOK, Time
    <2>4. WindowInv'
        BY DEF WindowInv, EvidenceTypeOK, Time
    <2> QED BY <2>1, <2>2, <2>3, <2>4
<1>3. CASE NextPhase
    <2> USE <1>3 DEF NextPhase
    <2> DEFINE v(w) == IF w.end = None THEN [w EXCEPT !.end = now] ELSE w
    <2>a. windows' = {v(w) : w \in windows} \/ windows' = windows
        OBVIOUS
    <2>b. ASSUME NEW w \in windows
          PROVE  v(w) \in [node : Node, start : Time, end : Time \cup {None}]
                 /\ v(w).node = w.node /\ v(w).start = w.start
        BY <1>1 DEF EvidenceTypeOK
    <2>c. healed' \in [start : Time \cup {None}, end : Time \cup {None}]
        BY <1>1 DEF EvidenceTypeOK
    <2>1. EvidenceTypeOK'
        <3>1. windows' \subseteq [node : Node, start : Time, end : Time \cup {None}]
            BY <2>a, <2>b DEF EvidenceTypeOK
        <3> QED BY <3>1, <2>c DEF EvidenceTypeOK
    <2>2. \A n \in Node : Recorded(lives[n], n, windows)'
        <3>1. ASSUME NEW x \in windows
              PROVE  \E y \in windows' : y.node = x.node /\ y.start = x.start
            <4>1. x \in windows' \/ v(x) \in windows'
                BY <2>a
            <4> QED BY <2>b, <4>1
        <3> QED BY <3>1 DEF Recorded
    <2>3. \A p \in probes' : p.at <= now' /\ Explains(lives[p.node], p)'
        BY DEF Explains
    <2>4. WindowInv'
        BY <1>1 DEF WindowInv, EvidenceTypeOK
    <2>5. phase' \in {"quiesce", "assert"} => healed'.end # None
        BY <1>1 DEF EvidenceTypeOK
    <2> QED BY <2>1, <2>2, <2>3, <2>4, <2>5
<1>4. ASSUME NEW n \in Node, Crash(n) PROVE EvidenceInv'
    <2> DEFINE t == Ended(n, "crash")
    <2>1. Recorded(lives[n], n, windows) /\ lives[n][Len(lives[n])].to = None
        BY <1>4 DEF Crash, Up, LastLife
    <2>2. Recorded(t, n, windows)
          /\ Remembers(lives[n], t)
        BY <1>1, <2>1, LifeEnds DEF Ended, LastLife
    <2>3. t \in Seq(Life)
        BY <2>2 DEF Recorded
    <2> HIDE DEF t
    <2>4. /\ lives' = [lives EXCEPT ![n] = t]
          /\ UNCHANGED <<now, phase, healed, windows, ops, probes, seen, reliable>>
        BY <1>4 DEF Crash, t
    <2>5. EvidenceTypeOK' /\ WindowInv'
        BY <2>3, <2>4 DEF EvidenceTypeOK, WindowInv
    <2> QED BY <2>2, <2>4, <2>5, LivesChange
<1>5. ASSUME NEW n \in Node, Supervised(n) PROVE EvidenceInv'
    <2> DEFINE t == Append(lives[n], Began("supervisor"))
    <2>1. Recorded(lives[n], n, windows) /\ lives[n][Len(lives[n])].to # None
        BY <1>5 DEF Supervised, Up, LastLife
    <2>2. Recorded(t, n, windows)
          /\ Remembers(lives[n], t)
        BY <1>1, <2>1, LifeBegins
    <2>3. t \in Seq(Life)
        BY <2>2 DEF Recorded
    <2>4. /\ lives' = [lives EXCEPT ![n] = t]
          /\ UNCHANGED <<now, phase, healed, windows, ops, probes, seen, reliable>>
        BY <1>5 DEF Supervised, EvidenceTypeOK
    <2> HIDE DEF t
    <2>5. EvidenceTypeOK' /\ WindowInv'
        BY <2>3, <2>4 DEF EvidenceTypeOK, WindowInv
    <2> QED BY <2>2, <2>4, <2>5, LivesChange
<1>6. ASSUME NEW n \in Node, ProcKill(n) \/ ProcRestart(n) PROVE EvidenceInv'
    <2> DEFINE W == windows \cup {[node |-> n, start |-> now, end |-> None]}
               u == IF Up(n) THEN Ended(n, "fault") ELSE lives[n]
               t == IF ProcKill(n) THEN Ended(n, "fault") ELSE Append(u, Began("fault"))
    <2>1. windows' = W /\ phase = "drive" /\ (ProcKill(n) => Up(n))
          /\ UNCHANGED <<now, phase, healed, ops, probes, seen, reliable>>
        BY <1>6 DEF ProcKill, ProcRestart, Injected
    <2>2. Recorded(lives[n], n, W) /\ \E w \in W : w.node = n /\ w.start = now
        <3>1. Recorded(lives[n], n, windows) /\ windows \subseteq W
            OBVIOUS
        <3>2. Recorded(lives[n], n, W)
            BY <3>1 DEF Recorded
        <3>3. [node |-> n, start |-> now, end |-> None] \in W
            OBVIOUS
        <3> QED BY <3>2, <3>3
    <2> HIDE DEF W
    <2>3. /\ Recorded(u, n, W) /\ u[Len(u)].to # None
          /\ Remembers(lives[n], u)
        <3>1. CASE Up(n)
            BY <1>1, <2>2, <3>1, LifeEnds DEF Ended, LastLife, Up
        <3>2. CASE ~Up(n)
            BY <2>2, <3>2 DEF Up, LastLife, Remembers
        <3> QED BY <3>1, <3>2
    <2>4. /\ Recorded(t, n, W)
          /\ Remembers(lives[n], t)
        <3>1. CASE ProcKill(n)
            BY <2>1, <2>3, <3>1 DEF Remembers
        <3>2. CASE ~ProcKill(n)
            <4> HIDE DEF u
            <4>1. /\ Recorded(Append(u, Began("fault")), n, W)
                  /\ Remembers(u, Append(u, Began("fault")))
                BY <1>1, <2>3, LifeBegins
            <4> QED BY <2>3, <3>2, <4>1 DEF Remembers
        <3> QED BY <3>1, <3>2
    <2>5. t \in Seq(Life)
        BY <2>4 DEF Recorded
    <2>6. lives' = [lives EXCEPT ![n] = t]
        BY <1>6 DEF ProcKill, ProcRestart, EvidenceTypeOK
    <2> HIDE DEF t
    <2>7. windows \subseteq windows'
        BY <2>1 DEF W
    <2>8. EvidenceTypeOK' /\ WindowInv'
        <3>1. EvidenceTypeOK'
            BY <1>1, <2>1, <2>5, <2>6 DEF EvidenceTypeOK, W
        <3>2. WindowInv'
            BY <1>1, <2>1 DEF WindowInv, W
        <3> QED BY <3>1, <3>2
    <2> QED BY <2>1, <2>4, <2>6, <2>7, <2>8, LivesChange
<1>7. ASSUME NEW w \in windows, Withdraw(w) PROVE EvidenceInv'
    <2> USE <1>7 DEF Withdraw
    <2> DEFINE v == [w EXCEPT !.end = now]
    <2>1. v.node = w.node /\ v.start = w.start /\ v.end = now /\ v \in windows'
        BY DEF EvidenceTypeOK
    <2>2. EvidenceTypeOK'
        BY <1>1 DEF EvidenceTypeOK
    <2>3. ASSUME NEW n \in Node PROVE Recorded(lives[n], n, windows)'
        <3>1. \A x \in windows : \E y \in windows' : y.node = x.node /\ y.start = x.start
            BY <2>1
        <3> QED BY <3>1 DEF Recorded
    <2>4. \A p \in probes' : p.at <= now' /\ Explains(lives[p.node], p)'
        BY DEF Explains
    <2>5. WindowInv'
        BY <1>1 DEF WindowInv, EvidenceTypeOK
    <2> QED BY <2>2, <2>3, <2>4, <2>5
<1>8. ASSUME NEW n \in Node, Probe(n) PROVE EvidenceInv'
    <2> USE <1>8 DEF Probe
    <2>1. EvidenceTypeOK'
        <3>1. Up(n) \in BOOLEAN
            BY DEF Up
        <3>2. [node |-> n, at |-> now, ok |-> Up(n)] \in [node : Node, at : Time, ok : BOOLEAN]
            BY <1>1, <3>1
        <3>3. probes' \subseteq [node : Node, at : Time, ok : BOOLEAN]
            BY <3>2 DEF EvidenceTypeOK
        <3> QED BY <3>3 DEF EvidenceTypeOK
    <2>2. \A m \in Node : Recorded(lives[m], m, windows)'
        BY DEF Recorded
    <2>3. Explains(lives[n], [node |-> n, at |-> now, ok |-> Up(n)])
        <3>1. lives[n] \in Seq(Life) /\ Len(lives[n]) \in 1..Len(lives[n])
            BY DEF Recorded
        <3> QED BY <3>1 DEF Explains, Up, LastLife
    <2>4. \A p \in probes' : p.at <= now' /\ Explains(lives[p.node], p)'
        BY <1>1, <2>3 DEF Explains
    <2>5. WindowInv'
        BY DEF WindowInv
    <2> QED BY <2>1, <2>2, <2>4, <2>5
<1>9. ASSUME NEW o \in Op, Invoke(o) \/ Complete(o) PROVE EvidenceInv'
    <2> USE <1>9 DEF Invoke, Complete
    <2>1. \E inv, comp \in Time \cup {None} :
             ops' = [ops EXCEPT ![o] = [inv |-> inv, comp |-> comp]]
        BY <1>1 DEF EvidenceTypeOK
    <2>2. ops' \in [Op -> [inv : Time \cup {None}, comp : Time \cup {None}]]
        BY <2>1 DEF EvidenceTypeOK
    <2>3. EvidenceTypeOK'
        BY <2>2 DEF EvidenceTypeOK
    <2>4. (\A n \in Node : Recorded(lives[n], n, windows))'
        BY DEF Recorded
    <2>5. (\A p \in probes : p.at <= now /\ Explains(lives[p.node], p))'
        BY DEF Explains
    <2>6. WindowInv'
        BY DEF WindowInv
    <2> QED BY <2>3, <2>4, <2>5, <2>6
<1>10. CASE Collect(ToSet(registered))
    <2> USE <1>10 DEF Collect
    <2>1. EvidenceTypeOK'
        BY DEF EvidenceTypeOK
    <2>2. (\A n \in Node : Recorded(lives[n], n, windows))'
        BY DEF Recorded
    <2>3. (\A p \in probes : p.at <= now /\ Explains(lives[p.node], p))'
        BY DEF Explains
    <2>4. WindowInv'
        BY DEF WindowInv
    <2> QED BY <2>1, <2>2, <2>3, <2>4
<1> QED BY <1>2, <1>3, <1>4, <1>5, <1>6, <1>7, <1>8, <1>9, <1>10 DEF Happens

-----------------------------------------------------------------------------
(* The oracles and what they find.                                         *)

\* A built-in oracle judges by the evidence alone: the same, the same judgement.
LEMMA SameJudgement ==
    ASSUME UNCHANGED evidenceVars, NEW o \in Builtins
    PROVE  Builtin(o)' = Builtin(o)
<1> USE DEF evidenceVars
<1>1. NoCrash' = NoCrash
    BY DEF NoCrash, CrashOf, CrashUnknown, HasExit, Up, LastLife, Excused, Covers, RestartCount,
       PlannedFaultsFor
<1>2. NoStuckOp' = NoStuckOp
    BY DEF NoStuckOp, Invoked, StuckOpen, StuckDone, ObservationEnd, Later
<1>3. AvailabilityAfterHeal' = AvailabilityAfterHeal
    BY DEF AvailabilityAfterHeal, Probed, Answered, InWindow, WindowEnd
<1> QED BY <1>1, <1>2, <1>3 DEF Builtin, Builtins

\* A built-in oracle answers with one of the engine's statuses.
LEMMA JudgementIsStatus == ASSUME NEW o \in Builtins PROVE Builtin(o) \in Status
BY DEF Builtin, Builtins, NoCrash, NoStuckOp, AvailabilityAfterHeal, Status

\* The evidence counts for the findings, and nothing else does.
LEMMA SameEvidence == EvidenceInv /\ UNCHANGED evidenceVars => EvidenceInv'
BY DEF EvidenceInv, evidenceVars, EvidenceTypeOK, Recorded, Explains, WindowInv

\* A step of the engine or of an oracle's process that adds no finding.
LEMMA SameFindings ==
    ASSUME FindingsInv, UNCHANGED <<evidenceVars, registered, findings>>,
           engine' \in {engine, "returned", "failed"},
           sup' = "idle" \/ (sup # "idle" /\ engine' = engine)
    PROVE  FindingsInv'
<1> USE DEF FindingsInv, evidenceVars
<1>1. ASSUME NEW i \in 1..Len(findings), NEW o \in Builtins
      PROVE  findings[i].oracle = o /\ findings[i].status # "inconclusive" =>
                findings[i].status = Builtin(o)'
    BY SameJudgement
<1>2. sup' # "idle" => Asking' /\ Asked' \in Assertable \ Builtins
    BY DEF Asking, Asked
<1> QED BY <1>1, <1>2

\* A finding more, of the oracle whose turn it is.
LEMMA FindingAdded ==
    ASSUME FindingsInv, Asking, UNCHANGED <<evidenceVars, registered, engine>>, sup' = "idle",
           NEW s \in Status, NEW run \in BOOLEAN, Finding(s, run),
           Asked \in Builtins /\ s # "inconclusive" => s = Builtin(Asked)
    PROVE  FindingsInv'
<1> USE OraclesAssumption DEF FindingsInv, Asking
<1>1. registered \in Seq(STRING) /\ Len(registered) \in Nat /\ Len(findings) \in Nat
    OBVIOUS
<1>2. Asked \in STRING
    BY <1>1 DEF Asked
<1> DEFINE f == [oracle |-> Asked, status |-> s, run |-> run]
<1>3. f \in Found
    BY <1>2 DEF Found
<1>4. /\ findings' = Append(findings, f) /\ findings' \in Seq(Found)
      /\ Len(findings') = Len(findings) + 1
      /\ findings'[Len(findings) + 1] = f
      /\ \A i \in 1..Len(findings) : findings'[i] = findings[i]
    BY <1>3 DEF Finding
<1> HIDE DEF f
<1>5. ASSUME NEW i \in 1..Len(findings')
      PROVE  /\ findings'[i].oracle = registered[i]
             /\ \A o \in Builtins :
                    findings'[i].oracle = o /\ findings'[i].status # "inconclusive" =>
                        findings'[i].status = Builtin(o)'
    <2>1. CASE i = Len(findings) + 1
        BY <1>4, <2>1, SameJudgement DEF f, Asked
    <2>2. CASE i \in 1..Len(findings)
        BY <1>4, <2>2, SameJudgement
    <2> QED BY <1>1, <1>4, <2>1, <2>2
<1>6. Len(findings') <= Len(registered') /\ phase' = "assert"
    BY <1>1, <1>4 DEF evidenceVars
<1> QED BY <1>4, <1>5, <1>6

\* An external oracle's process before it is spawned.
LEMMA ProcStarts == ProcInv /\ Start => ProcInv'
BY DEF ProcInv, ProcTypeOK, Start, readers, Pipe, Exits

\* The oracle's own doing: it does not touch what the harness knows of it.
LEMMA ProgramKeeps == ProcInv /\ Program => ProcInv' /\ UNCHANGED sup
<1> SUFFICES ASSUME ProcInv, Program PROVE ProcInv' /\ UNCHANGED sup
    OBVIOUS
<1> USE DEF ProcInv, ProcTypeOK, HarnessIdle, readers
<1>1. CASE Spawn
    BY <1>1 DEF Spawn, Pipe
<1>2. CASE Write
    BY <1>2 DEF Write, Said, Status
<1>3. CASE ClosePipes
    BY <1>3 DEF ClosePipes
<1>4. CASE Exit
    <2>1. PICK code \in Exits : Dies(code)
        BY <1>4 DEF Exit
    <2>2. /\ main' \in [st : {"none", "running", "zombie", "reaped"}, pipes : SUBSET Pipe,
                        exit : Exits \cup {"none"}, deaf : BOOLEAN]
          /\ main'.st = "zombie"
        BY <2>1 DEF Dies
    <2> QED BY <1>4, <2>2 DEF Exit
<1>5. CASE KidExits
    <2>1. Gone \in [st : {"none", "running", "gone"}, pipes : SUBSET Pipe,
                    escaped : BOOLEAN, deaf : BOOLEAN]
        BY DEF Gone, NoKid
    <2> QED BY <1>5, <2>1 DEF KidExits
<1> QED BY <1>1, <1>2, <1>3, <1>4, <1>5 DEF Program

\* A signal leaves the process as it is or dead.
LEMMA SignalsKill ==
    ASSUME ProcTypeOK, SigTerm \/ SigKill
    PROVE  /\ main' \in [st : {"none", "running", "zombie", "reaped"}, pipes : SUBSET Pipe,
                         exit : Exits \cup {"none"}, deaf : BOOLEAN]
           /\ kid' \in [st : {"none", "running", "gone"}, pipes : SUBSET Pipe,
                        escaped : BOOLEAN, deaf : BOOLEAN]
           /\ signalled' \in BOOLEAN
           /\ main.st # "running" => signalled' = signalled
           /\ main' = main \/ (main.st = "running" /\ main'.st = "zombie")
<1> USE DEF ProcTypeOK
<1>1. main' = main \/ (main.st = "running" /\ \E code \in Exits : Dies(code))
    BY DEF SigTerm, SigKill, Exits
<1>2. kid' \in {kid, Gone}
    BY DEF SigTerm, SigKill, KidHit
<1>3. signalled' = (signalled \/ main.st = "running")
    BY DEF SigTerm, SigKill
<1>4. signalled' \in BOOLEAN /\ (main.st # "running" => signalled' = signalled)
    BY <1>3, Zenon
<1>5. main' = main \/ (main.st = "running" /\ main'.st = "zombie")
    BY <1>1 DEF Dies
<1> QED BY <1>1, <1>2, <1>4, <1>5 DEF Dies, Gone, NoKid

\* The harness's side of the process: exec, its readers and its killer.
LEMMA HarnessKeeps == ProcInv /\ sup # "idle" /\ Harness => ProcInv' /\ sup' # "idle"
<1> SUFFICES ASSUME ProcInv, sup # "idle", Harness PROVE ProcInv' /\ sup' # "idle"
    OBVIOUS
<1> USE DEF ProcInv, readers, process
<1>1. CASE FoundGone \/ Drain \/ OutEnds \/ ErrEnds \/ TimePasses \/ Killed
    <2>1. UNCHANGED <<main, kid, said, signalled, cut, canceled>> /\ limit' \in {limit, TRUE}
        BY <1>1 DEF FoundGone, Drain, OutEnds, ErrEnds, TimePasses, Killed
    <2>2. /\ kill' \in {kill, "done"} /\ (kill = "unused" => kill' = kill)
          /\ out' \in {"reading", "killing", "draining", "eof"} /\ err' \in {"reading", "eof"}
          /\ sup' = sup \/ (sup = "killing" /\ sup' = "draining")
        BY <1>1 DEF FoundGone, Drain, OutEnds, ErrEnds, TimePasses, Killed, ProcTypeOK
    <2>3. limit' \in BOOLEAN
        BY <2>1 DEF ProcTypeOK
    <2>4. /\ kill' \in {"unused", "termed", "done"}
          /\ sup' \in {"idle", "select", "killing", "draining", "done"}
        BY <2>2 DEF ProcTypeOK
    <2>5. ProcTypeOK'
        BY <2>1, <2>2, <2>3, <2>4, Zenon DEF ProcTypeOK
    <2> QED BY <2>1, <2>2, <2>5
<1>2. CASE GraceOver \/ Overflow \/ RunEnds
    <2>1. /\ SigTerm \/ SigKill \/ (UNCHANGED <<main, kid, signalled, kill>> /\ kill # "unused")
          /\ kill' \in {"termed", "done"}
          /\ out' \in {out, "killing"} /\ sup' \in {sup, "killing"}
          /\ UNCHANGED <<said, err, cut, limit, canceled>>
        BY <1>2 DEF GraceOver, Overflow, RunEnds, ProcTypeOK
    <2>2. /\ main' \in [st : {"none", "running", "zombie", "reaped"}, pipes : SUBSET Pipe,
                        exit : Exits \cup {"none"}, deaf : BOOLEAN]
          /\ kid' \in [st : {"none", "running", "gone"}, pipes : SUBSET Pipe,
                       escaped : BOOLEAN, deaf : BOOLEAN]
          /\ signalled' \in BOOLEAN
        BY <2>1, SignalsKill DEF ProcTypeOK
    <2>3. main' = main \/ (main.st = "running" /\ main'.st = "zombie")
        <3>1. CASE SigTerm \/ SigKill
            BY <3>1, SignalsKill, Zenon
        <3> QED BY <2>1, <3>1
    <2>4. /\ out' \in {"reading", "killing", "draining", "eof"}
          /\ sup' \in {"select", "killing", "draining", "done"}
          /\ kill' \in {"unused", "termed", "done"}
        BY <2>1 DEF ProcTypeOK
    <2>5. ProcTypeOK'
        BY <2>1, <2>2, <2>4 DEF ProcTypeOK
    <2>6. kill' # "unused" => said' = "flood" \/ sup' \in {"killing", "draining"} \/ cut' # "no"
        BY <1>2 DEF GraceOver, Overflow, RunEnds
    <2>7. cut' # "no" => sup' = "done"
        BY <1>2 DEF GraceOver, Overflow, RunEnds
    <2>8. main'.st = "none" => main'.exit = "none"
        BY <2>3
    <2>9. sup' = "done" => main'.st \in {"none", "reaped"}
        BY <2>1, <2>3
    <2> QED BY <2>1, <2>4, <2>5, <2>6, <2>7, <2>8, <2>9
<1>3. CASE Reap
    BY <1>3 DEF Reap, ProcTypeOK
<1>4. CASE WaitDone
    BY <1>4 DEF WaitDone, ProcTypeOK
<1> QED BY <1>1, <1>2, <1>3, <1>4 DEF Harness

\* The invariant holds when the world boots.
LEMMA InitIInv == Init => IInv
<1> SUFFICES ASSUME Init PROVE IInv
    OBVIOUS
<1> USE EvidenceAssumption DEF Init, EvidenceInit, ProcInit, None
<1>1. EvidenceInv
    <2>1. Began("boot") \in Life /\ now \in Time
        BY DEF Began, Life, Time
    <2>2. /\ <<Began("boot")>> \in Seq(Life)
          /\ Len(<<Began("boot")>>) = 1 /\ <<Began("boot")>>[1] = Began("boot")
        BY <2>1
    <2>3. EvidenceTypeOK
        BY <2>1, <2>2 DEF EvidenceTypeOK
    <2>4. ASSUME NEW n \in Node PROVE Recorded(lives[n], n, windows)
        BY <2>2 DEF Recorded, Began
    <2> QED BY <2>3, <2>4 DEF EvidenceInv, WindowInv
<1>2. ProcInv
    BY DEF ProcInv, ProcTypeOK, Said
<1>3. FindingsInv
    <2>1. registered \in Seq(STRING)
        BY OraclesAssumption
    <2> QED BY <2>1 DEF FindingsInv
<1> QED BY <1>1, <1>2, <1>3 DEF IInv

\* Every step of the world, of the engine and of an oracle's process keeps it.
LEMMA NextIInv == IInv /\ [Next]_vars => IInv'
<1> SUFFICES ASSUME IInv, [Next]_vars PROVE IInv'
    OBVIOUS
<1> USE DEF IInv, engineVars
<1>1. CASE World
    <2>1. phase # "assert"
        BY <1>1, EvidenceAssumption DEF World, Happens, Tick, NextPhase, Crash, Supervised,
           ProcKill, ProcRestart, Injected, Withdraw, Probe, Invoke, Complete, Collect,
           EvidenceInv, WindowInv
    <2>2. EvidenceInv'
        BY <1>1, WorldKeeps DEF World
    <2>3. ProcInv'
        BY <1>1 DEF World, procVars, process, readers, ProcInv, ProcTypeOK
    <2>4. findings = <<>> /\ sup = "idle"
        BY <2>1 DEF FindingsInv, Asking
    <2>5. FindingsInv'
        BY <1>1, <2>4 DEF World, procVars, FindingsInv
    <2> QED BY <2>2, <2>3, <2>5
<1>2. CASE Cancel
    <2>1. ProcInv' /\ sup' = sup
        BY <1>2 DEF Cancel, ProcInv, ProcTypeOK, process, readers
    <2> QED BY <1>2, <2>1, SameEvidence, SameFindings DEF Cancel
<1>3. CASE NotEvaluated
    <2>1. ProcInv' /\ sup = "idle" /\ sup' = sup
        BY <1>3 DEF NotEvaluated, procVars, process, readers, ProcInv, ProcTypeOK, FindingsInv
    <2>2. FindingsInv'
        BY <1>3, <2>1, FindingAdded DEF NotEvaluated, Status
    <2> QED BY <1>3, <2>1, <2>2, SameEvidence DEF NotEvaluated
<1>4. CASE ContextEnded \/ Return
    <2>1. ProcInv' /\ sup' = sup
        BY <1>4 DEF ContextEnded, Return, procVars, process, readers, ProcInv, ProcTypeOK
    <2>2. sup = "idle"
        BY <1>4 DEF ContextEnded, Return, FindingsInv, Asking
    <2> QED BY <1>4, <2>1, <2>2, SameEvidence, SameFindings DEF ContextEnded, Return
<1>5. CASE EvaluateBuiltin
    <2>1. ProcInv' /\ sup = "idle" /\ sup' = sup
        BY <1>5 DEF EvaluateBuiltin, procVars, process, readers, ProcInv, ProcTypeOK,
           FindingsInv
    <2>2. PICK panics \in BOOLEAN :
             Finding(IF panics THEN "inconclusive" ELSE Builtin(Asked), TRUE)
        BY <1>5 DEF EvaluateBuiltin
    <2>3. FindingsInv'
        <3>1. Builtin(Asked) \in Status
            BY <1>5, JudgementIsStatus DEF EvaluateBuiltin
        <3>2. CASE panics
            BY <1>5, <2>1, <2>2, <3>2, FindingAdded DEF EvaluateBuiltin, Status
        <3>3. CASE ~panics
            BY <1>5, <2>1, <2>2, <3>1, <3>3, FindingAdded DEF EvaluateBuiltin
        <3> QED BY <3>2, <3>3
    <2> QED BY <1>5, <2>1, <2>3, SameEvidence DEF EvaluateBuiltin
<1>6. CASE StartExternal
    <2>1. ProcInv'
        BY <1>6, ProcStarts DEF StartExternal
    <2>2. FindingsInv'
        <3>1. Asking' /\ Asked' = Asked
            BY <1>6 DEF StartExternal, Asking, Asked, evidenceVars
        <3>2. \A i \in 1..Len(findings) : \A o \in Builtins :
                  findings[i].oracle = o /\ findings[i].status # "inconclusive" =>
                      findings[i].status = Builtin(o)'
            BY <1>6, SameJudgement DEF StartExternal, FindingsInv
        <3> QED BY <1>6, <3>1, <3>2 DEF StartExternal, FindingsInv, evidenceVars
    <2> QED BY <1>6, <2>1, <2>2, SameEvidence DEF StartExternal
<1>7. CASE ProgramRuns
    <2>1. ProcInv' /\ sup' = sup
        BY <1>7, ProgramKeeps DEF ProgramRuns
    <2> QED BY <1>7, <2>1, SameEvidence, SameFindings DEF ProgramRuns
<1>8. CASE HarnessRuns
    <2>1. sup # "idle"
        BY <1>8 DEF HarnessRuns, Harness, FoundGone, GraceOver, Overflow, Drain, OutEnds,
           ErrEnds, Reap, TimePasses, WaitDone, RunEnds, Killed, ProcInv, ProcTypeOK
    <2>2. ProcInv'
        BY <1>8, <2>1, HarnessKeeps DEF HarnessRuns
    <2> QED BY <1>8, <2>1, <2>2, SameEvidence, SameFindings DEF HarnessRuns
<1>9. CASE ExternalDone
    <2>1. ProcInv' /\ sup' = "idle"
        BY <1>9 DEF ExternalDone, ProcInv, ProcTypeOK, Said
    <2>2. Interpret \in Status
        BY DEF Interpret, Status
    <2>3. Asked \notin Builtins
        BY <1>9 DEF ExternalDone, FindingsInv
    <2>4. FindingsInv'
        BY <1>9, <2>1, <2>2, <2>3, FindingAdded DEF ExternalDone
    <2> QED BY <1>9, <2>1, <2>4, SameEvidence DEF ExternalDone
<1>10. CASE UNCHANGED vars
    <2>1. ProcInv' /\ sup' = sup
        BY <1>10 DEF vars, procVars, process, readers, ProcInv, ProcTypeOK
    <2>2. FindingsInv'
        BY <1>10, <2>1, SameFindings DEF vars
    <2> QED BY <1>10, <2>1, <2>2, SameEvidence DEF vars
<1> QED BY <1>1, <1>2, <1>3, <1>4, <1>5, <1>6, <1>7, <1>8, <1>9, <1>10 DEF Next

\* So it holds in every state.
LEMMA Invariance == Spec => []IInv
BY InitIInv, NextIInv, PTL DEF Spec

-----------------------------------------------------------------------------
\* An external oracle's ok or violation comes from a program that ended by
\* itself, was reached by no signal of the harness, and exited with the code of
\* its own document, whatever exec, the readers and the killer saw first
\* (ProcessOracle.exec and interpret, internal/oracle/process.go).
THEOREM BeliefIsWhole == Spec => []BelievedOnlyWhole
<1>1. IInv => BelievedOnlyWhole
    <2> SUFFICES ASSUME IInv, sup = "done", Interpret # "inconclusive"
                 PROVE  /\ main.st = "reaped" /\ ~signalled
                        /\ said = Interpret /\ main.exit = Code[Interpret]
        BY DEF BelievedOnlyWhole
    <2>1. Trustworthy /\ said = Interpret /\ main.exit = Code[Interpret]
        BY DEF Interpret
    <2> QED BY <2>1 DEF IInv, ProcInv, Trustworthy
<1> QED BY <1>1, Invariance, PTL

\* A conclusion among the findings is what the built-in oracle judges still: the
\* evidence has not changed since.
LEMMA Conclusion ==
    ASSUME FindingsInv, NEW o \in Builtins, NEW s, s # "inconclusive", Concluded(o, s)
    PROVE  phase = "assert" /\ Builtin(o) = s
<1>1. PICK i \in DOMAIN findings : findings[i].oracle = o /\ findings[i].status = s
    BY DEF Concluded
<1>2. i \in 1..Len(findings) /\ findings # <<>>
    BY <1>1 DEF FindingsInv
<1> QED BY <1>1, <1>2 DEF FindingsInv

\* The built-in oracles accuse the system of nothing that a fault of the harness
\* did or that did not happen, and clear it of nothing that is not so: whatever
\* crashed, was killed, restarted, answered or hung, in any order and at any
\* instant (no_crash, no_stuck_op and availability_after_heal, internal/oracle).
THEOREM JudgementsAreTrue == Spec => []JudgementsAreEarned
<1>1. IInv => AccusationsAreTrue
    <2> SUFFICES ASSUME IInv PROVE AccusationsAreTrue
        OBVIOUS
    <2> USE DEF IInv, EvidenceInv
    <2>1. ASSUME Concluded("no_crash", "violated")
          PROVE  \E n \in Node : \E i \in DOMAIN lives[n] : lives[n][i].why = "crash"
        <3>1. phase = "assert" /\ NoCrash = "violated"
            BY <2>1, Conclusion DEF Builtin, Builtins
        <3>2. PICK n \in Node : HasExit(n) /\ ~Excused(n)
            BY <3>1 DEF NoCrash, CrashOf, RestartCount
        <3>3. /\ Recorded(lives[n], n, windows) /\ lives[n] \in Seq(Life)
              /\ Len(lives[n]) \in 1..Len(lives[n]) /\ LastLife(n) \in Life
            BY DEF Recorded, LastLife
        <3>4. LastLife(n).to # None /\ LastLife(n).why # "none"
            BY <3>2, <3>3 DEF HasExit, Up, Recorded, LastLife
        <3>5. ASSUME LastLife(n).why = "fault" PROVE FALSE
            <4>1. PICK w \in windows : w.node = n /\ w.start = LastLife(n).to
                BY <3>3, <3>5 DEF Recorded, LastLife
            <4>2. w.start <= w.end
                BY <3>1 DEF WindowInv
            <4>3. w.start \in Nat
                BY EvidenceAssumption DEF EvidenceTypeOK, Time
            <4> QED BY <3>2, <4>1, <4>2, <4>3 DEF Excused, Covers
        <3>6. LastLife(n).why = "crash"
            BY <3>3, <3>4, <3>5 DEF Life
        <3> QED BY <3>3, <3>6 DEF LastLife
    <2>2. ASSUME Concluded("no_stuck_op", "violated")
          PROVE  \E o \in Op : /\ ops[o].inv # None
                              /\ \/ ops[o].comp = None
                                 \/ /\ ops[o].comp - healed.end > SLO
                                    /\ ops[o].comp - ops[o].inv > SLO
        <3>1. NoStuckOp = "violated"
            BY <2>2, Conclusion DEF Builtin, Builtins
        <3>2. PICK o \in Op : ops[o].inv # None /\ (StuckOpen(o) \/ StuckDone(o))
            BY <3>1 DEF NoStuckOp, Invoked
        <3>3. ops[o].inv \in Int /\ ops[o].comp \in Int /\ healed.end \in Int /\ SLO \in Int
            BY EvidenceAssumption DEF EvidenceTypeOK, Time, None
        <3> QED BY <3>2, <3>3 DEF StuckOpen, StuckDone, Later
    <2>3. ASSUME Concluded("availability_after_heal", "violated")
          PROVE  \E n \in Node : DownAtSomePointAfterHeal(n)
        <3>1. AvailabilityAfterHeal = "violated"
            BY <2>3, Conclusion DEF Builtin, Builtins
        <3>2. PICK n \in Node : Probed(n) /\ ~Answered(n)
            BY <3>1 DEF AvailabilityAfterHeal
        <3>3. PICK p \in probes : p.node = n /\ p.at >= healed.end /\ ~p.ok
            BY <3>2 DEF Probed, Answered, InWindow
        <3>4. PICK i \in 1..Len(lives[n]) :
                  lives[n][i].to # None /\ (i = Len(lives[n]) \/ lives[n][i + 1].from >= p.at)
            BY <3>3 DEF Explains
        <3>5. lives[n] \in Seq(Life)
            BY DEF EvidenceTypeOK
        <3>6. i = Len(lives[n]) \/ lives[n][i + 1].from >= healed.end
            <4>1. CASE i = Len(lives[n])
                BY <4>1
            <4>2. CASE i # Len(lives[n])
                <5>1. i + 1 \in 1..Len(lives[n]) /\ lives[n][i + 1] \in Life
                    BY <3>5, <4>2
                <5>2. lives[n][i + 1].from \in Int /\ p.at \in Int /\ healed.end \in Int
                    BY <5>1, EvidenceAssumption DEF EvidenceTypeOK, Life, Time, None
                <5> QED BY <3>3, <3>4, <4>2, <5>2
            <4> QED BY <4>1, <4>2
        <3> QED BY <3>4, <3>5, <3>6 DEF DownAtSomePointAfterHeal
    <2> QED BY <2>1, <2>2, <2>3 DEF AccusationsAreTrue
<1>2. IInv => AcquittalsAreEarned
    <2> SUFFICES ASSUME IInv PROVE AcquittalsAreEarned
        OBVIOUS
    <2> USE DEF IInv, EvidenceInv
    <2>1. ASSUME Concluded("no_crash", "ok"), NEW n \in Node
          PROVE  Up(n) \/ \E w \in windows : w.node = n /\ LastLife(n).to \in w.start..w.end
        <3>1. NoCrash = "ok"
            BY <2>1, Conclusion DEF Builtin, Builtins
        <3>2. ~CrashOf(n) /\ n \in seen
            BY <3>1 DEF NoCrash, CrashUnknown
        <3>3. ASSUME ~Up(n)
              PROVE  \E w \in windows : w.node = n /\ LastLife(n).to \in w.start..w.end
            <4>1. PICK w \in windows : Covers(w, n, LastLife(n).to)
                BY <3>2, <3>3 DEF CrashOf, HasExit, Excused
            <4>2. LastLife(n) \in Life
                BY DEF Recorded, LastLife
            <4>3. LastLife(n).to \in Int /\ w.start \in Int /\ w.end \in Int
                BY <4>2, EvidenceAssumption DEF EvidenceTypeOK, Life, Time, None
            <4> QED BY <4>1, <4>3 DEF Covers
        <3> QED BY <3>3
    <2>2. ASSUME Concluded("no_stuck_op", "ok"), NEW o \in Op, ops[o].inv # None
          PROVE  /\ ops[o].comp # None
                 /\ ops[o].comp <= (CHOOSE t \in {healed.end, ops[o].inv} :
                                       t >= healed.end /\ t >= ops[o].inv) + SLO
        <3>1. phase = "assert" /\ NoStuckOp = "ok"
            BY <2>2, Conclusion DEF Builtin, Builtins
        <3>2. ops[o].comp # None /\ ~StuckDone(o)
            BY <2>2, <3>1 DEF NoStuckOp, Invoked
        <3>3. ops[o].inv \in Nat /\ ops[o].comp \in Nat /\ healed.end \in Nat /\ SLO \in Nat
            BY <2>2, <3>1, <3>2, EvidenceAssumption DEF EvidenceTypeOK, Time, None
        <3> DEFINE a == healed.end
                   b == ops[o].inv
                   t == CHOOSE x \in {a, b} : x >= a /\ x >= b
        <3>4. t \in {a, b} /\ t >= a /\ t >= b
            <4>1. \E x \in {a, b} : x >= a /\ x >= b
                BY <3>3
            <4> HIDE DEF a, b
            <4> QED BY <4>1
        <3>5. ops[o].comp <= a \/ ops[o].comp - Later(a, b) <= SLO
            BY <3>2, <3>3 DEF StuckDone, Later
        <3> HIDE DEF t
        <3>6. ops[o].comp <= t + SLO
            BY <3>3, <3>4, <3>5 DEF Later
        <3> QED BY <3>2, <3>6 DEF t
    <2>3. ASSUME Concluded("availability_after_heal", "ok"), NEW n \in Node
          PROVE  \E i \in DOMAIN lives[n] :
                    lives[n][i].to = None \/ lives[n][i].to >= healed.end
        <3>1. AvailabilityAfterHeal = "ok"
            BY <2>3, Conclusion DEF Builtin, Builtins
        <3>2. PICK p \in probes : p.node = n /\ p.at >= healed.end /\ p.ok
            BY <3>1 DEF AvailabilityAfterHeal, Probed, Answered, InWindow
        <3>3. PICK i \in 1..Len(lives[n]) : lives[n][i].to = None \/ lives[n][i].to >= p.at
            BY <3>2 DEF Explains
        <3>4. lives[n] \in Seq(Life) /\ lives[n][i] \in Life
            BY <3>3 DEF EvidenceTypeOK
        <3>5. lives[n][i].to \in Int /\ p.at \in Int /\ healed.end \in Int
            BY <3>4, EvidenceAssumption DEF EvidenceTypeOK, Life, Time, None
        <3>6. lives[n][i].to = None \/ lives[n][i].to >= healed.end
            BY <3>2, <3>3, <3>5
        <3> QED BY <3>4, <3>6
    <2> QED BY <2>1, <2>2, <2>3 DEF AcquittalsAreEarned
<1> QED BY <1>1, <1>2, Invariance, PTL DEF JudgementsAreEarned

\* Type correctness of the evidence, of an oracle's process and of the findings.
THEOREM OraclesTypeOK == Spec => []TypeOK
<1>1. IInv => TypeOK
    <2> SUFFICES ASSUME IInv PROVE TypeOK
        OBVIOUS
    <2>1. registered \in Seq(STRING)
        BY OraclesAssumption DEF IInv, FindingsInv
    <2>2. ASSUME NEW i \in 1..Len(findings)
          PROVE  findings[i] \in [oracle : ToSet(registered), status : Status, run : BOOLEAN]
        <3>1. /\ findings[i] \in Found /\ findings[i].oracle = registered[i]
              /\ i \in 1..Len(registered)
            BY <2>1 DEF IInv, FindingsInv
        <3>2. registered[i] \in ToSet(registered)
            BY <2>1, <3>1 DEF ToSet
        <3> QED BY <3>1, <3>2 DEF Found
    <2>3. ToSet(findings) \subseteq [oracle : ToSet(registered), status : Status, run : BOOLEAN]
        <3>1. findings \in Seq(Found)
            BY DEF IInv, FindingsInv
        <3> QED BY <2>2, <3>1 DEF ToSet
    <2> QED BY <2>3 DEF TypeOK, IInv, EvidenceInv, ProcInv, FindingsInv
<1> QED BY <1>1, Invariance, PTL
==============================================================================
