---------------------------- MODULE ControlProofs ----------------------------
(***************************************************************************)
(* Theorems about the ways worlds are run: one after another (RunLoop),    *)
(* for every profile, command line and number of worlds; as a batch on     *)
(* lanes (SlotPool), for every number of lanes and requests; and to shrink *)
(* what a run found (Shrink), for every schedule of faults, operation      *)
(* plan, budget and strictness.                                            *)
(***************************************************************************)
EXTENDS RunLoop, SlotPool, Shrink, FiniteSetTheorems, WellFoundedInduction, TLAPS

-----------------------------------------------------------------------------
(* RunLoop                                                                 *)

\* What is enforced is the profile's budget, cut by some command line.
BudgetInv == \E c \in CLI : budget = Enforced(profile, c)

\* The fold so far: a violation ends the loop, and a pass is every world's.
FoldInv ==
    /\ pc # "done" => runOutcome \in WorldOutcome
    /\ pc \in {"loop", "world"} => ~Ran("violation")
    /\ pc = "fold" => (runOutcome = "violation" <=> Ran("violation"))
    /\ pc # "done" /\ runOutcome = "pass" => \A i \in DOMAIN worlds : worlds[i] = "pass"
    /\ pc \in {"loop", "world"} => runOutcome # "violation"

\* A run that is about to pass has used up its budget.
StopInv == pc = "fold" /\ runOutcome = "pass" => ~MayStartWorld

\* Nothing is claimed before the verdict.
VerdictInv == pc # "done" => verdict = "none" /\ exit = "none"

Claims == PassMeansGatePerformed /\ FailIffViolation /\ ExitIsTruthful /\ NarrowedIsNotLocked

RunIInv == TypeOK /\ BudgetInv /\ FoldInv /\ StopInv /\ VerdictInv /\ Claims

-----------------------------------------------------------------------------
LEMMA WorseOutcome ==
    ASSUME NEW o \in WorldOutcome, NEW p \in WorldOutcome
    PROVE  /\ Worse(o, p) \in WorldOutcome
           /\ Worse(o, p) = "violation" <=> o = "violation" \/ p = "violation"
           /\ Worse(o, p) = "pass" <=> o = "pass" /\ p = "pass"
BY DEF Worse, Rank, WorldOutcome

LEMMA Narrowing ==
    ASSUME NEW p \in Profiles, NEW c \in CLI
    PROVE  /\ Enforced(p, c) \in [worlds : Int, wall : Nat \ {0}, min : Nat, narrowed : BOOLEAN]
           /\ Enforced(p, c).worlds # 0
           /\ Enforced(p, c).min = p.min
           /\ ~Enforced(p, c).narrowed =>
                Enforced(p, c).worlds = p.worlds /\ Enforced(p, c).wall = p.wall
<1>1. /\ p \in [worlds : Int, wall : Nat \ {0}, min : Nat] /\ p.worlds # 0 /\ p.worlds >= -1
      /\ c \in [worlds : Nat, wall : Nat]
    BY RunAssumption
<1>2. Narrows(p, c) \in BOOLEAN
    BY DEF Narrows, Less
<1>3. /\ (IF Less(c.worlds, p.worlds) THEN c.worlds ELSE p.worlds) \in Int \ {0}
      /\ (IF Less(c.wall, p.wall) THEN c.wall ELSE p.wall) \in Nat \ {0}
    BY <1>1 DEF Less
<1> QED BY <1>1, <1>2, <1>3 DEF Enforced, Narrows

LEMMA RunInitIInv == Init => RunIInv
<1> SUFFICES ASSUME Init PROVE RunIInv
    OBVIOUS
<1>1. BudgetInv
    BY DEF Init, BudgetInv
<1>2. budget \in [worlds : Int, wall : Nat \ {0}, min : Nat, narrowed : BOOLEAN] /\ budget.worlds # 0
    BY Narrowing DEF Init
<1>3. TypeOK
    <2>1. canceled \in BOOLEAN
        BY DEF Init
    <2>2. worlds \in Seq(WorldOutcome) /\ Len(worlds) = 0
        BY DEF Init
    <2>3. ~OpenEnded(budget) => started <= budget.worlds
        BY <1>2 DEF Init, OpenEnded
    <2> QED BY <1>2, <2>1, <2>2, <2>3 DEF Init, TypeOK, Outcomes
<1>4. FoldInv /\ StopInv /\ VerdictInv /\ Claims
    BY DEF Init, FoldInv, StopInv, VerdictInv, Claims, WorldOutcome, Ran,
       PassMeansGatePerformed, FailIffViolation, ExitIsTruthful, NarrowedIsNotLocked
<1> QED BY <1>1, <1>3, <1>4 DEF RunIInv

\* As long as there is no verdict, there is nothing to answer for.
LEMMA NothingClaimed ==
    ASSUME pc' # "done", verdict' = "none", exit' = "none"
    PROVE  VerdictInv' /\ Claims'
BY DEF VerdictInv, Claims, PassMeansGatePerformed, FailIffViolation, ExitIsTruthful,
   NarrowedIsNotLocked

\* The worlds are what they were, and so is what ran.
LEMMA SameWorlds ==
    ASSUME worlds' = worlds, NEW o
    PROVE  Ran(o)' <=> Ran(o)
BY DEF Ran

LEMMA FinishKeeps ==
    ASSUME RunIInv, NEW o \in WorldOutcome, FinishWorld(o)
    PROVE  RunIInv'
<1> USE DEF RunIInv
<1>1. /\ pc = "world" /\ worlds' = Append(worlds, o) /\ runOutcome' = Worse(runOutcome, o)
      /\ pc' = IF o # "violation" THEN "loop" ELSE "fold"
      /\ UNCHANGED <<profile, budget, expected, lock, clock, canceled, started, verdict, exit>>
    BY DEF FinishWorld, Continues
<1>2. /\ worlds \in Seq(WorldOutcome) /\ runOutcome \in WorldOutcome
      /\ ~Ran("violation") /\ runOutcome # "violation"
      /\ started = Len(worlds) + 1
    BY <1>1 DEF TypeOK, FoldInv
<1>3. /\ worlds' \in Seq(WorldOutcome) /\ Len(worlds') = Len(worlds) + 1
      /\ DOMAIN worlds' = 1..(Len(worlds) + 1) /\ DOMAIN worlds = 1..Len(worlds)
      /\ Len(worlds) \in Nat
      /\ \A i \in DOMAIN worlds : worlds'[i] = worlds[i]
      /\ worlds'[Len(worlds) + 1] = o
    BY <1>1, <1>2
<1>4. /\ runOutcome' \in WorldOutcome
      /\ runOutcome' = "violation" <=> o = "violation"
      /\ runOutcome' = "pass" <=> runOutcome = "pass" /\ o = "pass"
    BY <1>1, <1>2, WorseOutcome
<1>5. TypeOK'
    <2>1. started' = Len(worlds') + (IF pc' = "world" THEN 1 ELSE 0)
        BY <1>1, <1>2, <1>3
    <2>2. (~OpenEnded(budget) => started <= budget.worlds)'
        BY <1>1 DEF TypeOK, OpenEnded
    <2>3. runOutcome' \in Outcomes
        BY <1>4 DEF WorldOutcome, Outcomes
    <2>4. canceled' \in BOOLEAN
        BY <1>1 DEF TypeOK
    <2> QED BY <1>1, <1>3, <2>1, <2>2, <2>3, <2>4 DEF TypeOK
<1>6. Ran("violation")' <=> o = "violation"
    BY <1>2, <1>3 DEF Ran
<1>7. FoldInv'
    <2>1. runOutcome' = "pass" => \A i \in DOMAIN worlds' : worlds'[i] = "pass"
        BY <1>1, <1>3, <1>4 DEF FoldInv
    <2> QED BY <1>1, <1>4, <1>6, <2>1 DEF FoldInv
<1>8. BudgetInv' /\ StopInv'
    BY <1>1, <1>4 DEF BudgetInv, StopInv
<1>9. VerdictInv' /\ Claims'
    BY <1>1, NothingClaimed DEF VerdictInv
<1> QED BY <1>5, <1>7, <1>8, <1>9

\* A run whose fold is a pass has used up its budget, and unless it was cut its
\* budget is its profile's.
LEMMA PassIsPerformed ==
    ASSUME RunIInv, pc = "fold", Downgraded(Folded) = "pass"
    PROVE  /\ \A i \in DOMAIN worlds : worlds[i] = "pass"
           /\ budget.worlds = profile.worlds /\ budget.wall = profile.wall
           /\ IF OpenEnded(profile)
              THEN Len(worlds) >= 1 /\ Len(worlds) >= profile.min /\ clock >= profile.wall
              ELSE Len(worlds) = profile.worlds
<1> USE DEF RunIInv
<1>1. /\ ~budget.narrowed /\ Folded = "pass" /\ runOutcome = "pass"
      /\ WallExpired => Len(worlds) >= Required
    BY DEF Downgraded, Folded, ExpiryOutcome
<1>2. /\ profile \in Profiles
      /\ budget.worlds = profile.worlds /\ budget.wall = profile.wall /\ budget.min = profile.min
    BY <1>1, Narrowing DEF BudgetInv, TypeOK
<1>3. WorldsExhausted \/ WallExpired
    BY <1>1 DEF StopInv, MayStartWorld
<1>4. started = Len(worlds) /\ Len(worlds) \in Nat
    BY DEF TypeOK
<1>5. /\ profile.worlds \in Int /\ profile.min \in Nat /\ profile.wall \in Nat /\ clock \in Nat
    BY <1>2, RunAssumption DEF TypeOK
<1>6. CASE OpenEnded(profile)
    <2>1. WallExpired
        BY <1>2, <1>3, <1>6 DEF WorldsExhausted, OpenEnded
    <2>2. Len(worlds) >= (IF profile.min < 1 THEN 1 ELSE profile.min)
        BY <1>1, <1>2, <1>6, <2>1 DEF Required, OpenEnded
    <2>3. clock >= profile.wall
        BY <1>2, <2>1 DEF WallExpired
    <2> QED BY <1>1, <1>2, <1>4, <1>5, <1>6, <2>2, <2>3 DEF FoldInv
<1>7. CASE ~OpenEnded(profile)
    <2>1. Len(worlds) <= budget.worlds
        BY <1>2, <1>4, <1>7 DEF TypeOK, OpenEnded
    <2>2. Len(worlds) >= budget.worlds
        BY <1>1, <1>2, <1>3, <1>4, <1>7 DEF WorldsExhausted, Required, OpenEnded
    <2>3. Len(worlds) = profile.worlds
        BY <1>2, <1>4, <1>5, <2>1, <2>2
    <2> QED BY <1>1, <1>2, <1>7, <2>3 DEF FoldInv
<1> QED BY <1>6, <1>7

LEMMA FoldKeeps ==
    ASSUME RunIInv, Fold
    PROVE  RunIInv'
<1> USE DEF RunIInv
<1> DEFINE final == Downgraded(Folded)
<1>1. /\ pc = "fold" /\ pc' = "done" /\ runOutcome' = Folded /\ verdict' = Result(final)
      /\ lock' = IF budget.narrowed /\ lock = "ok" THEN "bypassed" ELSE lock
      /\ exit' \in {"inconclusive"} \cup
                   IF expected = "none" THEN {Code(verdict')} ELSE Calibrated(verdict')
      /\ UNCHANGED <<profile, budget, expected, clock, canceled, worlds, started>>
    BY DEF Fold
<1>2. runOutcome \in WorldOutcome /\ (runOutcome = "violation" <=> Ran("violation"))
    BY <1>1 DEF FoldInv
<1>3. Folded \in WorldOutcome \cup {"budget_exhausted"}
    BY <1>2 DEF Folded, ExpiryOutcome, WorldOutcome
<1>4. final = "violation" <=> Ran("violation")
    BY <1>2 DEF Downgraded, Folded, ExpiryOutcome
<1>5. /\ verdict' \in {"PASS", "FAIL", "INCONCLUSIVE", "BUDGET_EXHAUSTED"}
      /\ verdict' = "PASS" <=> final = "pass"
      /\ verdict' = "FAIL" <=> final = "violation"
    <2> HIDE DEF final
    <2> QED BY <1>1 DEF Result
<1>6. /\ exit' \in {"pass", "fail", "inconclusive", "budget_exhausted"}
      /\ ExitIsTruthful'
    BY <1>1, <1>5 DEF Code, Calibrated, Decided, ExitIsTruthful, TypeOK
<1>7. TypeOK'
    <2>1. canceled' \in BOOLEAN
        BY <1>1 DEF TypeOK
    <2>2. (~OpenEnded(budget) => started <= budget.worlds)'
        BY <1>1 DEF TypeOK, OpenEnded
    <2>3. started' = Len(worlds') + (IF pc' = "world" THEN 1 ELSE 0)
        BY <1>1 DEF TypeOK
    <2>4. runOutcome' \in Outcomes
        BY <1>1, <1>3 DEF WorldOutcome, Outcomes
    <2>5. lock' \in {"ok", "absent", "bypassed"}
        BY <1>1 DEF TypeOK
    <2> QED BY <1>1, <1>5, <1>6, <2>1, <2>2, <2>3, <2>4, <2>5 DEF TypeOK
<1>8. PassMeansGatePerformed'
    <2>1. SUFFICES ASSUME final = "pass"
                   PROVE  PassMeansGatePerformed'
        BY <1>5 DEF PassMeansGatePerformed
    <2> QED BY <1>1, <2>1, PassIsPerformed DEF PassMeansGatePerformed, OpenEnded
<1>9. FailIffViolation'
    BY <1>1, <1>4, <1>5, SameWorlds DEF FailIffViolation
<1>10. NarrowedIsNotLocked'
    <2>1. SUFFICES ASSUME budget.worlds # profile.worlds \/ budget.wall # profile.wall
                   PROVE  lock' # "ok" /\ verdict' # "PASS"
        BY <1>1 DEF NarrowedIsNotLocked
    <2>2. budget.narrowed
        BY <2>1, Narrowing DEF BudgetInv, TypeOK
    <2>3. final # "pass"
        BY <1>1, <2>1, PassIsPerformed
    <2> QED BY <1>1, <1>5, <2>2, <2>3
<1>11. BudgetInv' /\ FoldInv' /\ StopInv' /\ VerdictInv'
    BY <1>1 DEF BudgetInv, FoldInv, StopInv, VerdictInv
<1> QED BY <1>6, <1>7, <1>8, <1>9, <1>10, <1>11 DEF Claims

LEMMA RunNextIInv == RunIInv /\ [Next]_vars => RunIInv'
<1> SUFFICES ASSUME RunIInv, [Next]_vars
             PROVE  RunIInv'
    OBVIOUS
<1>1. CASE Tick
    <2>1. /\ clock' = clock + 1 /\ pc # "done"
          /\ UNCHANGED <<profile, budget, expected, lock, canceled, pc, worlds, started,
                         runOutcome, verdict, exit>>
        BY <1>1 DEF Tick
    <2>2. TypeOK'
        BY <2>1 DEF RunIInv, TypeOK, OpenEnded
    <2>3. FoldInv'
        BY <2>1, SameWorlds DEF RunIInv, FoldInv
    <2>4. StopInv'
        <3>1. budget.wall \in Nat /\ clock \in Nat
            BY DEF RunIInv, TypeOK
        <3> QED BY <2>1, <3>1 DEF RunIInv, StopInv, MayStartWorld, WorldsExhausted, WallExpired, OpenEnded
    <2>5. BudgetInv' /\ VerdictInv' /\ Claims'
        BY <2>1, NothingClaimed DEF RunIInv, BudgetInv, VerdictInv
    <2> QED BY <2>2, <2>3, <2>4, <2>5 DEF RunIInv
<1>2. CASE Cancel
    <2>1. /\ canceled' = TRUE /\ pc # "done"
          /\ UNCHANGED <<profile, budget, expected, lock, clock, pc, worlds, started,
                         runOutcome, verdict, exit>>
        BY <1>2 DEF Cancel
    <2>2. TypeOK'
        BY <2>1 DEF RunIInv, TypeOK, OpenEnded
    <2>3. FoldInv' /\ StopInv'
        BY <2>1, SameWorlds
           DEF RunIInv, FoldInv, StopInv, MayStartWorld, WorldsExhausted, WallExpired, OpenEnded
    <2>4. BudgetInv' /\ VerdictInv' /\ Claims'
        BY <2>1, NothingClaimed DEF RunIInv, BudgetInv, VerdictInv
    <2> QED BY <2>2, <2>3, <2>4 DEF RunIInv
<1>3. CASE StartWorld
    <2>1. /\ pc = "loop" /\ pc' = "world" /\ started' = started + 1 /\ ~WorldsExhausted
          /\ UNCHANGED <<profile, budget, expected, lock, clock, canceled, worlds,
                         runOutcome, verdict, exit>>
        BY <1>3 DEF StartWorld, MayStartWorld
    <2>2. started = Len(worlds) /\ started \in Nat /\ budget.worlds \in Int
        BY <2>1 DEF RunIInv, TypeOK
    <2>3. (~OpenEnded(budget) => started <= budget.worlds)'
        BY <2>1, <2>2 DEF WorldsExhausted, OpenEnded
    <2>4. canceled' \in BOOLEAN
        BY <2>1 DEF RunIInv, TypeOK
    <2>5. TypeOK'
        BY <2>1, <2>2, <2>3, <2>4 DEF RunIInv, TypeOK
    <2>6. FoldInv' /\ StopInv'
        BY <2>1, SameWorlds DEF RunIInv, FoldInv, StopInv
    <2>7. BudgetInv' /\ VerdictInv' /\ Claims'
        BY <2>1, NothingClaimed DEF RunIInv, BudgetInv, VerdictInv
    <2> QED BY <2>5, <2>6, <2>7 DEF RunIInv
<1>4. CASE BudgetStops
    <2>1. /\ pc = "loop" /\ pc' = "fold" /\ ~MayStartWorld
          /\ UNCHANGED <<profile, budget, expected, lock, clock, canceled, worlds, started,
                         runOutcome, verdict, exit>>
        BY <1>4 DEF BudgetStops
    <2>2. canceled' \in BOOLEAN
        BY <2>1 DEF RunIInv, TypeOK
    <2>3. TypeOK'
        BY <2>1, <2>2 DEF RunIInv, TypeOK, OpenEnded
    <2>4. FoldInv' /\ StopInv'
        BY <2>1, SameWorlds
           DEF RunIInv, FoldInv, StopInv, MayStartWorld, WorldsExhausted, WallExpired, OpenEnded
    <2>5. BudgetInv' /\ VerdictInv' /\ Claims'
        BY <2>1, NothingClaimed DEF RunIInv, BudgetInv, VerdictInv
    <2> QED BY <2>3, <2>4, <2>5 DEF RunIInv
<1>5. CASE CancelStops
    <2>1. /\ pc = "loop" /\ pc' = "fold" /\ runOutcome' = "canceled"
          /\ UNCHANGED <<profile, budget, expected, lock, clock, canceled, worlds, started,
                         verdict, exit>>
        BY <1>5 DEF CancelStops
    <2>2. canceled' \in BOOLEAN
        BY <2>1 DEF RunIInv, TypeOK
    <2>3. TypeOK'
        BY <2>1, <2>2 DEF RunIInv, TypeOK, OpenEnded, Outcomes
    <2>4. FoldInv' /\ StopInv'
        BY <2>1, SameWorlds DEF RunIInv, FoldInv, StopInv, WorldOutcome
    <2>5. BudgetInv' /\ VerdictInv' /\ Claims'
        BY <2>1, NothingClaimed DEF RunIInv, BudgetInv, VerdictInv
    <2> QED BY <2>3, <2>4, <2>5 DEF RunIInv
<1>6. CASE Fold
    BY <1>6, FoldKeeps
<1>7. CASE \E o \in WorldOutcome : FinishWorld(o)
    BY <1>7, FinishKeeps
<1>8. CASE UNCHANGED vars
    BY <1>8, SameWorlds
       DEF vars, RunIInv, TypeOK, OpenEnded, BudgetInv, FoldInv, StopInv, MayStartWorld,
           WorldsExhausted, WallExpired, VerdictInv, Claims, PassMeansGatePerformed,
           FailIffViolation, ExitIsTruthful, NarrowedIsNotLocked
<1> QED BY <1>1, <1>2, <1>3, <1>4, <1>5, <1>6, <1>7, <1>8 DEF Next

LEMMA RunAlways == Spec => []RunIInv
BY RunInitIInv, RunNextIInv, PTL DEF Spec

\* Run's state has the types of the code's, whatever the profile and the command
\* line, and a finite budget is never overrun.
THEOREM RunTypeOK == Spec => []TypeOK
<1>1. RunIInv => TypeOK
    BY DEF RunIInv
<1> QED BY <1>1, RunAlways, PTL

\* A PASS is that of every world, and of as many worlds and as much wall clock as
\* the profile asks for: no --worlds or --budget earns one for less.
THEOREM PassIsEarned == Spec => []PassMeansGatePerformed
<1>1. RunIInv => PassMeansGatePerformed
    BY DEF RunIInv, Claims
<1> QED BY <1>1, RunAlways, PTL

\* The verdict is FAIL exactly when a world violated an oracle: neither the fold
\* nor a narrowing, an expiry or a cancellation hides one or makes one up.
THEOREM FailIsViolation == Spec => []FailIffViolation
<1>1. RunIInv => FailIffViolation
    BY DEF RunIInv, Claims
<1> QED BY <1>1, RunAlways, PTL

\* The exit code says what the verdict says, calibrated or not.
THEOREM ExitTellsTheVerdict == Spec => []ExitIsTruthful
<1>1. RunIInv => ExitIsTruthful
    BY DEF RunIInv, Claims
<1> QED BY <1>1, RunAlways, PTL

\* Together: the verdict and the exit code of every run are earned.
THEOREM RunTellsTheTruth == Spec => []RunIsTruthful
<1>1. PassMeansGatePerformed /\ FailIffViolation /\ ExitIsTruthful => RunIsTruthful
    BY DEF RunIsTruthful
<1> QED BY <1>1, PassIsEarned, FailIsViolation, ExitTellsTheVerdict, PTL

\* A gate the command line moved is never reported as the locked one.
THEOREM NarrowedRunIsMarked == Spec => []NarrowedIsNotLocked
<1>1. RunIInv => NarrowedIsNotLocked
    BY DEF RunIInv, Claims
<1> QED BY <1>1, RunAlways, PTL

-----------------------------------------------------------------------------
(* SlotPool                                                                *)

\* A request below next was answered or is being run by a lane.
RequestInv ==
    /\ \A r \in Request : r < next => out[r] # "none" \/ \E s \in Slot : running[s] = r
    /\ at \in {"join", "done"} <=> next = Requests + 1
    /\ at = "done" => Busy = {}

\* While Run is about to wait, or waits, a world runs that will wake it.
WaitInv == at \in {"deaf", "asleep"} => free = {} /\ Busy # {}

PoolIInv ==
    /\ PoolTypeOK
    /\ LanesAreExclusive
    /\ NoWorldOnALeak
    /\ ExhaustedIsTrue
    /\ RequestInv
    /\ WaitInv

-----------------------------------------------------------------------------
LEMMA SlotsAreFinite ==
    /\ IsFiniteSet(Slot) /\ Cardinality(Slot) = Workers
    /\ IsFiniteSet(Busy)
<1>1. Workers \in Nat \ {0}
    BY PoolAssumption
<1>2. IsFiniteSet(Slot) /\ Cardinality(Slot) = Workers
    BY <1>1, FS_Interval DEF Slot
<1>3. Busy \in SUBSET Slot
    BY DEF Busy
<1> QED BY <1>2, <1>3, FS_Subset

LEMMA PoolInitIInv == PoolInit => PoolIInv
<1> SUFFICES ASSUME PoolInit PROVE PoolIInv
    OBVIOUS
<1> USE PoolAssumption
<1>1. Busy = {}
    BY DEF PoolInit, Busy
<1>2. PoolTypeOK
    <2>1. ctxOver \in BOOLEAN
        BY DEF PoolInit
    <2>2. running \in [Slot -> Request \cup {0}] /\ project \in [Slot -> {"absent", "up", "leaked"}]
        BY DEF PoolInit
    <2>3. out \in [Request -> Outcome]
        BY DEF PoolInit, Outcome
    <2>4. next \in 1..(Requests + 1) /\ inflight \in 0..Workers
        BY DEF PoolInit
    <2> QED BY <2>1, <2>2, <2>3, <2>4 DEF PoolInit, PoolTypeOK
<1>3. LanesAreExclusive
    <2>1. Cardinality({}) = 0
        BY FS_EmptySet
    <2> QED BY <1>1, <2>1 DEF PoolInit, LanesAreExclusive
<1>4. NoWorldOnALeak /\ ExhaustedIsTrue /\ RequestInv /\ WaitInv
    BY <1>1 DEF PoolInit, NoWorldOnALeak, ExhaustedIsTrue, RequestInv, WaitInv, Request, pool
<1> QED BY <1>2, <1>3, <1>4 DEF PoolIInv

\* The lane that is handed out is a free one.
LEMMA LowestIsFree ==
    ASSUME free \subseteq Slot, free # {}
    PROVE  Lowest \in free
<1>1. free \subseteq Nat
    BY PoolAssumption DEF Slot
<1>2. PICK s \in free : \A t \in free : ~(<<t, s>> \in OpToRel(<, Nat))
    BY <1>1, NatLessThanWellFounded, WFMin
<1>3. \A t \in free : ~(t < s)
    BY <1>1, <1>2 DEF OpToRel
<1>4. \A t \in free : s <= t
    BY <1>1, <1>3
<1> QED BY <1>4 DEF Lowest

\* What Proceed does to Run's place in the batch.
LEMMA ProceedKeeps ==
    ASSUME PoolIInv, at \notin {"join", "done"}, Proceed
    PROVE  /\ next' \in 1..(Requests + 1) /\ next' = next + 1
           /\ at' \in {"submit", "join"} /\ watch' = "off"
           /\ at' = "join" <=> next' = Requests + 1
BY PoolAssumption DEF Proceed, PoolIInv, PoolTypeOK, RequestInv

LEMMA PoolNextIInv == PoolIInv /\ [PoolNext]_poolVars => PoolIInv'
<1> SUFFICES ASSUME PoolIInv, [PoolNext]_poolVars PROVE PoolIInv'
    OBVIOUS
<1> USE PoolAssumption DEF pool
<1>0. PoolTypeOK /\ LanesAreExclusive /\ NoWorldOnALeak /\ ExhaustedIsTrue /\ RequestInv /\ WaitInv
    BY DEF PoolIInv
<1>1. CASE CancelBatch
    <2>1. UNCHANGED <<next, at, watch, free, inflight, retired, running, project, out, fatal>>
          /\ ctxOver' \in BOOLEAN
        BY <1>1 DEF CancelBatch
    <2>2. Busy' = Busy
        BY <2>1 DEF Busy
    <2> QED BY <1>0, <2>1, <2>2 DEF PoolIInv, PoolTypeOK, LanesAreExclusive, NoWorldOnALeak,
            ExhaustedIsTrue, RequestInv, WaitInv
<1>2. CASE Watchdog
    <2>1. /\ UNCHANGED <<next, ctxOver, free, inflight, retired, running, project, out, fatal>>
          /\ watch' = "fired" /\ at' = (IF at = "asleep" THEN "acquire" ELSE at)
        BY <1>2 DEF Watchdog, Broadcast
    <2>2. Busy' = Busy
        BY <2>1 DEF Busy
    <2>3. PoolTypeOK'
        BY <1>0, <2>1 DEF PoolTypeOK
    <2>4. RequestInv' /\ WaitInv'
        BY <1>0, <2>1, <2>2 DEF RequestInv, WaitInv
    <2> QED BY <1>0, <2>1, <2>2, <2>3, <2>4 DEF PoolIInv, LanesAreExclusive, NoWorldOnALeak, ExhaustedIsTrue
<1>3. CASE Skip
    <2>1. /\ UNCHANGED <<ctxOver, free, inflight, retired, running, project, fatal>>
          /\ out' = [out EXCEPT ![next] = "canceled"] /\ at = "submit" /\ Proceed
        BY <1>3 DEF Skip
    <2>2. Busy' = Busy
        BY <2>1 DEF Busy
    <2>3. /\ next' \in 1..(Requests + 1) /\ next' = next + 1
          /\ at' \in {"submit", "join"} /\ watch' = "off"
          /\ at' = "join" <=> next' = Requests + 1
        BY <2>1, ProceedKeeps
    <2>4. next \in Request
        BY <1>0, <2>1 DEF PoolTypeOK, RequestInv, Request
    <2>5. PoolTypeOK'
        BY <1>0, <2>1, <2>3, <2>4 DEF PoolTypeOK, Outcome, LaneOutcome
    <2>6. RequestInv'
        BY <1>0, <2>1, <2>3, <2>4 DEF RequestInv, PoolTypeOK, Request
    <2> QED BY <1>0, <2>1, <2>2, <2>3, <2>5, <2>6 DEF PoolIInv, LanesAreExclusive, NoWorldOnALeak,
            ExhaustedIsTrue, WaitInv
<1>4. CASE Submit \/ Wait
    <2>1. /\ UNCHANGED <<next, ctxOver, free, inflight, retired, running, project, out, fatal>>
          /\ watch' \in {"armed", watch}
          /\ \/ at = "submit" /\ at' = "acquire"
             \/ at = "deaf" /\ at' = "asleep"
        BY <1>4 DEF Submit, Wait
    <2>2. Busy' = Busy
        BY <2>1 DEF Busy
    <2>3. PoolTypeOK'
        BY <1>0, <2>1 DEF PoolTypeOK
    <2>4. RequestInv' /\ WaitInv'
        BY <1>0, <2>1, <2>2 DEF RequestInv, WaitInv
    <2> QED BY <1>0, <2>1, <2>2, <2>3, <2>4 DEF PoolIInv, LanesAreExclusive, NoWorldOnALeak, ExhaustedIsTrue
<1>5. CASE Decide
    <2>1. /\ UNCHANGED <<next, watch, ctxOver, free, inflight, retired, running, project, out, fatal>>
          /\ at = "acquire" /\ at' = "deaf" /\ free = {} /\ inflight # 0
        BY <1>5 DEF Decide, MustRefuse
    <2>2. Busy' = Busy
        BY <2>1 DEF Busy
    <2>3. Busy # {}
        BY <1>0, <2>1, FS_EmptySet DEF LanesAreExclusive
    <2>4. PoolTypeOK' /\ RequestInv' /\ WaitInv'
        BY <1>0, <2>1, <2>2, <2>3 DEF PoolTypeOK, RequestInv, WaitInv
    <2> QED BY <1>0, <2>1, <2>2, <2>4 DEF PoolIInv, LanesAreExclusive, NoWorldOnALeak, ExhaustedIsTrue
<1>6. CASE Join
    <2>1. /\ UNCHANGED <<next, watch, ctxOver, free, inflight, retired, running, project, out, fatal>>
          /\ at = "join" /\ at' = "done" /\ \A s \in Slot : running[s] = 0
        BY <1>6 DEF Join
    <2>2. Busy' = Busy /\ Busy = {}
        BY <2>1 DEF Busy
    <2>4. PoolTypeOK' /\ RequestInv' /\ WaitInv'
        BY <1>0, <2>1, <2>2 DEF PoolTypeOK, RequestInv, WaitInv
    <2> QED BY <1>0, <2>1, <2>2, <2>4 DEF PoolIInv, LanesAreExclusive, NoWorldOnALeak, ExhaustedIsTrue
<1>7. CASE Refuse
    <2>1. /\ UNCHANGED <<ctxOver, free, inflight, retired, running, project>>
          /\ out' = [out EXCEPT ![next] = "harness_error"] /\ at = "acquire" /\ free = {} /\ Proceed
          /\ ctxOver \/ inflight = 0
          /\ fatal' = IF fatal # "none" THEN fatal ELSE IF ctxOver THEN "canceled" ELSE "exhausted"
        BY <1>7 DEF Refuse, Refused, MustRefuse
    <2>2. Busy' = Busy
        BY <2>1 DEF Busy
    <2>3. /\ next' \in 1..(Requests + 1) /\ next' = next + 1
          /\ at' \in {"submit", "join"} /\ watch' = "off"
          /\ at' = "join" <=> next' = Requests + 1
        BY <2>1, ProceedKeeps
    <2>4. next \in Request
        BY <1>0, <2>1 DEF PoolTypeOK, RequestInv, Request
    <2>5. PoolTypeOK'
        <3>1. out' \in [Request -> Outcome]
            BY <1>0, <2>1, <2>4 DEF PoolTypeOK, Outcome, LaneOutcome
        <3>2. fatal' \in {"none", "canceled", "exhausted"}
            BY <1>0, <2>1 DEF PoolTypeOK
        <3> QED BY <1>0, <2>1, <2>3, <3>1, <3>2 DEF PoolTypeOK
    <2>6. RequestInv'
        BY <1>0, <2>1, <2>3, <2>4 DEF RequestInv, PoolTypeOK, Request
    <2>7. ExhaustedIsTrue'
        <3>1. CASE inflight = 0
            <4>1. Busy = {}
                BY <1>0, <3>1, SlotsAreFinite, FS_EmptySet DEF LanesAreExclusive
            <4> QED BY <1>0, <2>1, <4>1 DEF LanesAreExclusive, ExhaustedIsTrue
        <3>2. CASE ctxOver
            BY <1>0, <2>1, <3>2 DEF ExhaustedIsTrue
        <3> QED BY <2>1, <3>1, <3>2
    <2> QED BY <1>0, <2>1, <2>2, <2>3, <2>5, <2>6, <2>7 DEF PoolIInv, LanesAreExclusive, NoWorldOnALeak, WaitInv
<1>8. CASE Acquire
    <2>1. Lowest \in free /\ Lowest \in Slot
        BY <1>0, <1>8, LowestIsFree DEF Acquire, PoolTypeOK
    <2> DEFINE l == Lowest
    <2>2. /\ UNCHANGED <<ctxOver, retired, out, fatal>>
          /\ at = "acquire" /\ Proceed
          /\ free' = free \ {l} /\ inflight' = inflight + 1
          /\ running' = [running EXCEPT ![l] = next]
          /\ project' = [project EXCEPT ![l] = "up"]
        BY <1>8 DEF Acquire
    <2>3. /\ next' \in 1..(Requests + 1) /\ next' = next + 1
          /\ at' \in {"submit", "join"} /\ watch' = "off"
          /\ at' = "join" <=> next' = Requests + 1
        BY <2>2, ProceedKeeps
    <2>4. next \in Request /\ next # 0
        BY <1>0, <2>2 DEF PoolTypeOK, RequestInv, Request
    <2> HIDE DEF l
    <2>5. l \in free /\ l \in Slot /\ l \notin Busy /\ l \notin retired
        BY <1>0, <2>1 DEF l, LanesAreExclusive
    <2>6. Busy' = Busy \cup {l}
        BY <1>0, <2>2, <2>4, <2>5 DEF Busy, PoolTypeOK
    <2>7. Cardinality(Busy') = inflight + 1
        BY <1>0, <2>5, <2>6, SlotsAreFinite, FS_AddElement DEF LanesAreExclusive
    <2>8. Busy' \in SUBSET Slot /\ inflight' \in 0..Workers
        <3>1. Busy' \in SUBSET Slot
            BY <2>5, <2>6 DEF Busy
        <3>2. Cardinality(Busy') <= Workers
            BY <3>1, SlotsAreFinite, FS_Subset
        <3> QED BY <1>0, <2>2, <2>7, <3>1, <3>2 DEF PoolTypeOK
    <2>9. PoolTypeOK'
        <3>1. running' \in [Slot -> Request \cup {0}]
            BY <1>0, <2>2, <2>4, <2>5 DEF PoolTypeOK
        <3>2. project' \in [Slot -> {"absent", "up", "leaked"}]
            BY <1>0, <2>2, <2>5 DEF PoolTypeOK
        <3> QED BY <1>0, <2>2, <2>3, <2>8, <3>1, <3>2 DEF PoolTypeOK
    <2>10. LanesAreExclusive'
        BY <1>0, <2>2, <2>5, <2>6, <2>7 DEF LanesAreExclusive
    <2>11. NoWorldOnALeak' /\ ExhaustedIsTrue'
        BY <1>0, <2>2, <2>5 DEF NoWorldOnALeak, ExhaustedIsTrue, PoolTypeOK
    <2>12. RequestInv'
        <3>1. ASSUME NEW r \in Request, r < next'
              PROVE  out'[r] # "none" \/ \E s \in Slot : running'[s] = r
            <4>1. CASE r = next
                BY <1>0, <2>2, <2>5, <4>1 DEF PoolTypeOK
            <4>2. CASE r # next
                <5>1. r < next
                    BY <1>0, <2>3, <3>1, <4>2 DEF PoolTypeOK, Request
                <5>2. CASE out[r] # "none"
                    BY <2>2, <5>2
                <5>3. CASE \E s \in Slot : running[s] = r
                    <6>1. PICK s \in Slot : running[s] = r
                        BY <5>3
                    <6>2. s # l
                        BY <2>5, <6>1 DEF Busy, Request
                    <6> QED BY <1>0, <2>2, <6>1, <6>2 DEF PoolTypeOK
                <5> QED BY <1>0, <5>1, <5>2, <5>3 DEF RequestInv
            <4> QED BY <4>1, <4>2
        <3> QED BY <2>3, <3>1 DEF RequestInv
    <2>13. WaitInv'
        BY <2>3 DEF WaitInv
    <2> QED BY <2>9, <2>10, <2>11, <2>12, <2>13 DEF PoolIInv
<1>9. ASSUME NEW s \in Slot, Finish(s) PROVE PoolIInv'
    <2>1. PICK o \in LaneOutcome : Ends(s, o)
        BY <1>9 DEF Finish, Retire, Release, LaneOutcome
    <2>2. /\ UNCHANGED <<next, watch, ctxOver, fatal>>
          /\ at' = (IF at = "asleep" THEN "acquire" ELSE at)
          /\ \/ free' = free \cup {s} /\ retired' = retired /\ project' = [project EXCEPT ![s] = "absent"]
             \/ /\ retired' = retired \cup {s} /\ free' = free
                /\ \E p \in {"absent", "leaked"} : project' = [project EXCEPT ![s] = p]
        BY <1>9 DEF Finish, Retire, Release, Broadcast, Withdrawn, RetireWakes
    <2>3. /\ at # "deaf" /\ running[s] # 0
          /\ out' = [out EXCEPT ![running[s]] = o]
          /\ running' = [running EXCEPT ![s] = 0]
          /\ inflight' = inflight - 1
        BY <2>1 DEF Ends, MutexFree
    <2>4. running[s] \in Request /\ s \in Busy /\ s \notin free /\ s \notin retired
        BY <1>0, <2>3 DEF PoolTypeOK, Busy, LanesAreExclusive
    <2>5. Busy' = Busy \ {s}
        BY <1>0, <2>3 DEF Busy, PoolTypeOK
    <2>6. Cardinality(Busy') = inflight' /\ inflight' \in 0..Workers
        <3>1. Cardinality(Busy') = inflight'
            BY <1>0, <2>3, <2>4, <2>5, SlotsAreFinite, FS_RemoveElement DEF LanesAreExclusive
        <3>2. Cardinality(Busy') \in Nat
            BY <2>5, SlotsAreFinite, FS_RemoveElement, FS_CardinalityType
        <3> QED BY <1>0, <2>3, <3>1, <3>2 DEF PoolTypeOK
    <2>7. PoolTypeOK'
        <3>1. running' \in [Slot -> Request \cup {0}]
            BY <1>0, <2>3 DEF PoolTypeOK
        <3>2. project' \in [Slot -> {"absent", "up", "leaked"}]
            BY <1>0, <2>2 DEF PoolTypeOK
        <3>3. out' \in [Request -> Outcome]
            BY <1>0, <2>1, <2>3, <2>4 DEF PoolTypeOK, Outcome
        <3>4. free' \subseteq Slot /\ retired' \subseteq Slot
            BY <1>0, <2>2 DEF PoolTypeOK
        <3> QED BY <1>0, <2>2, <2>6, <3>1, <3>2, <3>3, <3>4 DEF PoolTypeOK
    <2>8. LanesAreExclusive'
        BY <1>0, <2>2, <2>4, <2>5, <2>6 DEF LanesAreExclusive
    <2>9. NoWorldOnALeak' /\ ExhaustedIsTrue'
        <3>1. NoWorldOnALeak'
            BY <1>0, <2>2, <2>4 DEF NoWorldOnALeak, PoolTypeOK
        <3>2. ExhaustedIsTrue'
            BY <1>0, <2>2, <2>4 DEF ExhaustedIsTrue
        <3> QED BY <3>1, <3>2
    <2>10. RequestInv'
        <3>1. ASSUME NEW r \in Request, r < next'
              PROVE  out'[r] # "none" \/ \E t \in Slot : running'[t] = r
            <4>1. CASE r = running[s]
                BY <1>0, <2>1, <2>3, <2>4, <4>1 DEF PoolTypeOK, LaneOutcome
            <4>2. CASE r # running[s]
                <5>1. out'[r] = out[r]
                    BY <1>0, <2>3, <4>2 DEF PoolTypeOK
                <5>2. \A t \in Slot : running[t] = r => running'[t] = r
                    BY <1>0, <2>3, <4>2 DEF PoolTypeOK
                <5> QED BY <1>0, <2>2, <3>1, <5>1, <5>2 DEF RequestInv
            <4> QED BY <4>1, <4>2
        <3>2. at # "done"
            BY <1>0, <2>4 DEF RequestInv
        <3> QED BY <1>0, <2>2, <3>1, <3>2 DEF RequestInv
    <2>11. WaitInv'
        BY <1>0, <2>2, <2>3 DEF WaitInv
    <2> QED BY <2>7, <2>8, <2>9, <2>10, <2>11 DEF PoolIInv
<1>10. CASE UNCHANGED poolVars
    <2>1. Busy' = Busy
        BY <1>10 DEF Busy, poolVars
    <2> QED BY <1>0, <1>10, <2>1 DEF poolVars, PoolIInv, PoolTypeOK, LanesAreExclusive, NoWorldOnALeak,
            ExhaustedIsTrue, RequestInv, WaitInv
<1> QED BY <1>1, <1>2, <1>3, <1>4, <1>5, <1>6, <1>7, <1>8, <1>9, <1>10 DEF PoolNext, Run

-----------------------------------------------------------------------------
\* Every state of a batch satisfies the invariant.
LEMMA PoolAlways == PoolSpec => []PoolIInv
BY PoolInitIInv, PoolNextIInv, PTL DEF PoolSpec

\* Type correctness, for any number of lanes and requests.
THEOREM SlotPoolTypeOK == PoolSpec => []PoolTypeOK
<1>1. PoolIInv => PoolTypeOK
    BY DEF PoolIInv
<1> QED BY <1>1, PoolAlways, PTL

\* No lane is held by two worlds, and none is lost (slotPool's free, inflight
\* and retired).
THEOREM LanesStayExclusive == PoolSpec => []LanesAreExclusive
<1>1. PoolIInv => LanesAreExclusive
    BY DEF PoolIInv
<1> QED BY <1>1, PoolAlways, PTL

\* No lane is free while a project is left on it (release and retire).
THEOREM LeaksAreNotReused == PoolSpec => []NoWorldOnALeak
<1>1. PoolIInv => NoWorldOnALeak
    BY DEF PoolIInv
<1> QED BY <1>1, PoolAlways, PTL

\* A batch is declared exhausted only when every lane is retired (acquire and
\* exhaustedLocked).
THEOREM ExhaustionIsReal == PoolSpec => []ExhaustedIsTrue
<1>1. PoolIInv => ExhaustedIsTrue
    BY DEF PoolIInv
<1> QED BY <1>1, PoolAlways, PTL

\* A waiter sleeps only while a world runs whose end will wake it (acquire's
\* cond.Wait).
THEOREM SleepersAreWoken == PoolSpec => []SleeperHasAWaker
<1>1. PoolIInv => SleeperHasAWaker
    BY DEF PoolIInv, WaitInv, SleeperHasAWaker
<1> QED BY <1>1, PoolAlways, PTL

\* A batch that has returned has answered every request (ParallelRunner.Run).
THEOREM NoRequestIsDropped == PoolSpec => []EveryRequestAnswered
<1>1. PoolIInv => EveryRequestAnswered
    <2> SUFFICES ASSUME PoolIInv, at = "done", NEW r \in Request
                 PROVE  out[r] # "none"
        BY DEF EveryRequestAnswered
    <2>1. r < next
        BY PoolAssumption DEF PoolIInv, RequestInv, PoolTypeOK, Request
    <2>2. \A s \in Slot : running[s] # r
        BY DEF PoolIInv, RequestInv, Busy, Request
    <2> QED BY <2>1, <2>2 DEF PoolIInv, RequestInv
<1> QED BY <1>1, PoolAlways, PTL

-----------------------------------------------------------------------------
(* Shrink                                                                  *)

\* What the variables range over.
Signals == {"reproduced", "rejected", "unknown"}
Sets == SUBSET DOMAIN Windows
World == [faults : UNION {[d -> Nat \X Nat] : d \in Sets}, ops : SUBSET Nat]
Stops == {Complete, "canceled", "wall", "worlds", "unjudgeable", "not_reproduced"}
Evidence == [own : Nat, any : Nat]

\* The typing of the program's own variables.
ShrinkTyped ==
    /\ opt \in Options /\ interrupted \in BOOLEAN /\ expired \in BOOLEAN
    /\ spent \in Nat /\ reserve \in Nat /\ granted \in Nat
    /\ level \in {"key", "class"} /\ since \in {"key", "class"}
    /\ mayCalibrate \in BOOLEAN /\ calibrated \in BOOLEAN /\ reprobes \in Nat
    /\ drifts \subseteq {"reduced", "unreduced"} /\ wholeDrifted \in BOOLEAN
    /\ DOMAIN cache \subseteq World /\ cache \in [DOMAIN cache -> Signals]
    /\ cpc \in {"idle", "round", "run", "judge", "reprobe", "settle", "answer"}
    /\ reason \in Stops
    /\ answer \in [index : Nat, signal : Signals, stop : Stops]
    /\ stage \in {"baseline", "probe", "done", "killed"} \cup Reducing
    /\ Current \in World
    /\ gran \in Nat /\ half \in {"parts", "complements", "empty", "over"}
    /\ window \in [fault : Nat, side : {"end", "start"}, lo : Nat, hi : Nat, probes : Nat]
    /\ trials \in Nat /\ reproduced \in Nat /\ entry \in Entry
    /\ grounds \in [of : World, shown : Evidence]

\* c is d with some of it taken away: fewer faults, shorter windows, fewer
\* operations.  Every candidate is below the world it was cut from.
Leq(c, d) ==
    /\ DOMAIN c.faults \subseteq DOMAIN d.faults /\ c.ops \subseteq d.ops
    /\ \A f \in DOMAIN c.faults :
           d.faults[f][1] <= c.faults[f][1] /\ c.faults[f][2] <= d.faults[f][2]

\* What a history of executions counts for at a level.
Weight(l, e) == IF l = "class" THEN e.any ELSE e.own

\* What ddmin is about to offer of c.
Offers(c) ==
    /\ half \in {"parts", "complements"} => gran \in 2 .. Cardinality(c)
    /\ half = "complements" => gran > 2
    /\ half = "empty" => Cardinality(c) = 1

\* ddmin only drops faults, with their windows as they were, until the narrowing;
\* while it does, the whole workload is kept and the memo knows of nothing less.
ListInv ==
    /\ stage \in {"baseline", "probe"} => faults = Windows /\ (half = "over" => DOMAIN faults = {})
    /\ stage \in {"baseline", "probe", "faults", "ops"} => faults = Restrict(Windows, DOMAIN faults)
    /\ stage \in {"baseline", "probe", "faults"} =>
          /\ ops = Every /\ Offers(DOMAIN faults)
          /\ \A c \in DOMAIN cache : c.ops = Every
    /\ stage = "ops" => ops \subseteq AllOps /\ Offers(ops)

\* The window bisected belongs to a fault that survives, and the end not being
\* moved is still the fault's own.
WindowInv ==
    stage = "narrow" =>
        /\ window.fault \in DOMAIN faults /\ More(window)
        /\ window.side = "end" =>
               faults[window.fault][1] <= window.lo /\ window.hi = faults[window.fault][2]
        /\ window.side = "start" =>
               window.lo = faults[window.fault][1] /\ window.hi <= faults[window.fault][2]

\* What is evidence about the unreduced world came from executing it, and nothing
\* else lowers the level.
RelaxInv ==
    /\ "unreduced" \in drifts => opt.baseline /\ wholeDrifted
    /\ mayCalibrate => opt.typed = "default"
    /\ stage = "baseline" => opt.baseline
    /\ stage = "probe" => opt.baseline /\ opt.typed = "default"
    /\ since = "class" => level = "class"
    /\ OnlyTheWorldItselfRelaxes

\* c has been judged, and was not accepted.
Judged(c) == c \in DOMAIN cache /\ cache[c] # "reproduced"

\* The position of an element in a list; of a candidate in its round, and whether
\* an execution hit it.
RankOf(c, e) == Cardinality({x \in c : x <= e})
Place(i) == RankOf(pending, i)
Hit(i, l) ==
    IF i \in pending /\ Place(i) <= Len(got) /\ Signal(got[Place(i)], l) = "reproduced" THEN 1 ELSE 0

\* The stages that ask the prober, and the open half of a call.
Asking ==
    /\ stage \in {"baseline", "faults", "ops", "narrow"}
    /\ stage \in {"faults", "ops"} => half # "over"

Open == cpc \in {"round", "run", "judge", "reprobe", "settle"}

\* Between two calls the prober holds nothing of the last one.
AskedInv ==
    /\ cpc # "idle" =>
          /\ Asking
          /\ shown \in [1 .. Len(Candidates) -> Evidence]
          /\ \A i \in 1 .. Len(Candidates) : shown[i].own <= shown[i].any
    /\ cpc = "idle" => answer = Silence
    /\ cpc \in {"idle", "round", "answer"} => got = <<>>
    /\ stage = "baseline" /\ cpc = "idle" => cache = <<>>

\* A round has executed a prefix of the candidates that are open; what a candidate
\* was credited with was shown, at the level in force and at the one below it.
OpenInv ==
    Open =>
        /\ pending \subseteq 1 .. Len(Candidates) /\ pending # {}
        /\ stage = "baseline" => pending = {1}
        /\ tallies \in [1 .. Len(Candidates) -> [hits : Nat, misses : Nat, unknowns : Nat]]
        /\ got \in Seq(Attempts) /\ Len(got) <= Cardinality(pending)
        /\ cpc = "run" => Len(got) < granted /\ granted <= Cardinality(pending)
        /\ \A i \in pending : Candidates[i] \notin DOMAIN cache
        /\ stage = "faults" /\ level = since =>
               \A i \in 1 .. Len(Candidates) : i \notin pending => Judged(Candidates[i])
        /\ \A i \in 1 .. Len(Candidates) : \A l \in {level, "class"} :
               tallies[i].hits + Hit(i, l) <= Weight(l, shown[i])
        /\ \A j \in 1 .. Len(got) :
               Candidates[At(j)] = Whole /\ Drifts(got[j], "key") => wholeDrifted

\* A candidate accepted was shown to fail often enough at the level in force; a
\* call that ran to its end without one has judged every candidate.
AnswerInv ==
    cpc = "answer" =>
        /\ answer.index \in 0 .. Len(Candidates)
        /\ answer.index # 0 =>
               answer.stop = Complete /\ Weight(level, shown[answer.index]) >= opt.accept
        /\ answer.index = 0 /\ stage = "baseline" => answer.signal # "reproduced"
        /\ answer.index = 0 /\ stage = "faults" /\ level = since /\ answer.stop = Complete =>
               \A i \in 1 .. Len(Candidates) : Judged(Candidates[i])

\* The smallest world accepted so far.  The memo holds no other acceptance at or
\* below it, so a candidate about to be offered is never in it as accepted: what
\* is accepted was executed by the call that asked.
Accepted == IF cpc = "answer" /\ answer.index # 0 THEN Candidates[answer.index] ELSE Current

MemoInv ==
    \A c \in DOMAIN cache : cache[c] = "reproduced" /\ Leq(c, Accepted) => c = Accepted

\* What survives was seen to fail.
GroundsInv ==
    /\ grounds.shown.own <= grounds.shown.any
    /\ stage = "probe" => grounds.of = Whole /\ Weight(level, grounds.shown) >= opt.accept
    /\ SurvivorsReproduced

\* Leaving out any one of the faults was judged, and not accepted.
Minimal ==
    \A f \in DOMAIN faults :
        Judged([faults |-> Restrict(Windows, DOMAIN faults \ {f}), ops |-> Every])

\* ddmin over the faults ends only at such a world, if the level it began at is
\* the one in force.
MinimalInv ==
    stage \in {"ops", "narrow"} \/ (stage = "faults" /\ half = "over") =>
        (level = since => Minimal)

\* The gate counts each replay once, and the plan is written last.
GateInv ==
    /\ reproduced <= trials /\ trials <= ConfirmK
    /\ stage \in {"baseline", "probe", "faults", "ops", "narrow", "gate"} => trials = 0
    /\ stage = "confirm" => trials < ConfirmK
    /\ stage = "plan" => entry.world = "own"

ShrinkInv ==
    /\ ListInv /\ WindowInv /\ RelaxInv /\ AskedInv /\ OpenInv /\ AnswerInv
    /\ MemoInv /\ GroundsInv /\ MinimalInv /\ GateInv

-----------------------------------------------------------------------------
LEMMA RankStrict ==
    ASSUME NEW c \in SUBSET Nat, IsFiniteSet(c), NEW e \in c, NEW f \in c, e < f
    PROVE  RankOf(c, e) < RankOf(c, f)
<1> DEFINE A == {x \in c : x <= e}
           B == {x \in c : x <= f}
<1>1. IsFiniteSet(A) /\ IsFiniteSet(B)
    BY FS_Subset
<1>2. A \subseteq B /\ f \in B /\ f \notin A
    <2>1. e \in Nat /\ f \in Nat /\ \A x \in c : x \in Nat
        OBVIOUS
    <2>2. ASSUME NEW x \in c, x <= e PROVE x <= f
        BY <2>1, <2>2
    <2>3. f <= f /\ ~(f <= e)
        BY <2>1
    <2>4. A \subseteq B
        BY <2>2
    <2>5. f \in B
        BY <2>3
    <2>6. f \notin A
        BY <2>3
    <2> QED BY <2>4, <2>5, <2>6
<1>3. Cardinality(A) <= Cardinality(B) /\ Cardinality(A) # Cardinality(B)
    BY <1>1, <1>2, FS_Subset
<1> QED BY <1>1, <1>3, FS_CardinalityType DEF RankOf

LEMMA RankRange ==
    ASSUME NEW c \in SUBSET Nat, IsFiniteSet(c), NEW e \in c
    PROVE  RankOf(c, e) \in 1 .. Cardinality(c)
<1> DEFINE A == {x \in c : x <= e}
<1>1. IsFiniteSet(A) /\ Cardinality(A) <= Cardinality(c)
    BY FS_Subset
<1>2. A # {}
    OBVIOUS
<1>3. Cardinality(A) # 0
    BY <1>1, <1>2, FS_EmptySet
<1> QED BY <1>1, <1>3, FS_CardinalityType DEF RankOf

LEMMA RankSame ==
    ASSUME NEW c \in SUBSET Nat, IsFiniteSet(c), NEW e \in c, NEW f \in c, RankOf(c, e) = RankOf(c, f)
    PROVE  e = f
<1>1. RankOf(c, e) \in Nat /\ RankOf(c, f) \in Nat
    BY RankRange, FS_CardinalityType
<1>2. ~(e < f) /\ ~(f < e)
    BY <1>1, RankStrict
<1> QED BY <1>2

\* Every position is taken.
LEMMA RankOnto ==
    ASSUME NEW c \in SUBSET Nat, IsFiniteSet(c), NEW j \in 1 .. Cardinality(c)
    PROVE  \E e \in c : RankOf(c, e) = j
<1> DEFINE n == Cardinality(c)
           r == [e \in c |-> RankOf(c, e)]
<1>1. n \in Nat
    BY FS_CardinalityType
<1>2. IsFiniteSet(1 .. n) /\ Cardinality(1 .. n) = n
    BY <1>1, FS_Interval
<1>3. r \in Injection(c, 1 .. n)
    <2>1. r \in [c -> 1 .. n]
        BY RankRange
    <2>2. \A e, f \in c : r[e] = r[f] => e = f
        BY RankSame
    <2> QED BY <2>1, <2>2 DEF Injection, IsInjective
<1>4. r \in Surjection(c, 1 .. n)
    BY <1>2, <1>3, FS_Injection
<1> QED BY <1>4 DEF Surjection

LEMMA Quotients ==
    /\ \A n \in Nat \ {0} : \A a \in Nat : a \div n \in Nat /\ (a * n) \div n = a
    /\ \A n \in Nat \ {0} : \A a, b \in Nat : a <= b => a \div n <= b \div n
    /\ \A n \in Nat \ {0} : \A a, b \in Nat : a + n <= b => a \div n < b \div n
<1>1. \A n \in Nat \ {0} : \A a \in Nat : a \div n \in Nat /\ (a * n) \div n = a
    OBVIOUS
<1>2. \A n \in Nat \ {0} : \A a, b \in Nat : a <= b => a \div n <= b \div n
    OBVIOUS
<1>3. \A n \in Nat \ {0} : \A a, b \in Nat : a + n <= b => a \div n < b \div n
    OBVIOUS
<1> QED BY <1>1, <1>2, <1>3

Lists == {c \in SUBSET Nat : IsFiniteSet(c)}

\* partition gives as many parts as it is asked for, none of them empty.
LEMMA PartsAre ==
    ASSUME NEW c \in Lists, NEW n \in 2 .. Cardinality(c)
    PROVE  /\ Parts(c, n) \in [1 .. n -> SUBSET c]
           /\ \A p \in 1 .. n : Parts(c, n)[p] # {}
           /\ \A p, q \in 1 .. n : p # q => Parts(c, n)[p] \cap Parts(c, n)[q] = {}
<1> DEFINE N == Cardinality(c)
           cut(p) == (p * N) \div n
<1>1. N \in Nat \ {0} /\ n \in Nat \ {0} /\ n <= N
    BY FS_CardinalityType DEF Lists
<1>2. \A p \in 1 .. n : Parts(c, n)[p] = {e \in c : cut(p - 1) < RankOf(c, e) /\ RankOf(c, e) <= cut(p)}
    BY DEF Parts, RankOf
<1>3. \A p \in 0 .. n : p * N \in Nat /\ cut(p) \in Nat
    <2> TAKE p \in 0 .. n
    <2>1. p \in Nat
        OBVIOUS
    <2>2. p * N \in Nat
        BY <1>1, <2>1
    <2> QED BY <1>1, <2>2, Quotients
<1>4. \A p, q \in 0 .. n : p <= q => cut(p) <= cut(q)
    <2> TAKE p, q \in 0 .. n
    <2> HAVE p <= q
    <2>1. p * N <= q * N
        BY <1>1
    <2> QED BY <1>1, <1>3, <2>1, Quotients
<1>5. \A p \in 1 .. n : cut(p - 1) < cut(p)
    <2> TAKE p \in 1 .. n
    <2>1. p - 1 \in 0 .. n /\ p \in 0 .. n
        OBVIOUS
    <2>2. (p - 1) * N + N = p * N
        BY <1>1
    <2>3. (p - 1) * N + n <= p * N
        BY <1>1, <1>3, <2>1, <2>2
    <2> QED BY <1>1, <1>3, <2>1, <2>3, Quotients
<1>6. cut(n) = N
    <2>1. n * N = N * n
        BY <1>1
    <2> QED BY <1>1, <2>1, Quotients
<1>7. Parts(c, n) \in [1 .. n -> SUBSET c]
    BY DEF Parts
<1> HIDE DEF cut
<1>8. ASSUME NEW p \in 1 .. n PROVE Parts(c, n)[p] # {}
    <2>1. p - 1 \in 0 .. n /\ p \in 0 .. n /\ n \in 0 .. n /\ p <= n
        BY <1>1
    <2>2. cut(p) \in 1 .. N
        BY <1>1, <1>3, <1>4, <1>5, <1>6, <2>1
    <2>3. PICK e \in c : RankOf(c, e) = cut(p)
        BY <2>2, RankOnto DEF Lists
    <2>4. e \in Parts(c, n)[p]
        BY <1>2, <1>3, <1>5, <2>1, <2>3
    <2> QED BY <2>4
<1>9. ASSUME NEW p \in 1 .. n, NEW q \in 1 .. n, p < q
      PROVE  Parts(c, n)[p] \cap Parts(c, n)[q] = {}
    <2>1. p \in 0 .. n /\ q - 1 \in 0 .. n /\ p <= q - 1
        BY <1>1, <1>9
    <2>2. cut(p) <= cut(q - 1) /\ cut(p) \in Nat /\ cut(q - 1) \in Nat
        BY <1>3, <1>4, <2>1
    <2>3. \A e \in c : RankOf(c, e) \in Nat
        BY <1>1, RankRange DEF Lists
    <2> QED BY <1>2, <2>2, <2>3
<1>10. ASSUME NEW p \in 1 .. n, NEW q \in 1 .. n, p # q
       PROVE  Parts(c, n)[p] \cap Parts(c, n)[q] = {}
    <2>1. p < q \/ q < p
        BY <1>10
    <2> QED BY <1>9, <2>1
<1> QED BY <1>7, <1>8, <1>10

\* What ddmin offers: never the list itself, and no subset of one that is another.
LEMMA OffersAre ==
    ASSUME NEW c \in Lists, Offers(c), half \in {"parts", "complements", "empty"}
    PROVE  /\ Len(Subsets(c)) \in Nat \ {0}
           /\ Subsets(c) \in [1 .. Len(Subsets(c)) -> SUBSET c]
           /\ \A p \in 1 .. Len(Subsets(c)) : Subsets(c)[p] # c
           /\ \A p, q \in 1 .. Len(Subsets(c)) : Subsets(c)[p] \subseteq Subsets(c)[q] => p = q
<1> USE DEF Offers
<1>0. Cardinality(c) \in Nat
    BY FS_CardinalityType DEF Lists
<1>1. CASE half = "empty"
    <2>1. Subsets(c) = <<{}>>
        BY <1>1 DEF Subsets
    <2>2. c # {}
        BY <1>1, FS_EmptySet
    <2>3. Len(<<{}>>) = 1 /\ <<{}>>[1] = {}
        OBVIOUS
    <2>4. <<{}>> \in [1 .. 1 -> SUBSET c]
        OBVIOUS
    <2> QED BY <2>1, <2>2, <2>3, <2>4
<1>2. CASE half \in {"parts", "complements"}
    <2> DEFINE P == Parts(c, gran)
    <2>1. gran \in 2 .. Cardinality(c) /\ gran \in Nat \ {0}
        BY <1>0, <1>2
    <2>2. /\ P \in [1 .. gran -> SUBSET c]
          /\ \A p \in 1 .. gran : P[p] # {}
          /\ \A p, q \in 1 .. gran : p # q => P[p] \cap P[q] = {}
        BY <2>1, PartsAre
    <2>3. 1 \in 1 .. gran /\ 2 \in 1 .. gran
        BY <2>1
    <2> HIDE DEF P
    <2>4. ASSUME NEW p \in 1 .. gran PROVE P[p] \subseteq c /\ P[p] # c
        <3>1. PICK q \in 1 .. gran : q # p
            BY <2>3
        <3> QED BY <2>2, <3>1
    <2>5. CASE half = "parts"
        <3>1. Subsets(c) = P
            BY <2>5 DEF Subsets, P
        <3>2. Len(P) = gran
            BY <2>1, <2>2
        <3>3. \A p, q \in 1 .. gran : P[p] \subseteq P[q] => p = q
            BY <2>2
        <3> QED BY <2>1, <2>2, <2>4, <3>1, <3>2, <3>3
    <2>6. CASE half = "complements"
        <3> DEFINE Q == Complements(c, gran)
        <3>1. Subsets(c) = Q
            BY <2>6 DEF Subsets
        <3>2. Q \in [1 .. gran -> SUBSET c] /\ \A p \in 1 .. gran : Q[p] = c \ P[p]
            BY DEF Complements, P
        <3> HIDE DEF Q
        <3>3. Len(Q) = gran
            BY <2>1, <3>2
        <3>4. \A p \in 1 .. gran : Q[p] # c
            BY <2>2, <2>4, <3>2
        <3>5. ASSUME NEW p \in 1 .. gran, NEW q \in 1 .. gran, Q[p] \subseteq Q[q], p # q PROVE FALSE
            <4>1. P[q] \subseteq P[p]
                BY <2>4, <3>2, <3>5
            <4> QED BY <2>2, <3>5, <4>1
        <3> QED BY <2>1, <3>1, <3>2, <3>3, <3>4, <3>5
    <2> QED BY <1>2, <2>5, <2>6
<1> QED BY <1>1, <1>2

\* At the finest granularity every element has been left out once.
LEMMA LeavesOne ==
    ASSUME NEW c \in Lists, Offers(c), half \in {"parts", "complements", "empty"},
           half = "empty" \/ Finest(c), ~(half = "parts" /\ gran > 2), NEW f \in c
    PROVE  \E p \in 1 .. Len(Subsets(c)) : Subsets(c)[p] = c \ {f}
<1> DEFINE N == Cardinality(c)
           P == Parts(c, gran)
<1>0. N \in Nat
    BY FS_CardinalityType DEF Lists
<1>1. CASE half = "empty"
    <2>1. Subsets(c) = <<{}>> /\ Len(<<{}>>) = 1 /\ <<{}>>[1] = {}
        BY <1>1 DEF Subsets
    <2>2. PICK e : c = {e}
        BY <1>1, FS_Singleton DEF Offers, Lists
    <2> QED BY <2>1, <2>2
<1>2. CASE half \in {"parts", "complements"}
    <2>1. gran = N /\ gran \in Nat \ {0} /\ gran \in 2 .. N
        BY <1>0, <1>2 DEF Offers, Finest
    <2>2. ASSUME NEW p \in 1 .. gran PROVE P[p] = {e \in c : RankOf(c, e) = p}
        <3>1. (p * N) \div gran = p
            BY <2>1, Quotients
        <3>2. ((p - 1) * N) \div gran = p - 1
            <4>1. p - 1 \in Nat
                OBVIOUS
            <4> QED BY <2>1, <4>1, Quotients
        <3>3. P[p] = {e \in c : p - 1 < RankOf(c, e) /\ RankOf(c, e) <= p}
            BY <2>1, <3>1, <3>2 DEF Parts, RankOf
        <3>4. \A e \in c : RankOf(c, e) \in Nat
            BY <1>0, RankRange DEF Lists
        <3>5. \A e \in c : p - 1 < RankOf(c, e) /\ RankOf(c, e) <= p <=> RankOf(c, e) = p
            BY <3>4
        <3> QED BY <3>3, <3>5
    <2> HIDE DEF P
    <2>3. RankOf(c, f) \in 1 .. gran
        BY <2>1, RankRange DEF Lists
    <2>4. P[RankOf(c, f)] = {f}
        <3>1. \A e \in c : RankOf(c, e) = RankOf(c, f) => e = f
            BY RankSame DEF Lists
        <3> QED BY <2>2, <2>3, <3>1
    <2>5. CASE half = "complements"
        <3>1. Subsets(c) = Complements(c, gran)
            BY <2>5 DEF Subsets
        <3>2. Complements(c, gran) \in [1 .. gran -> SUBSET c]
            BY DEF Complements
        <3>3. Len(Complements(c, gran)) = gran
            BY <2>1, <3>2
        <3>4. Complements(c, gran)[RankOf(c, f)] = c \ {f}
            BY <2>3, <2>4 DEF Complements, P
        <3> QED BY <2>3, <3>1, <3>3, <3>4
    <2>6. CASE half = "parts"
        <3>1. N = 2 /\ gran = 2
            BY <2>1, <2>6
        <3>2. Subsets(c) = P /\ P \in [1 .. gran -> SUBSET c]
            BY <2>1, <2>6, PartsAre DEF Subsets, P
        <3>3. Len(P) = gran
            BY <2>1, <3>2
        <3>4. \A e \in c : RankOf(c, e) \in 1 .. 2
            BY <3>1, RankRange DEF Lists
        <3>5. PICK p \in 1 .. gran : p # RankOf(c, f)
            BY <3>1, <3>4
        <3>6. \A e \in c : RankOf(c, e) = p <=> e # f
            <4>1. TAKE e \in c
            <4>2. RankOf(c, e) = RankOf(c, f) <=> e = f
                BY RankSame DEF Lists
            <4> QED BY <3>1, <3>4, <3>5, <4>2
        <3>7. P[p] = c \ {f}
            BY <2>2, <3>6
        <3> QED BY <3>2, <3>3, <3>5, <3>7
    <2> QED BY <1>2, <2>5, <2>6
<1> QED BY <1>1, <1>2

-----------------------------------------------------------------------------
\* The candidates of a stage.

LEMMA LeqOrder ==
    /\ \A c \in World : Leq(c, c)
    /\ \A c, d \in World : Leq(c, d) /\ Leq(d, c) => c = d
    /\ \A c, d, e \in World : Leq(c, d) /\ Leq(d, e) => Leq(c, e)
<1>1. \A c \in World : /\ c = [faults |-> c.faults, ops |-> c.ops]
                       /\ c.faults \in [DOMAIN c.faults -> Nat \X Nat] /\ c.ops \subseteq Nat
    BY DEF World
<1>2. \A w \in Nat \X Nat : w[1] \in Nat /\ w[2] \in Nat /\ w = <<w[1], w[2]>>
    OBVIOUS
<1>3. ASSUME NEW c \in World PROVE Leq(c, c)
    <2>1. \A f \in DOMAIN c.faults : c.faults[f] \in Nat \X Nat
        BY <1>1
    <2> QED BY <1>2, <2>1 DEF Leq
<1>4. ASSUME NEW c \in World, NEW d \in World, Leq(c, d), Leq(d, c) PROVE c = d
    <2>1. DOMAIN c.faults = DOMAIN d.faults /\ c.ops = d.ops
        BY <1>4 DEF Leq
    <2>2. ASSUME NEW f \in DOMAIN c.faults PROVE c.faults[f] = d.faults[f]
        <3>1. c.faults[f] \in Nat \X Nat /\ d.faults[f] \in Nat \X Nat
            BY <1>1, <2>1
        <3>2. /\ d.faults[f][1] <= c.faults[f][1] /\ c.faults[f][2] <= d.faults[f][2]
              /\ c.faults[f][1] <= d.faults[f][1] /\ d.faults[f][2] <= c.faults[f][2]
            BY <1>4, <2>1 DEF Leq
        <3>3. c.faults[f][1] = d.faults[f][1] /\ c.faults[f][2] = d.faults[f][2]
            BY <1>2, <3>1, <3>2
        <3> QED BY <1>2, <3>1, <3>3
    <2>3. c.faults = d.faults
        BY <1>1, <2>1, <2>2
    <2> QED BY <1>1, <2>1, <2>3
<1>5. ASSUME NEW c \in World, NEW d \in World, NEW e \in World, Leq(c, d), Leq(d, e)
      PROVE  Leq(c, e)
    <2>1. DOMAIN c.faults \subseteq DOMAIN d.faults /\ DOMAIN d.faults \subseteq DOMAIN e.faults
          /\ c.ops \subseteq e.ops
        BY <1>5 DEF Leq
    <2>2. ASSUME NEW f \in DOMAIN c.faults
          PROVE  e.faults[f][1] <= c.faults[f][1] /\ c.faults[f][2] <= e.faults[f][2]
        <3>1. c.faults[f] \in Nat \X Nat /\ d.faults[f] \in Nat \X Nat /\ e.faults[f] \in Nat \X Nat
            BY <1>1, <2>1
        <3>2. /\ d.faults[f][1] <= c.faults[f][1] /\ c.faults[f][2] <= d.faults[f][2]
              /\ e.faults[f][1] <= d.faults[f][1] /\ d.faults[f][2] <= e.faults[f][2]
            BY <1>5, <2>1 DEF Leq
        <3> QED BY <1>2, <3>1, <3>2
    <2> QED BY <2>1, <2>2 DEF Leq
<1> QED BY <1>3, <1>4, <1>5

LEMMA WindowsAre ==
    /\ DOMAIN Windows = 1 .. Len(Windows) /\ Len(Windows) \in Nat
    /\ Windows \in [DOMAIN Windows -> Nat \X Nat]
    /\ \A d \in Sets : d \in Lists /\ Restrict(Windows, d) \in [d -> Nat \X Nat]
<1>1. Windows \in Seq(Nat \X Nat)
    BY ShrinkAssumption
<1>2. DOMAIN Windows = 1 .. Len(Windows) /\ Len(Windows) \in Nat /\ Windows \in [DOMAIN Windows -> Nat \X Nat]
    BY <1>1
<1>3. ASSUME NEW d \in Sets PROVE d \in Lists /\ Restrict(Windows, d) \in [d -> Nat \X Nat]
    <2>1. IsFiniteSet(1 .. Len(Windows))
        BY <1>2, FS_Interval
    <2>2. d \in SUBSET (1 .. Len(Windows))
        BY <1>2 DEF Sets
    <2>3. IsFiniteSet(d)
        BY <2>1, <2>2, FS_Subset
    <2>4. d \subseteq Nat
        BY <2>2
    <2> QED BY <1>2, <2>2, <2>3, <2>4 DEF Lists, Restrict
<1> QED BY <1>2, <1>3

LEMMA CurrentIs ==
    ASSUME ShrinkTyped
    PROVE  /\ DOMAIN faults \in Sets /\ DOMAIN faults \in Lists /\ ops \subseteq Nat
           /\ faults \in [DOMAIN faults -> Nat \X Nat]
<1>1. Current.faults = faults /\ Current.ops = ops /\ Current \in World
    BY DEF ShrinkTyped, Current
<1>2. faults \in UNION {[d -> Nat \X Nat] : d \in Sets} /\ ops \subseteq Nat
    BY <1>1 DEF World
<1> QED BY <1>2, WindowsAre

\* The middle of an interval is inside it, and not its good end.
LEMMA MiddleIs ==
    ASSUME NEW n \in [fault : Nat, side : {"end", "start"}, lo : Nat, hi : Nat, probes : Nat], More(n)
    PROVE  /\ Middle(n) \in Nat /\ n.lo <= Middle(n) /\ Middle(n) <= n.hi
           /\ n.side = "end" => Middle(n) < n.hi
           /\ n.side = "start" => n.lo < Middle(n)
<1>1. n.lo \in Nat /\ n.hi \in Nat /\ Granularity \in Nat \ {0}
    BY ShrinkAssumption
<1>2. n.hi - n.lo >= 2
    BY <1>1 DEF More
<1>3. \A l, h \in Nat : h - l >= 2 =>
        LET m == l + (h - l) \div 2 k == l + (h - l + 1) \div 2
        IN  m \in Nat /\ l <= m /\ m < h /\ k \in Nat /\ l < k /\ k <= h
    OBVIOUS
<1> QED BY <1>1, <1>2, <1>3 DEF Middle

LEMMA NarrowedIs ==
    ASSUME ShrinkTyped, WindowInv, stage = "narrow"
    PROVE  LET w == faults[window.fault]
               v == Narrowed(window)
           IN  /\ v \in Nat \X Nat /\ v # w
               /\ w[1] <= v[1] /\ v[2] <= w[2]
<1>1. /\ window \in [fault : Nat, side : {"end", "start"}, lo : Nat, hi : Nat, probes : Nat]
      /\ window.fault \in DOMAIN faults /\ More(window)
    BY DEF ShrinkTyped, WindowInv
<1>2. faults[window.fault] \in Nat \X Nat
    BY <1>1, CurrentIs
<1>3. /\ Middle(window) \in Nat /\ window.lo <= Middle(window) /\ Middle(window) <= window.hi
      /\ window.side = "end" => Middle(window) < window.hi
      /\ window.side = "start" => window.lo < Middle(window)
    BY <1>1, MiddleIs
<1>4. window.lo \in Nat /\ window.hi \in Nat
    BY <1>1
<1>5. /\ window.side = "end" =>
            faults[window.fault][1] <= window.lo /\ window.hi = faults[window.fault][2]
      /\ window.side = "start" =>
            window.lo = faults[window.fault][1] /\ window.hi <= faults[window.fault][2]
      /\ window.side \in {"end", "start"}
    BY <1>1 DEF WindowInv
<1>6. faults[window.fault][1] \in Nat /\ faults[window.fault][2] \in Nat
    BY <1>2
<1>7. CASE window.side = "end"
    BY <1>3, <1>4, <1>5, <1>6, <1>7 DEF Narrowed
<1>8. CASE window.side = "start"
    BY <1>3, <1>4, <1>5, <1>6, <1>8 DEF Narrowed
<1> QED BY <1>5, <1>7, <1>8

\* Each candidate is part of what survives, and no part of another.
LEMMA CandidatesAre ==
    ASSUME ShrinkTyped, ListInv, WindowInv, Asking
    PROVE  /\ Len(Candidates) \in Nat \ {0}
           /\ Candidates \in [1 .. Len(Candidates) -> World]
           /\ \A i \in 1 .. Len(Candidates) : Leq(Candidates[i], Current)
           /\ \A i, j \in 1 .. Len(Candidates) : Leq(Candidates[i], Candidates[j]) => i = j
           /\ stage = "baseline" => Len(Candidates) = 1 /\ Candidates[1] = Whole /\ Current = Whole
           /\ stage # "baseline" => \A i \in 1 .. Len(Candidates) : Candidates[i] # Current
           /\ stage \in {"baseline", "faults"} =>
                  \A i \in 1 .. Len(Candidates) : Candidates[i].ops = Every
<1>0. /\ Current \in World /\ half \in {"parts", "complements", "empty", "over"}
      /\ DOMAIN faults \in Sets /\ DOMAIN faults \in Lists /\ ops \subseteq Nat
      /\ faults \in [DOMAIN faults -> Nat \X Nat]
    BY CurrentIs DEF ShrinkTyped
<1>1. CASE stage = "baseline"
    <2>1. Candidates = <<Whole>> /\ Current = Whole
        BY <1>1 DEF Candidates, Current, Whole, ListInv
    <2>2. Len(<<Whole>>) = 1 /\ <<Whole>>[1] = Whole /\ <<Whole>> \in [1 .. 1 -> World]
        BY <1>0, <2>1
    <2>3. Leq(Whole, Whole) /\ Whole.ops = Every
        BY <1>0, <2>1, LeqOrder DEF Whole
    <2> QED BY <1>1, <2>1, <2>2, <2>3
<1>2. CASE stage = "faults"
    <2> DEFINE S == Subsets(DOMAIN faults)
               cs == [p \in DOMAIN S |-> [faults |-> Restrict(faults, S[p]), ops |-> ops]]
    <2>1. Offers(DOMAIN faults) /\ half \in {"parts", "complements", "empty"} /\ ops = Every
        BY <1>0, <1>2 DEF Asking, ListInv
    <2>2. /\ Len(S) \in Nat \ {0}
          /\ S \in [1 .. Len(S) -> SUBSET DOMAIN faults]
          /\ \A p \in 1 .. Len(S) : S[p] # DOMAIN faults
          /\ \A p, q \in 1 .. Len(S) : S[p] \subseteq S[q] => p = q
        BY <1>0, <2>1, OffersAre
    <2>3. Candidates = cs
        BY <1>2 DEF Candidates
    <2> HIDE DEF S
    <2>4. /\ DOMAIN cs = 1 .. Len(S)
          /\ \A p \in 1 .. Len(S) : /\ cs[p] = [faults |-> Restrict(faults, S[p]), ops |-> ops]
                                    /\ cs[p].ops = ops /\ DOMAIN cs[p].faults = S[p]
                                    /\ \A f \in S[p] : cs[p].faults[f] = faults[f]
                                    /\ cs[p].faults \in [S[p] -> Nat \X Nat]
        BY <1>0, <2>2 DEF Restrict
    <2>5. cs \in [1 .. Len(S) -> World]
        <3>1. ASSUME NEW p \in 1 .. Len(S) PROVE cs[p] \in World
            <4>1. S[p] \in Sets
                BY <1>0, <2>2 DEF Sets
            <4> QED BY <1>0, <2>4, <4>1 DEF World
        <3> QED BY <2>4, <3>1
    <2> HIDE DEF cs
    <2>6. Len(cs) = Len(S)
        BY <2>2, <2>5
    <2>7. Current.faults = faults /\ Current.ops = ops
        BY DEF Current
    <2>8. ASSUME NEW p \in 1 .. Len(S) PROVE Leq(cs[p], Current) /\ cs[p] # Current
        <3>1. \A f \in S[p] : faults[f][1] <= faults[f][1] /\ faults[f][2] <= faults[f][2]
            <4>1. \A f \in S[p] : faults[f] \in Nat \X Nat
                BY <1>0, <2>2
            <4> QED BY <4>1
        <3> QED BY <2>2, <2>4, <2>7, <3>1 DEF Leq
    <2>9. ASSUME NEW p \in 1 .. Len(S), NEW q \in 1 .. Len(S), Leq(cs[p], cs[q]) PROVE p = q
        BY <2>2, <2>4, <2>9 DEF Leq
    <2> QED BY <1>2, <2>1, <2>2, <2>3, <2>4, <2>5, <2>6, <2>8, <2>9
<1>3. CASE stage = "ops"
    <2> DEFINE S == Subsets(ops)
               cs == [p \in DOMAIN S |-> [faults |-> faults, ops |-> S[p]]]
    <2>1. ops \in Lists
        <3>1. ops \in SUBSET AllOps /\ IsFiniteSet(AllOps)
            BY <1>3, FS_Interval, ShrinkAssumption DEF ListInv, AllOps
        <3> QED BY <1>0, <3>1, FS_Subset DEF Lists
    <2>2. Offers(ops) /\ half \in {"parts", "complements", "empty"}
        BY <1>0, <1>3 DEF Asking, ListInv
    <2>3. /\ Len(S) \in Nat \ {0}
          /\ S \in [1 .. Len(S) -> SUBSET ops]
          /\ \A p \in 1 .. Len(S) : S[p] # ops
          /\ \A p, q \in 1 .. Len(S) : S[p] \subseteq S[q] => p = q
        BY <2>1, <2>2, OffersAre
    <2>4. Candidates = cs
        BY <1>3 DEF Candidates
    <2> HIDE DEF S
    <2>5. /\ DOMAIN cs = 1 .. Len(S)
          /\ \A p \in 1 .. Len(S) : cs[p] = [faults |-> faults, ops |-> S[p]]
        BY <2>3
    <2>6. cs \in [1 .. Len(S) -> World]
        <3>1. ASSUME NEW p \in 1 .. Len(S) PROVE cs[p] \in World
            <4>1. S[p] \in SUBSET Nat
                BY <1>0, <2>3
            <4> QED BY <1>0, <2>5, <4>1 DEF World
        <3> QED BY <2>5, <3>1
    <2> HIDE DEF cs
    <2>7. Len(cs) = Len(S)
        BY <2>3, <2>6
    <2>8. Current = [faults |-> faults, ops |-> ops]
        BY DEF Current
    <2>9. \A f \in DOMAIN faults : faults[f][1] <= faults[f][1] /\ faults[f][2] <= faults[f][2]
        <3>1. \A f \in DOMAIN faults : faults[f] \in Nat \X Nat
            BY <1>0
        <3> QED BY <3>1
    <2>10. ASSUME NEW p \in 1 .. Len(S) PROVE Leq(cs[p], Current) /\ cs[p] # Current
        <3>1. cs[p].ops = S[p] /\ Current.ops = ops /\ S[p] \subseteq ops
            BY <2>3, <2>5, <2>8
        <3>2. cs[p].faults = faults /\ Current.faults = faults
            BY <2>5, <2>8
        <3> QED BY <2>3, <2>9, <3>1, <3>2 DEF Leq
    <2>11. ASSUME NEW p \in 1 .. Len(S), NEW q \in 1 .. Len(S), Leq(cs[p], cs[q]) PROVE p = q
        <3>1. S[p] \subseteq S[q]
            BY <2>5, <2>11 DEF Leq
        <3> QED BY <2>3, <3>1
    <2> QED BY <1>3, <2>3, <2>4, <2>6, <2>7, <2>10, <2>11
<1>4. CASE stage = "narrow"
    <2> DEFINE k == window.fault
               v == Narrowed(window)
               g == [faults EXCEPT ![k] = v]
               c == [faults |-> g, ops |-> ops]
    <2>1. Candidates = <<c>>
        BY <1>4 DEF Candidates
    <2>2. k \in DOMAIN faults
        BY <1>4 DEF WindowInv
    <2>3. v \in Nat \X Nat /\ v # faults[k] /\ faults[k][1] <= v[1] /\ v[2] <= faults[k][2]
        BY <1>4, NarrowedIs
    <2> HIDE DEF v
    <2>4. /\ g \in [DOMAIN faults -> Nat \X Nat] /\ DOMAIN g = DOMAIN faults
          /\ \A f \in DOMAIN faults : g[f] = IF f = k THEN v ELSE faults[f]
        BY <1>0, <2>2, <2>3
    <2> HIDE DEF g
    <2>5. c \in World
        BY <1>0, <2>4 DEF World
    <2>6. Len(<<c>>) = 1 /\ <<c>>[1] = c /\ <<c>> \in [1 .. 1 -> World]
        BY <2>5
    <2>7. c # Current
        BY <2>2, <2>3, <2>4 DEF Current
    <2>8. Leq(c, Current)
        <3>1. \A f \in DOMAIN faults : faults[f][1] <= g[f][1] /\ g[f][2] <= faults[f][2]
            <4>1. \A f \in DOMAIN faults : faults[f] \in Nat \X Nat
                BY <1>0
            <4> QED BY <2>3, <2>4, <4>1
        <3> QED BY <2>4, <3>1 DEF Leq, Current
    <2> QED BY <1>4, <2>1, <2>6, <2>7, <2>8
<1> QED BY <1>1, <1>2, <1>3, <1>4 DEF Asking

-----------------------------------------------------------------------------
\* What one execution counts for.

\* The violation on its own key is the violation; and an execution that drifts is
\* one that only the level "key" turns away.
LEMMA SignalsAre ==
    ASSUME NEW a \in Attempt, NEW l \in {"key", "class"}
    PROVE  /\ Signal(a, l) \in {"unknown", "reproduced", "different", "clean"}
           /\ Signal(a, "key") = "reproduced" => Signal(a, "class") = "reproduced"
           /\ Drifts(a, l) => l = "key"
           /\ ~a.reached => Signal(a, l) = "unknown"
<1>1. a.reached \in BOOLEAN /\ a.observed \subseteq Identity
    BY DEF Attempt
<1>2. Signal(a, l) \in {"unknown", "reproduced", "different", "clean"}
    BY DEF Signal
<1>3. Signal(a, "key") = "reproduced" => Signal(a, "class") = "reproduced"
    BY DEF Signal, Matches
<1>4. Drifts(a, "class") => FALSE
    BY DEF Drifts, Signal, Matches
<1>5. ~a.reached => Signal(a, l) = "unknown"
    BY DEF Signal
<1> QED BY <1>2, <1>3, <1>4, <1>5

LEMMA LeastOf ==
    ASSUME NEW S \in SUBSET Nat, S # {}
    PROVE  Min(S) \in S /\ \A x \in S : Min(S) <= x
<1> DEFINE R == {r \in Nat \X Nat : r[1] < r[2]}
<1>1. OpToRel(<, Nat) = R
    BY Zenon DEF OpToRel
<1>2. PICK m \in S : \A x \in S : <<x, m>> \notin R
    BY <1>1, NatLessThanWellFounded, WFMin
<1>3. ASSUME NEW x \in S PROVE m <= x
    <2>1. x \in Nat /\ m \in Nat /\ <<x, m>> \in Nat \X Nat /\ <<x, m>>[1] = x /\ <<x, m>>[2] = m
        OBVIOUS
    <2>2. ~(x < m)
        BY <1>2, <2>1
    <2> QED BY <2>1, <2>2
<1>4. m \in S /\ \A y \in S : m <= y
    BY <1>3
<1> QED BY <1>4 DEF Min

LEMMA LesserOf ==
    ASSUME NEW a \in Nat, NEW b \in Nat
    PROVE  /\ Min({a, b}) = IF a <= b THEN a ELSE b
           /\ Max({a, b}) = IF a <= b THEN b ELSE a
<1>1. \A m \in Int : (m \in {a, b} /\ \A y \in {a, b} : m <= y) <=> m = (IF a <= b THEN a ELSE b)
    OBVIOUS
<1>2. \A m \in Int : (m \in {a, b} /\ \A y \in {a, b} : m >= y) <=> m = (IF a <= b THEN b ELSE a)
    OBVIOUS
<1> QED BY <1>1, <1>2 DEF Min, Max

\* The round's j-th execution is of the candidate in the j-th place.
LEMMA PlacesAre ==
    ASSUME pending \in Lists
    PROVE  /\ \A i \in pending : Place(i) \in 1 .. Cardinality(pending) /\ At(Place(i)) = i
           /\ \A j \in 1 .. Cardinality(pending) : At(j) \in pending /\ Place(At(j)) = j
<1>1. ASSUME NEW j \in 1 .. Cardinality(pending) PROVE At(j) \in pending /\ Place(At(j)) = j
    <2>1. \E i \in pending : RankOf(pending, i) = j
        BY RankOnto DEF Lists
    <2>2. \E i \in pending : Cardinality({x \in pending : x <= i}) = j
        BY <2>1 DEF RankOf
    <2>3. At(j) \in pending /\ Cardinality({x \in pending : x <= At(j)}) = j
        BY <2>2 DEF At
    <2> QED BY <2>3 DEF Place, RankOf
<1>2. ASSUME NEW i \in pending PROVE Place(i) \in 1 .. Cardinality(pending) /\ At(Place(i)) = i
    <2>0. pending \in SUBSET Nat /\ IsFiniteSet(pending)
        BY DEF Lists
    <2>1. Place(i) \in 1 .. Cardinality(pending)
        BY <2>0, RankRange DEF Place
    <2>2. PICK e \in pending : e = At(Place(i)) /\ Place(e) = Place(i)
        BY <1>1, <2>1
    <2>3. RankOf(pending, e) = RankOf(pending, i)
        BY <2>2 DEF Place
    <2>4. e = i
        BY <2>0, <2>3, RankSame
    <2> QED BY <2>1, <2>2, <2>4
<1> QED BY <1>1, <1>2

LEMMA OptionIs ==
    ASSUME opt \in Options
    PROVE  /\ opt.accept \in 1 .. RejectTrials /\ opt.worlds \in Nat
           /\ opt.typed \in {"default", "key", "class"} /\ opt.baseline \in BOOLEAN
           /\ opt.found \in Entry
BY ProberAssumption DEF Option

\* The ledger never grants more than is asked.
LEMMA GrantIs ==
    ASSUME ShrinkTyped, NEW n \in Nat
    PROVE  /\ Grant(n) \in 0 .. n /\ Shortage(n) \in Stops
           /\ Shortage(n) = Complete /\ n > 0 => Grant(n) > 0
<1>1. Available \in Int
    BY OptionIs DEF Available, ShrinkTyped
<1>2. ASSUME Available > 0 PROVE Min({n, Available}) = IF n <= Available THEN n ELSE Available
    BY <1>1, <1>2, LesserOf
<1>3. Grant(n) \in 0 .. n
    BY <1>1, <1>2 DEF Grant
<1>4. Shortage(n) \in Stops
    BY DEF Shortage, Stops
<1>5. Shortage(n) = Complete /\ n > 0 => Grant(n) > 0
    BY <1>1, <1>2 DEF Shortage, Grant, Complete, ShrinkTyped
<1> QED BY <1>3, <1>4, <1>5

LEMMA SingleIs ==
    ASSUME ShrinkTyped, NEW x \in Single, Charge(x)
    PROVE  /\ x.ran \in BOOLEAN /\ x.seen \in Attempt /\ x.stop \in Stops
           /\ ~x.ran => ~x.seen.reached
           /\ spent' \in Nat
<1> DEFINE none == [reached |-> FALSE, observed |-> {}]
<1>1. \/ x \in [ran : {TRUE}, seen : Attempts, stop : {IF interrupted THEN "canceled" ELSE Complete}]
      \/ x \in [ran : {FALSE}, seen : {none}, stop : {Shortage(1)}]
    BY DEF Single
<1>2. none \in Attempt /\ ~none.reached
    BY DEF Attempt
<1>3. Shortage(1) \in Stops
    BY DEF Shortage, Stops
<1>4. x.ran \in BOOLEAN /\ x.seen \in Attempt /\ x.stop \in Stops /\ (~x.ran => ~x.seen.reached)
    <2>1. CASE x \in [ran : {TRUE}, seen : Attempts, stop : {IF interrupted THEN "canceled" ELSE Complete}]
        BY <2>1, ProberAssumption DEF Stops
    <2>2. CASE x \in [ran : {FALSE}, seen : {none}, stop : {Shortage(1)}]
        <3>1. x.ran = FALSE /\ x.seen = none /\ x.stop = Shortage(1)
            BY <2>2
        <3> QED BY <1>2, <1>3, <3>1
    <2> QED BY <1>1, <2>1, <2>2
<1>5. spent' \in Nat
    BY DEF Charge, ShrinkTyped
<1> QED BY <1>4, <1>5

LEMMA SameQuestion ==
    ASSUME UNCHANGED pipeline
    PROVE  Candidates' = Candidates /\ Current' = Current
<1>1. UNCHANGED <<stage, faults, ops, gran, half, window>>
    BY DEF pipeline
<1>2. Current' = Current
    BY <1>1 DEF Current
<1>3. Candidates' = Candidates
    BY <1>1 DEF Candidates, Subsets, Complements, Parts, Narrowed, Middle, Whole
<1> QED BY <1>2, <1>3

\* What a step of the prober that judges nothing leaves as it was.
LEMMA JudgesNothing ==
    ASSUME ShrinkTyped, ShrinkInv, UNCHANGED <<opt, level, cache, pipeline, corpus, history>>,
           Accepted' = Accepted
    PROVE  ListInv' /\ WindowInv' /\ MemoInv' /\ GroundsInv' /\ MinimalInv' /\ GateInv'
<1>1. UNCHANGED <<opt, level, cache, stage, faults, ops, gran, half, window, stop, trials, reproduced,
                  entry, grounds, since>>
    BY DEF pipeline, corpus, history
<1>2. ListInv'
    BY <1>1 DEF ShrinkInv, ListInv, Offers
<1>3. WindowInv'
    BY <1>1 DEF ShrinkInv, WindowInv, More
<1>4. MemoInv'
    BY <1>1 DEF ShrinkInv, MemoInv
<1>5. GroundsInv'
    BY <1>1 DEF ShrinkInv, GroundsInv, SurvivorsReproduced, Weight, Current
<1>6. MinimalInv'
    BY <1>1 DEF ShrinkInv, MinimalInv, Minimal, Judged
<1>7. GateInv'
    BY <1>1 DEF ShrinkInv, GateInv
<1> QED BY <1>2, <1>3, <1>4, <1>5, <1>6, <1>7

-----------------------------------------------------------------------------
\* The steps of a call.

\* The memo never answers with an acceptance: what it accepted was adopted.
LEMMA AskKeeps ==
    ASSUME ShrinkTyped, ShrinkInv, AnotherQuestion, Ask(Candidates), UNCHANGED <<pipeline, corpus, history>>
    PROVE  ShrinkTyped' /\ ShrinkInv'
<1> DEFINE cs == Candidates
           known == {i \in 1 .. Len(cs) : cs[i] \in DOMAIN cache}
           accepted == {i \in known : cache[cs[i]] = "reproduced"}
           open == (1 .. Len(cs)) \ known
<1>0. /\ UNCHANGED <<opt, interrupted, expired, spent, reserve, level, mayCalibrate, calibrated, reprobes,
                     drifts, cache, got, granted, reason, wholeDrifted>>
      /\ UNCHANGED <<stage, faults, ops, gran, half, window, stop, trials, reproduced, entry, exitCode,
                     grounds, since>>
      /\ cpc = "idle" /\ got = <<>> /\ answer = Silence
    BY DEF Ask, ledger, identity, pipeline, corpus, history, ShrinkInv, AskedInv
<1>1. Asking
    BY <1>0 DEF AnotherQuestion, Asking
<1>2. Candidates' = Candidates /\ Current' = Current
    BY SameQuestion
<1>3. /\ Len(cs) \in Nat \ {0} /\ cs \in [1 .. Len(cs) -> World]
      /\ \A i \in 1 .. Len(cs) : Leq(cs[i], Current)
      /\ stage = "baseline" => Len(cs) = 1 /\ Current = Whole
      /\ stage # "baseline" => \A i \in 1 .. Len(cs) : cs[i] # Current
    BY <1>1, CandidatesAre DEF ShrinkInv
<1> HIDE DEF cs
<1>4. Accepted = Current
    BY <1>0 DEF Accepted
<1>5. stage = "baseline" => DOMAIN cache = {}
    BY <1>0 DEF ShrinkInv, AskedInv
<1>6. accepted = {}
    <2> SUFFICES ASSUME NEW i \in accepted PROVE FALSE
        OBVIOUS
    <2>1. cs[i] = Current
        BY <1>3, <1>4 DEF ShrinkInv, MemoInv
    <2> QED BY <1>3, <1>5, <2>1
<1>7. /\ shown' = [i \in 1 .. Len(cs) |-> NoEvidence]
      /\ \/ open # {} /\ cpc' = "round" /\ pending' = open
            /\ tallies' = [i \in 1 .. Len(cs) |-> NoTally] /\ answer' = answer
         \/ open = {} /\ cpc' = "answer" /\ answer' = [Silence EXCEPT !.signal = cache[cs[1]]]
    BY <1>6 DEF Ask, cs
<1> HIDE DEF accepted
<1>8. cpc' = "answer" => answer'.index = 0 /\ answer'.signal \in Signals /\ answer'.stop = Complete
                         /\ answer' \in [index : Nat, signal : Signals, stop : Stops]
    <2> SUFFICES ASSUME cpc' = "answer" PROVE answer'.index = 0 /\ answer'.signal \in Signals
                         /\ answer'.stop = Complete /\ answer' \in [index : Nat, signal : Signals, stop : Stops]
        OBVIOUS
    <2>1. open = {} /\ answer' = [Silence EXCEPT !.signal = cache[cs[1]]]
        BY <1>7
    <2>2. cache[cs[1]] \in Signals
        BY <1>3, <2>1 DEF ShrinkTyped
    <2> QED BY <2>1, <2>2 DEF Silence, Complete, Stops
<1>9. ShrinkTyped'
    <2>1. answer' \in [index : Nat, signal : Signals, stop : Stops]
        BY <1>7, <1>8 DEF ShrinkTyped
    <2>2. cpc' \in {"idle", "round", "run", "judge", "reprobe", "settle", "answer"}
        BY <1>7
    <2> QED BY <1>0, <1>2, <2>1, <2>2 DEF ShrinkTyped
<1>10. Accepted' = Accepted
    BY <1>2, <1>4, <1>7, <1>8 DEF Accepted
<1>11. ListInv' /\ WindowInv' /\ MemoInv' /\ GroundsInv' /\ MinimalInv' /\ GateInv'
    BY <1>0, <1>10, JudgesNothing DEF corpus, history
<1>12. RelaxInv'
    BY <1>0 DEF ShrinkInv, RelaxInv, OnlyTheWorldItselfRelaxes
<1>13. NoEvidence \in Evidence /\ NoEvidence.own = 0 /\ NoEvidence.any = 0 /\ NoTally.hits = 0
       /\ NoTally \in [hits : Nat, misses : Nat, unknowns : Nat]
    BY DEF NoEvidence, Evidence, NoTally
<1>14. AskedInv'
    <2>1. Asking'
        BY <1>0, <1>1 DEF Asking
    <2>2. shown' \in [1 .. Len(cs) -> Evidence] /\ \A i \in 1 .. Len(cs) : shown'[i].own <= shown'[i].any
        BY <1>7, <1>13
    <2> QED BY <1>0, <1>2, <1>7, <2>1, <2>2 DEF AskedInv, cs
<1>15. OpenInv'
    <2> SUFFICES ASSUME Open' PROVE OpenInv'
        BY DEF OpenInv
    <2>1. open # {} /\ cpc' = "round" /\ pending' = open /\ tallies' = [i \in 1 .. Len(cs) |-> NoTally]
        BY <1>7 DEF Open
    <2>2. got' = <<>> /\ got' \in Seq(Attempts) /\ Len(got') = 0
        BY <1>0
    <2>3. IsFiniteSet(1 .. Len(cs)) /\ open \subseteq 1 .. Len(cs)
        BY <1>3, FS_Interval
    <2>4. Cardinality(open) \in Nat
        BY <2>3, FS_Subset, FS_CardinalityType
    <2>5. ASSUME stage = "baseline" PROVE open = {1}
        <3>1. known = {} /\ Len(cs) = 1
            BY <1>3, <1>5, <2>5
        <3>2. 1 .. 1 = {1}
            OBVIOUS
        <3> QED BY <3>1, <3>2
    <2>6. \A i \in open : cs[i] \notin DOMAIN cache
        OBVIOUS
    <2>7. \A i \in 1 .. Len(cs) : i \notin open => cs[i] \in DOMAIN cache /\ cache[cs[i]] # "reproduced"
        BY <1>6 DEF accepted
    <2>8. \A i \in 1 .. Len(cs) : \A l \in {level, "class"} : tallies'[i].hits + Hit(i, l)' <= Weight(l, shown'[i])
        <3> TAKE i \in 1 .. Len(cs)
        <3> TAKE l \in {level, "class"}
        <3>1. tallies'[i].hits = 0 /\ Weight(l, shown'[i]) = 0
            BY <1>7, <1>13, <2>1 DEF Weight
        <3>2. ASSUME i \in pending' PROVE ~(Place(i)' <= Len(got'))
            <4>1. RankOf(open, i) \in 1 .. Cardinality(open)
                BY <2>1, <2>3, <2>4, <3>2, FS_Subset, RankRange
            <4>2. Place(i)' = RankOf(open, i)
                BY <2>1 DEF Place
            <4> QED BY <2>2, <2>4, <4>1, <4>2
        <3>3. Hit(i, l)' = 0
            BY <3>2 DEF Hit
        <3> QED BY <3>1, <3>3
    <2>9. tallies' \in [1 .. Len(cs) -> [hits : Nat, misses : Nat, unknowns : Nat]]
        BY <1>13, <2>1
    <2> HIDE DEF open, known
    <2> QED BY <1>0, <1>2, <2>1, <2>2, <2>3, <2>4, <2>5, <2>6, <2>7, <2>8, <2>9 DEF OpenInv, Open, Judged, cs
<1>16. AnswerInv'
    <2> SUFFICES ASSUME cpc' = "answer" PROVE AnswerInv'
        BY DEF AnswerInv
    <2>1. open = {} /\ answer'.index = 0
        BY <1>7, <1>8
    <2>2. \A i \in 1 .. Len(cs) : cs[i] \in DOMAIN cache /\ cache[cs[i]] # "reproduced"
        BY <1>6, <2>1 DEF accepted
    <2>3. stage # "baseline"
        BY <1>3, <1>5, <2>2
    <2>4. 0 \in 0 .. Len(cs)
        BY <1>3
    <2> HIDE DEF open, known
    <2> QED BY <1>0, <1>2, <2>1, <2>2, <2>3, <2>4 DEF AnswerInv, Judged, cs
<1> QED BY <1>9, <1>11, <1>12, <1>14, <1>15, <1>16 DEF ShrinkInv

\* What a round under way leaves as it was, when nothing is executed in it.
LEMMA StillOpen ==
    ASSUME ShrinkTyped, ShrinkInv, Open, Open',
           UNCHANGED <<opt, level, cache, pending, tallies, got, shown, pipeline, corpus, history>>,
           wholeDrifted => wholeDrifted',
           cpc' = "round" => got = <<>>,
           cpc' = "run" => Len(got) < granted' /\ granted' <= Cardinality(pending)
    PROVE  /\ AskedInv' /\ OpenInv' /\ AnswerInv'
           /\ ListInv' /\ WindowInv' /\ MemoInv' /\ GroundsInv' /\ MinimalInv' /\ GateInv'
<1>1. UNCHANGED <<stage, faults, ops, gran, half, window, since>>
    BY DEF pipeline, history
<1>2. Candidates' = Candidates /\ Current' = Current
    BY SameQuestion
<1>3. cpc # "answer" /\ cpc' # "answer" /\ cpc # "idle" /\ cpc' # "idle"
    BY DEF Open
<1>4. Accepted' = Accepted
    BY <1>2, <1>3 DEF Accepted
<1>5. ListInv' /\ WindowInv' /\ MemoInv' /\ GroundsInv' /\ MinimalInv' /\ GateInv'
    BY <1>4, JudgesNothing
<1>6. AskedInv'
    <2>1. Asking'
        BY <1>1, <1>3 DEF Asking, ShrinkInv, AskedInv
    <2> QED BY <1>1, <1>2, <1>3, <2>1 DEF AskedInv, ShrinkInv
<1>7. AnswerInv'
    BY <1>3 DEF AnswerInv
<1>8. OpenInv'
    <2>1. \A i, l : Hit(i, l)' = Hit(i, l)
        BY DEF Hit, Place, RankOf
    <2>2. \A j : At(j)' = At(j)
        BY DEF At
    <2> DEFINE cs == Candidates
    <2>3. cs' = cs
        BY <1>2
    <2>4. /\ pending \subseteq 1 .. Len(cs) /\ pending # {}
          /\ stage = "baseline" => pending = {1}
          /\ tallies \in [1 .. Len(cs) -> [hits : Nat, misses : Nat, unknowns : Nat]]
          /\ got \in Seq(Attempts) /\ Len(got) <= Cardinality(pending)
          /\ \A i \in pending : cs[i] \notin DOMAIN cache
          /\ stage = "faults" /\ level = since =>
                 \A i \in 1 .. Len(cs) : i \notin pending => Judged(cs[i])
          /\ \A i \in 1 .. Len(cs) : \A l \in {level, "class"} :
                 tallies[i].hits + Hit(i, l) <= Weight(l, shown[i])
          /\ \A j \in 1 .. Len(got) :
                 cs[At(j)] = Whole /\ Drifts(got[j], "key") => wholeDrifted
        BY DEF ShrinkInv, OpenInv
    <2> HIDE DEF cs
    <2>5. \A c : Judged(c)' = Judged(c)
        BY DEF Judged
    <2>6. \A l, i : Weight(l, shown[i])' = Weight(l, shown[i])
        BY DEF Weight
    <2>7. \A i \in 1 .. Len(cs) : \A l \in {level, "class"} :
              (tallies[i].hits + Hit(i, l) <= Weight(l, shown[i]))'
        BY <2>1, <2>3, <2>4, <2>6
    <2>8. \A j \in 1 .. Len(got) : (cs[At(j)] = Whole /\ Drifts(got[j], "key") => wholeDrifted)'
        BY <2>2, <2>3, <2>4 DEF Whole, Drifts, Signal
    <2> QED BY <1>1, <2>3, <2>4, <2>5, <2>7, <2>8 DEF OpenInv, cs
<1> QED BY <1>5, <1>6, <1>7, <1>8

LEMMA PendingIs ==
    ASSUME ShrinkTyped, ShrinkInv, Open
    PROVE  /\ Asking /\ Len(Candidates) \in Nat \ {0}
           /\ pending \subseteq 1 .. Len(Candidates) /\ pending \in Lists
           /\ Cardinality(pending) \in Nat
<1>1. Asking
    BY DEF ShrinkInv, AskedInv, Open
<1>2. Len(Candidates) \in Nat \ {0}
    BY <1>1, CandidatesAre DEF ShrinkInv
<1>3. pending \subseteq 1 .. Len(Candidates)
    BY DEF ShrinkInv, OpenInv
<1>4. IsFiniteSet(1 .. Len(Candidates))
    BY <1>2, FS_Interval
<1>5. IsFiniteSet(pending)
    BY <1>3, <1>4, FS_Subset
<1>6. Cardinality(pending) \in Nat
    BY <1>5, FS_CardinalityType
<1>7. pending \subseteq Nat
    BY <1>3
<1> QED BY <1>1, <1>2, <1>3, <1>5, <1>6, <1>7 DEF Lists

LEMMA RoundKeeps ==
    ASSUME ShrinkTyped, ShrinkInv, Round, UNCHANGED <<pipeline, corpus, history>>
    PROVE  ShrinkTyped' /\ ShrinkInv'
<1> DEFINE n == Cardinality(pending)
<1>0. /\ UNCHANGED <<opt, interrupted, expired, reserve, level, mayCalibrate, calibrated, reprobes,
                     drifts, cache, pending, tallies, got, answer, shown, wholeDrifted>>
      /\ UNCHANGED <<stage, faults, ops, gran, half, window, stop, trials, reproduced, entry, exitCode,
                     grounds, since>>
      /\ cpc = "round" /\ got = <<>>
      /\ granted' = Grant(n) /\ reason' = Shortage(n) /\ spent' = spent + Grant(n)
      /\ cpc' = IF Grant(n) > 0 THEN "run" ELSE "judge"
    BY DEF Round, identity, pipeline, corpus, history, ShrinkInv, AskedInv
<1>1. Open /\ Open'
    BY <1>0 DEF Open
<1>2. n \in Nat
    BY <1>1, PendingIs
<1> HIDE DEF n
<1>3. Grant(n) \in 0 .. n /\ Shortage(n) \in Stops
    BY <1>2, GrantIs
<1>4. ShrinkTyped'
    <2>1. Current' = Current
        BY SameQuestion
    <2>2. spent' \in Nat
        BY <1>0, <1>2, <1>3 DEF ShrinkTyped
    <2>3. cpc' \in {"idle", "round", "run", "judge", "reprobe", "settle", "answer"}
        BY <1>0
    <2> QED BY <1>0, <1>3, <2>1, <2>2, <2>3 DEF ShrinkTyped
<1>5. cpc' = "run" => Len(got) < granted' /\ granted' <= Cardinality(pending)
    <2>1. Len(got) = 0
        BY <1>0
    <2> QED BY <1>0, <1>2, <1>3, <2>1 DEF n
<1>6. /\ AskedInv' /\ OpenInv' /\ AnswerInv'
      /\ ListInv' /\ WindowInv' /\ MemoInv' /\ GroundsInv' /\ MinimalInv' /\ GateInv'
    BY <1>0, <1>1, <1>5, StillOpen
<1>7. RelaxInv'
    BY <1>0 DEF ShrinkInv, RelaxInv, OnlyTheWorldItselfRelaxes
<1> QED BY <1>4, <1>6, <1>7 DEF ShrinkInv

\* An execution is credited to the candidate whose place in the round it has.
LEMMA RunOneKeeps ==
    ASSUME ShrinkTyped, ShrinkInv, RunOne(Candidates, Whole), UNCHANGED <<pipeline, corpus, history>>
    PROVE  ShrinkTyped' /\ ShrinkInv'
<1> DEFINE n == Len(got) + 1
           cs == Candidates
<1> DEFINE k == At(n)
<1>1. PICK a \in Attempts :
          /\ got' = Append(got, a)
          /\ shown' = [shown EXCEPT ![k] = ShownBy(a, @)]
          /\ wholeDrifted' = (wholeDrifted \/ (cs[k] = Whole /\ Drifts(a, "key")))
    BY DEF RunOne
<1>0. /\ UNCHANGED <<opt, interrupted, expired, spent, reserve, level, mayCalibrate, calibrated, reprobes,
                     drifts, cache, pending, tallies, granted, answer>>
      /\ UNCHANGED <<stage, faults, ops, gran, half, window, stop, trials, reproduced, entry, exitCode,
                     grounds, since>>
      /\ cpc = "run" /\ reason' = (IF interrupted THEN "canceled" ELSE reason)
      /\ cpc' = IF interrupted \/ n = granted THEN "judge" ELSE "run"
    BY DEF RunOne, ledger, identity, pipeline, corpus, history
<1>2. Open /\ Open' /\ cpc' \in {"run", "judge"}
    BY <1>0 DEF Open
<1>3. /\ Asking /\ Len(cs) \in Nat \ {0} /\ pending \subseteq 1 .. Len(cs) /\ pending \in Lists
      /\ Cardinality(pending) \in Nat
    BY <1>2, PendingIs
<1>4. /\ stage = "baseline" => pending = {1}
      /\ tallies \in [1 .. Len(cs) -> [hits : Nat, misses : Nat, unknowns : Nat]]
      /\ got \in Seq(Attempts) /\ Len(got) < granted /\ granted <= Cardinality(pending)
      /\ \A i \in pending : cs[i] \notin DOMAIN cache
      /\ stage = "faults" /\ level = since =>
             \A i \in 1 .. Len(cs) : i \notin pending => Judged(cs[i])
      /\ \A i \in 1 .. Len(cs) : \A l \in {level, "class"} :
             tallies[i].hits + Hit(i, l) <= Weight(l, shown[i])
      /\ \A j \in 1 .. Len(got) :
             cs[At(j)] = Whole /\ Drifts(got[j], "key") => wholeDrifted
    BY <1>0, <1>2 DEF ShrinkInv, OpenInv
<1>5. shown \in [1 .. Len(cs) -> Evidence] /\ \A i \in 1 .. Len(cs) : shown[i].own <= shown[i].any
    BY <1>2 DEF ShrinkInv, AskedInv, Open
<1>6. Candidates' = cs /\ Current' = Current
    BY SameQuestion
<1>7. Len(got) \in Nat /\ n \in 1 .. Cardinality(pending) /\ n <= Cardinality(pending)
    <2>1. Len(got) \in Nat
        BY <1>4
    <2>2. granted \in Int
        BY DEF ShrinkTyped
    <2> QED BY <1>3, <1>4, <2>1, <2>2
<1>8. k \in pending /\ Place(k) = n
    BY <1>3, <1>7, PlacesAre
<1>9. \A i \in pending : Place(i) = n => i = k
    BY <1>3, PlacesAre
<1>10. /\ got' \in Seq(Attempts) /\ Len(got') = n /\ got'[n] = a
       /\ \A j \in 1 .. Len(got) : got'[j] = got[j]
    BY <1>1, <1>4
<1>11. /\ a \in Attempt
       /\ \A l \in {"key", "class"} : Signal(a, l) = "reproduced" => Signal(a, "class") = "reproduced"
    BY SignalsAre, ProberAssumption
<1> HIDE DEF n, cs, k
<1>12. /\ shown' \in [1 .. Len(cs) -> Evidence] /\ k \in 1 .. Len(cs)
       /\ \A i \in 1 .. Len(cs) : shown'[i] = IF i = k THEN ShownBy(a, shown[k]) ELSE shown[i]
    <2>1. shown[k] \in Evidence /\ k \in 1 .. Len(cs)
        BY <1>3, <1>5, <1>8
    <2>2. ShownBy(a, shown[k]) \in Evidence
        BY <2>1 DEF ShownBy, Evidence
    <2> QED BY <1>1, <1>5, <2>1, <2>2
<1>13. \A i \in 1 .. Len(cs) : shown'[i].own <= shown'[i].any
    <2>1. ShownBy(a, shown[k]).own <= ShownBy(a, shown[k]).any
        BY <1>5, <1>11, <1>12 DEF ShownBy, Evidence
    <2> QED BY <1>5, <1>12, <2>1
<1>14. ShrinkTyped'
    <2>1. reason' \in Stops
        BY <1>0 DEF ShrinkTyped, Stops
    <2>2. wholeDrifted' \in BOOLEAN
        BY <1>1 DEF ShrinkTyped
    <2>3. cpc' \in {"idle", "round", "run", "judge", "reprobe", "settle", "answer"}
        BY <1>2
    <2> QED BY <1>0, <1>6, <2>1, <2>2, <2>3 DEF ShrinkTyped
<1>15. ListInv' /\ WindowInv' /\ MemoInv' /\ GroundsInv' /\ MinimalInv' /\ GateInv'
    <2>1. Accepted' = Accepted
        BY <1>0, <1>2, <1>6 DEF Accepted
    <2> QED BY <1>0, <2>1, JudgesNothing
<1>16. RelaxInv'
    BY <1>0, <1>1 DEF ShrinkInv, RelaxInv, OnlyTheWorldItselfRelaxes
<1>17. AskedInv'
    <2>1. Asking'
        BY <1>0, <1>3 DEF Asking
    <2> QED BY <1>0, <1>2, <1>6, <1>12, <1>13, <2>1 DEF AskedInv
<1>18. AnswerInv'
    BY <1>2 DEF AnswerInv
<1>19. ASSUME NEW i \in 1 .. Len(cs), NEW l \in {level, "class"}
       PROVE  tallies[i].hits + Hit(i, l)' <= Weight(l, shown'[i])
    <2>0. l \in {"key", "class"} /\ tallies[i].hits \in Nat /\ shown[i] \in Evidence
        BY <1>4, <1>5 DEF ShrinkTyped
    <2>1. tallies[i].hits + Hit(i, l) <= Weight(l, shown[i])
        BY <1>4
    <2>2. Place(i)' = Place(i) /\ (i \in pending => Place(i) \in Nat)
        BY <1>0, <1>3, PlacesAre DEF Place, RankOf
    <2>3. CASE i # k
        <3>1. ASSUME i \in pending PROVE Place(i) # n
            BY <1>9, <2>3, <3>1
        <3>2. Hit(i, l)' = Hit(i, l)
            <4>1. CASE i \in pending /\ Place(i) <= Len(got)
                <5>1. Place(i) \in 1 .. Len(got)
                    BY <1>3, <4>1, PlacesAre
                <5>2. got'[Place(i)] = got[Place(i)] /\ Place(i) <= n
                    BY <1>7, <1>10, <5>1 DEF n
                <5> QED BY <1>0, <1>10, <2>2, <4>1, <5>2 DEF Hit
            <4>2. CASE i \in pending /\ ~(Place(i) <= Len(got))
                <5>1. ~(Place(i) <= n)
                    BY <1>7, <2>2, <3>1, <4>2 DEF n
                <5> QED BY <1>0, <1>10, <2>2, <4>2, <5>1 DEF Hit
            <4>3. CASE i \notin pending
                BY <1>0, <4>3 DEF Hit
            <4> QED BY <4>1, <4>2, <4>3
        <3> QED BY <1>12, <2>1, <2>3, <3>2
    <2>4. CASE i = k
        <3>1. Hit(i, l) = 0
            <4>1. ~(Place(i) <= Len(got))
                BY <1>7, <1>8, <2>4 DEF n
            <4> QED BY <4>1 DEF Hit
        <3>2. Hit(i, l)' = IF Signal(a, l) = "reproduced" THEN 1 ELSE 0
            <4>1. Place(i)' = n /\ n <= Len(got') /\ got'[n] = a /\ i \in pending'
                BY <1>0, <1>7, <1>8, <1>10, <2>2, <2>4
            <4>2. Hit(i, l)' = IF Signal(got'[n], l)= "reproduced" THEN 1 ELSE 0
                BY <4>1 DEF Hit, Signal, Matches
            <4> QED BY <4>1, <4>2
        <3>3. Weight(l, shown'[i]) = Weight(l, shown[i]) + (IF Signal(a, l) = "reproduced" THEN 1 ELSE 0)
            BY <1>12, <2>0, <2>4 DEF Weight, ShownBy
        <3>4. Weight(l, shown[i]) \in Nat
            BY <2>0 DEF Weight, Evidence
        <3> QED BY <2>0, <2>1, <3>1, <3>2, <3>3, <3>4
    <2> QED BY <2>3, <2>4
<1>20. ASSUME NEW j \in 1 .. Len(got')
       PROVE  cs[At(j)] = Whole /\ Drifts(got'[j], "key") => wholeDrifted'
    <2>1. CASE j = n
        BY <1>1, <1>10, <2>1 DEF k
    <2>2. CASE j # n
        <3>1. j \in 1 .. Len(got)
            BY <1>7, <1>10, <2>2 DEF n
        <3> QED BY <1>1, <1>4, <1>10, <3>1
    <2> QED BY <2>1, <2>2
<1>21. OpenInv'
    <2>1. \A j : At(j)' = At(j)
        BY <1>0 DEF At
    <2>2. \A j \in 1 .. Len(got') : (Candidates[At(j)] = Whole /\ Drifts(got[j], "key") => wholeDrifted)'
        BY <1>6, <1>20, <2>1 DEF Whole, Drifts, Signal, Matches
    <2>3. \A i \in 1 .. Len(cs) : \A l \in {level, "class"} : tallies'[i].hits + Hit(i, l)' <= Weight(l, shown'[i])
        BY <1>0, <1>19
    <2>5. cpc' = "run" => Len(got') < granted'
        <3>1. granted \in Int
            BY DEF ShrinkTyped
        <3> QED BY <1>0, <1>4, <1>7, <1>10, <3>1 DEF n
    <2>6. /\ pending' \subseteq 1 .. Len(Candidates') /\ pending' # {}
          /\ stage' = "baseline" => pending' = {1}
          /\ tallies' \in [1 .. Len(Candidates') -> [hits : Nat, misses : Nat, unknowns : Nat]]
        BY <1>0, <1>3, <1>4, <1>6, <1>8
    <2>7. /\ got' \in Seq(Attempts) /\ Len(got') <= Cardinality(pending')
          /\ cpc' = "run" => Len(got') < granted' /\ granted' <= Cardinality(pending')
        BY <1>0, <1>4, <1>7, <1>10, <2>5
    <2>8. (/\ \A i \in pending : Candidates[i] \notin DOMAIN cache
           /\ stage = "faults" /\ level = since =>
                  \A i \in 1 .. Len(Candidates) : i \notin pending => Judged(Candidates[i]))'
        BY <1>0, <1>4, <1>6 DEF Judged
    <2>9. (\A i \in 1 .. Len(Candidates) : \A l \in {level, "class"} :
               tallies[i].hits + Hit(i, l) <= Weight(l, shown[i]))'
        <3>1. \A i : Weight(level, shown[i])' = Weight(level, shown'[i]) /\ Weight("class", shown[i])' = Weight("class", shown'[i])
            BY <1>0 DEF Weight
        <3> QED BY <1>0, <1>6, <2>3, <3>1
    <2> QED BY <2>2, <2>6, <2>7, <2>8, <2>9 DEF OpenInv
<1> QED BY <1>14, <1>15, <1>16, <1>17, <1>18, <1>21 DEF ShrinkInv

\* A drift is noted of the unreduced world only when that world has shown it.
LEMMA NotedIs ==
    ASSUME ShrinkTyped, NEW a \in Attempt, NEW c
    PROVE  /\ Noted(a, c, Whole) \subseteq {"reduced", "unreduced"}
           /\ "unreduced" \in Noted(a, c, Whole) => opt.baseline /\ c = Whole /\ Drifts(a, "key")
<1>1. level \in {"key", "class"}
    BY DEF ShrinkTyped
<1>2. Drifts(a, level) => Drifts(a, "key")
    BY <1>1, SignalsAre
<1> QED BY <1>2 DEF Noted, Provenance

LEMMA NoteKeeps ==
    ASSUME ShrinkTyped, ShrinkInv, Note(Candidates, Whole), UNCHANGED <<pipeline, corpus, history>>
    PROVE  ShrinkTyped' /\ ShrinkInv'
<1> DEFINE cs == Candidates
           d == drifts \cup UNION {Noted(got[j], cs[At(j)], Whole) : j \in 1 .. Len(got)}
<1>0. /\ UNCHANGED <<opt, interrupted, expired, spent, reserve, level, mayCalibrate, calibrated, cache,
                     pending, tallies, got, granted, reason, answer, shown, wholeDrifted>>
      /\ UNCHANGED <<stage, faults, ops, gran, half, window, stop, trials, reproduced, entry, exitCode,
                     grounds, since>>
      /\ cpc = "judge" /\ cpc' \in {"reprobe", "settle"} /\ drifts' = d
      /\ reprobes' \in {reprobes, reprobes + 1}
    BY DEF Note, ledger, pipeline, corpus, history
<1>1. Open /\ Open'
    BY <1>0 DEF Open
<1>2. /\ got \in Seq(Attempts)
      /\ \A j \in 1 .. Len(got) : cs[At(j)] = Whole /\ Drifts(got[j], "key") => wholeDrifted
    BY <1>1 DEF ShrinkInv, OpenInv
<1> HIDE DEF cs
<1>3. ASSUME NEW j \in 1 .. Len(got)
      PROVE  /\ Noted(got[j], cs[At(j)], Whole) \subseteq {"reduced", "unreduced"}
             /\ "unreduced" \in Noted(got[j], cs[At(j)], Whole) => opt.baseline /\ wholeDrifted
    <2>1. got[j] \in Attempt
        BY <1>2, ProberAssumption
    <2> QED BY <1>2, <2>1, NotedIs
<1>4. d \subseteq {"reduced", "unreduced"} /\ ("unreduced" \in d => opt.baseline /\ wholeDrifted)
    <2>1. drifts \subseteq {"reduced", "unreduced"} /\ ("unreduced" \in drifts => opt.baseline /\ wholeDrifted)
        BY DEF ShrinkTyped, ShrinkInv, RelaxInv
    <2>2. ASSUME NEW p \in d
          PROVE  p \in {"reduced", "unreduced"} /\ (p = "unreduced" => opt.baseline /\ wholeDrifted)
        <3>1. CASE p \in drifts
            BY <2>1, <3>1
        <3>2. CASE p \notin drifts
            <4>1. PICK j \in 1 .. Len(got) : p \in Noted(got[j], cs[At(j)], Whole)
                BY <3>2
            <4> QED BY <1>3, <4>1
        <3> QED BY <3>1, <3>2
    <2> HIDE DEF d
    <2> QED BY <2>2
<1> HIDE DEF d
<1>5. ShrinkTyped'
    <2>1. Current' = Current
        BY SameQuestion
    <2>2. reprobes' \in Nat
        BY <1>0 DEF ShrinkTyped
    <2>3. cpc' \in {"idle", "round", "run", "judge", "reprobe", "settle", "answer"}
        BY <1>0
    <2> QED BY <1>0, <1>4, <2>1, <2>2, <2>3 DEF ShrinkTyped
<1>6. /\ AskedInv' /\ OpenInv' /\ AnswerInv'
      /\ ListInv' /\ WindowInv' /\ MemoInv' /\ GroundsInv' /\ MinimalInv' /\ GateInv'
    <2>1. cpc' \notin {"run", "round"}
        BY <1>0
    <2> QED BY <1>0, <1>1, <2>1, StillOpen
<1>7. RelaxInv'
    BY <1>0, <1>4 DEF ShrinkInv, RelaxInv, OnlyTheWorldItselfRelaxes
<1> QED BY <1>5, <1>6, <1>7 DEF ShrinkInv

LEMMA ReprobeKeeps ==
    ASSUME ShrinkTyped, ShrinkInv, Reprobe(Whole), UNCHANGED <<pipeline, corpus, history>>
    PROVE  ShrinkTyped' /\ ShrinkInv'
<1>1. PICK x \in Single :
          /\ Charge(x)
          /\ drifts' = drifts \cup (IF x.ran THEN Noted(x.seen, Whole, Whole) ELSE {})
          /\ reason' = IF reason = Complete THEN x.stop ELSE reason
          /\ wholeDrifted' = (wholeDrifted \/ Drifts(x.seen, "key"))
    BY DEF Reprobe
<1>0. /\ UNCHANGED <<opt, interrupted, expired, reserve, level, mayCalibrate, calibrated, reprobes, cache,
                     pending, tallies, got, granted, answer, shown>>
      /\ UNCHANGED <<stage, faults, ops, gran, half, window, stop, trials, reproduced, entry, exitCode,
                     grounds, since>>
      /\ cpc = "reprobe" /\ cpc' = "settle"
    BY DEF Reprobe, pipeline, corpus, history
<1>2. Open /\ Open'
    BY <1>0 DEF Open
<1>3. x.ran \in BOOLEAN /\ x.seen \in Attempt /\ x.stop \in Stops /\ spent' \in Nat
    BY <1>1, SingleIs
<1>4. /\ Noted(x.seen, Whole, Whole) \subseteq {"reduced", "unreduced"}
      /\ "unreduced" \in Noted(x.seen, Whole, Whole) => opt.baseline /\ Drifts(x.seen, "key")
    BY <1>3, NotedIs
<1>5. ShrinkTyped'
    <2>1. Current' = Current
        BY SameQuestion
    <2>2. reason' \in Stops /\ drifts' \subseteq {"reduced", "unreduced"}
        BY <1>1, <1>3, <1>4 DEF ShrinkTyped
    <2>3. wholeDrifted' \in BOOLEAN
        BY <1>1 DEF Drifts, ShrinkTyped
    <2>4. cpc' \in {"idle", "round", "run", "judge", "reprobe", "settle", "answer"}
        BY <1>0
    <2> QED BY <1>0, <1>3, <2>1, <2>2, <2>3, <2>4 DEF ShrinkTyped
<1>6. /\ AskedInv' /\ OpenInv' /\ AnswerInv'
      /\ ListInv' /\ WindowInv' /\ MemoInv' /\ GroundsInv' /\ MinimalInv' /\ GateInv'
    <2>1. wholeDrifted => wholeDrifted'
        BY <1>1
    <2>2. cpc' \notin {"run", "round"}
        BY <1>0
    <2> QED BY <1>0, <1>2, <2>1, <2>2, StillOpen
<1>7. RelaxInv'
    <2>1. "unreduced" \in drifts' => opt.baseline /\ wholeDrifted'
        BY <1>1, <1>4 DEF ShrinkInv, RelaxInv
    <2>2. wholeDrifted => wholeDrifted'
        BY <1>1
    <2> QED BY <1>0, <2>1, <2>2 DEF ShrinkInv, RelaxInv, OnlyTheWorldItselfRelaxes
<1> QED BY <1>5, <1>6, <1>7 DEF ShrinkInv

-----------------------------------------------------------------------------
\* The end of a round: the level that is in force from now on, who was executed,
\* the tallies, who has settled, who was accepted, and what is memoized.

Lowered == Calibratable /\ KeyDrift(drifts)
Ruling == IF Lowered THEN "class" ELSE level
RanHere == {At(j) : j \in 1 .. Len(got)}
Tallied ==
    [i \in DOMAIN tallies |->
        IF i \in RanHere THEN Observe(tallies[i], Signal(got[Place(i)], Ruling)) ELSE tallies[i]]
Finished == {i \in pending : Settled(Tallied[i])}
Won == {i \in Finished : Judgement(Tallied[i]) = "reproduced"}
Fresh(cs) == [c \in {cs[i] : i \in Finished} |-> Judgement(Tallied[CHOOSE i \in Finished : cs[i] = c])]
Ended == Won # {} \/ reason # Complete \/ Finished = pending

LEMMA SettleIs ==
    ASSUME NEW cs, Settle(cs)
    PROVE  /\ cpc = "settle" /\ got' = <<>> /\ granted' = 0 /\ reason' = Complete
           /\ UNCHANGED <<opt, interrupted, expired, spent, reserve, mayCalibrate, reprobes, shown, wholeDrifted>>
           /\ Lowered => level' = "class" /\ calibrated' = TRUE /\ drifts' = {} /\ cache' = Fresh(cs)
           /\ ~Lowered => cache' = Memo(Fresh(cs)) /\ UNCHANGED <<level, calibrated, drifts>>
           /\ Ended => /\ cpc' = "answer" /\ pending' = {} /\ tallies' = <<>>
                       /\ Won # {} => answer' = [index |-> Min(Won), signal |-> "reproduced", stop |-> Complete]
                       /\ Won = {} => answer' = [index |-> 0, signal |-> Judgement(Tallied[1]), stop |-> reason]
           /\ ~Ended => cpc' = "round" /\ pending' = pending \ Finished /\ tallies' = Tallied /\ answer' = answer
<1>1. /\ cpc = "settle" /\ got' = <<>> /\ granted' = 0 /\ reason' = Complete
      /\ UNCHANGED <<opt, interrupted, expired, spent, reserve, mayCalibrate, reprobes, shown, wholeDrifted>>
    BY DEF Settle, ledger
<1>2. /\ Lowered => level' = "class" /\ calibrated' = TRUE /\ drifts' = {} /\ cache' = Fresh(cs)
      /\ ~Lowered => cache' = Memo(Fresh(cs)) /\ UNCHANGED <<level, calibrated, drifts>>
    BY DEF Settle, Lowered, Fresh, Finished, Tallied, RanHere, Ruling, Place, RankOf, Relax
<1>3. /\ Ended => /\ cpc' = "answer" /\ pending' = {} /\ tallies' = <<>>
                  /\ Won # {} => answer' = [index |-> Min(Won), signal |-> "reproduced", stop |-> Complete]
                  /\ Won = {} => answer' = [index |-> 0, signal |-> Judgement(Tallied[1]), stop |-> reason]
      /\ ~Ended => cpc' = "round" /\ pending' = pending \ Finished /\ tallies' = Tallied /\ answer' = answer
    BY DEF Settle, Ended, Won, Lowered, Finished, Tallied, RanHere, Ruling, Place, RankOf
<1> QED BY <1>1, <1>2, <1>3

\* What a round was worth to a candidate was shown in it.
LEMMA TalliedIs ==
    ASSUME ShrinkTyped, ShrinkInv, cpc = "settle", NEW i \in 1 .. Len(Candidates)
    PROVE  /\ Tallied[i] \in [hits : Nat, misses : Nat, unknowns : Nat]
           /\ Tallied[i].hits <= Weight(Ruling, shown[i])
<1>1. Open
    BY DEF Open
<1>2. /\ tallies \in [1 .. Len(Candidates) -> [hits : Nat, misses : Nat, unknowns : Nat]]
      /\ tallies[i] \in [hits : Nat, misses : Nat, unknowns : Nat]
      /\ Len(got) <= Cardinality(pending) /\ got \in Seq(Attempts)
      /\ \A l \in {level, "class"} : tallies[i].hits + Hit(i, l) <= Weight(l, shown[i])
    BY <1>1 DEF ShrinkInv, OpenInv
<1>3. Ruling \in {level, "class"}
    BY DEF Ruling
<1>4. Tallied[i] = IF i \in RanHere THEN Observe(tallies[i], Signal(got[Place(i)], Ruling)) ELSE tallies[i]
    BY <1>2 DEF Tallied
<1>5. pending \in Lists /\ Cardinality(pending) \in Nat
    BY <1>1, PendingIs
<1>6. i \in RanHere => i \in pending /\ Place(i) <= Len(got)
    <2> SUFFICES ASSUME i \in RanHere PROVE i \in pending /\ Place(i) <= Len(got)
        OBVIOUS
    <2>1. PICK j \in 1 .. Len(got) : i = At(j)
        BY DEF RanHere
    <2>2. j \in 1 .. Cardinality(pending) /\ j <= Len(got)
        BY <1>2, <1>5, <2>1
    <2> QED BY <1>5, <2>1, <2>2, PlacesAre
<1>7. \A s : /\ Observe(tallies[i], s) \in [hits : Nat, misses : Nat, unknowns : Nat]
             /\ Observe(tallies[i], s).hits = tallies[i].hits + (IF s = "reproduced" THEN 1 ELSE 0)
    BY <1>2 DEF Observe
<1>8. Hit(i, Ruling) \in {0, 1} /\ tallies[i].hits \in Nat
    BY <1>2 DEF Hit
<1>9. Weight(Ruling, shown[i]) \in Int
    <2>1. shown[i] \in Evidence
        BY <1>1 DEF ShrinkInv, AskedInv, Open
    <2> QED BY <2>1 DEF Weight, Evidence
<1>10. tallies[i].hits + Hit(i, Ruling) <= Weight(Ruling, shown[i])
    BY <1>2, <1>3
<1>11. CASE i \in RanHere
    <2>1. Hit(i, Ruling) = IF Signal(got[Place(i)], Ruling) = "reproduced" THEN 1 ELSE 0
        BY <1>6, <1>11 DEF Hit
    <2> QED BY <1>4, <1>7, <1>10, <1>11, <2>1
<1>12. CASE i \notin RanHere
    BY <1>2, <1>4, <1>8, <1>9, <1>10, <1>12
<1> QED BY <1>11, <1>12

\* What an end of a round puts into the memo.
LEMMA FreshIs ==
    ASSUME ShrinkTyped, ShrinkInv, Settle(Candidates)
    PROVE  /\ Finished \subseteq pending
           /\ \A i \in 1 .. Len(Candidates) : Judgement(Tallied[i]) \in Signals
           /\ \A i \in Finished : Candidates[i] \in DOMAIN cache' /\ cache'[Candidates[i]] = Judgement(Tallied[i])
           /\ ~Lowered => \A c \in DOMAIN cache : c \in DOMAIN cache' /\ cache'[c] = cache[c]
           /\ \A c \in DOMAIN cache' : \/ \E i \in Finished : c = Candidates[i]
                                       \/ c \in DOMAIN cache /\ cache'[c] = cache[c] /\ ~Lowered
           /\ cache' \in [DOMAIN cache' -> Signals] /\ DOMAIN cache' \subseteq World
<1> DEFINE cs == Candidates
<1>1. Open
    BY SettleIs DEF Open
<1>2. /\ Asking /\ Len(cs) \in Nat \ {0} /\ pending \subseteq 1 .. Len(cs)
    BY <1>1, PendingIs
<1>3. cs \in [1 .. Len(cs) -> World] /\ \A i, j \in 1 .. Len(cs) : cs[i] = cs[j] => i = j
    <2>1. cs \in [1 .. Len(cs) -> World] /\ \A i, j \in 1 .. Len(cs) : Leq(cs[i], cs[j]) => i = j
        BY <1>2, CandidatesAre DEF ShrinkInv
    <2> HIDE DEF cs
    <2> QED BY <2>1, LeqOrder
<1>4. \A i \in pending : cs[i] \notin DOMAIN cache
    BY <1>1 DEF ShrinkInv, OpenInv
<1>5. /\ Lowered => cache' = Fresh(cs)
      /\ ~Lowered => cache' = Memo(Fresh(cs))
    BY SettleIs
<1> HIDE DEF cs
<1>6. Finished \subseteq pending
    BY DEF Finished
<1>7. \A i \in 1 .. Len(cs) : Judgement(Tallied[i]) \in Signals
    BY DEF Judgement, Signals
<1>8. DOMAIN Fresh(cs) = {cs[i] : i \in Finished} /\ \A i \in Finished : Fresh(cs)[cs[i]] = Judgement(Tallied[i])
    <2>1. DOMAIN Fresh(cs) = {cs[i] : i \in Finished}
        BY DEF Fresh
    <2>2. ASSUME NEW i \in Finished PROVE Fresh(cs)[cs[i]] = Judgement(Tallied[i])
        <3>1. (CHOOSE j \in Finished : cs[j] = cs[i]) = i
            BY <1>2, <1>3, <1>6
        <3>2. Fresh(cs)[cs[i]] = Judgement(Tallied[CHOOSE j \in Finished : cs[j] = cs[i]])
            BY DEF Fresh
        <3> QED BY <3>1, <3>2
    <2> QED BY <2>1, <2>2
<1>9. DOMAIN Fresh(cs) \subseteq World /\ \A c \in DOMAIN Fresh(cs) : c \notin DOMAIN cache
    BY <1>2, <1>3, <1>4, <1>6, <1>8
<1>10. \A c \in DOMAIN Fresh(cs) : Fresh(cs)[c] \in Signals
    BY <1>2, <1>6, <1>7, <1>8
<1>11. Fresh(cs) = [c \in DOMAIN Fresh(cs) |-> Fresh(cs)[c]]
    BY DEF Fresh
<1>12. /\ DOMAIN Memo(Fresh(cs)) = DOMAIN Fresh(cs) \cup DOMAIN cache
       /\ \A c \in DOMAIN Fresh(cs) : Memo(Fresh(cs))[c] = Fresh(cs)[c]
       /\ \A c \in DOMAIN cache : Memo(Fresh(cs))[c] = cache[c]
       /\ Memo(Fresh(cs)) = [c \in DOMAIN Memo(Fresh(cs)) |-> Memo(Fresh(cs))[c]]
    BY <1>9 DEF Memo
<1>13. DOMAIN cache \subseteq World /\ cache \in [DOMAIN cache -> Signals]
    BY DEF ShrinkTyped
<1> DEFINE F == Fresh(cs)
           M == Memo(F)
<1> HIDE DEF F, M
<1>14. /\ DOMAIN F = {cs[i] : i \in Finished} /\ \A i \in Finished : F[cs[i]] = Judgement(Tallied[i])
       /\ DOMAIN F \subseteq World /\ \A c \in DOMAIN F : c \notin DOMAIN cache
       /\ \A c \in DOMAIN F : F[c] \in Signals
       /\ F = [c \in DOMAIN F |-> F[c]]
       /\ DOMAIN M = DOMAIN F \cup DOMAIN cache
       /\ \A c \in DOMAIN F : M[c] = F[c]
       /\ \A c \in DOMAIN cache : M[c] = cache[c]
       /\ M = [c \in DOMAIN M |-> M[c]]
       /\ cache' = IF Lowered THEN F ELSE M
    BY <1>5, <1>8, <1>9, <1>10, <1>11, <1>12 DEF F, M
<1>15. \A i \in Finished : cs[i] \in DOMAIN cache' /\ cache'[cs[i]] = Judgement(Tallied[i])
    BY <1>14
<1>16. ~Lowered => \A c \in DOMAIN cache : c \in DOMAIN cache' /\ cache'[c] = cache[c]
    BY <1>14
<1>17. \A c \in DOMAIN cache' : \/ \E i \in Finished : c = cs[i]
                                \/ c \in DOMAIN cache /\ cache'[c] = cache[c] /\ ~Lowered
    BY <1>14
<1>18. \A c \in DOMAIN cache' : c \in World /\ cache'[c] \in Signals
    BY <1>13, <1>14
<1>19. cache' = [c \in DOMAIN cache' |-> cache'[c]]
    BY <1>14
<1>20. cache' \in [DOMAIN cache' -> Signals]
    BY <1>18, <1>19
<1> QED BY <1>6, <1>7, <1>15, <1>16, <1>17, <1>18, <1>20 DEF cs

\* The level is lowered once, and only for the world with nothing removed.
LEMMA LoweredIs ==
    ASSUME ShrinkTyped, ShrinkInv
    PROVE  /\ Lowered => level = "key" /\ since = "key" /\ Ruling = "class"
                         /\ opt.typed = "default" /\ opt.baseline /\ wholeDrifted
           /\ ~Lowered => Ruling = level
           /\ Ruling \in {"key", "class"} /\ (level = "class" => Ruling = "class")
           /\ \A e \in Evidence : e.own <= e.any => Weight(level, e) <= Weight(Ruling, e)
                                                    /\ Weight(Ruling, e) <= Weight("class", e)
<1>1. Lowered => level = "key" /\ mayCalibrate /\ "unreduced" \in drifts
    BY DEF Lowered, Calibratable, KeyDrift
<1>2. Ruling \in {"key", "class"} /\ (level = "class" => Ruling = "class")
    BY DEF Ruling, ShrinkTyped
<1>3. Lowered => since = "key" /\ opt.typed = "default" /\ opt.baseline /\ wholeDrifted
    BY <1>1 DEF ShrinkInv, RelaxInv, ShrinkTyped
<1>4. \A e \in Evidence : e.own <= e.any => Weight(level, e) <= Weight(Ruling, e)
                                            /\ Weight(Ruling, e) <= Weight("class", e)
    BY DEF Weight, Evidence, Ruling, ShrinkTyped
<1> QED BY <1>1, <1>2, <1>3, <1>4 DEF Ruling

LEMMA SettleKeeps ==
    ASSUME ShrinkTyped, ShrinkInv, Settle(Candidates), UNCHANGED <<pipeline, corpus, history>>
    PROVE  ShrinkTyped' /\ ShrinkInv'
<1> DEFINE cs == Candidates
<1>0. /\ UNCHANGED <<opt, interrupted, expired, spent, reserve, mayCalibrate, reprobes, shown, wholeDrifted>>
      /\ UNCHANGED <<stage, faults, ops, gran, half, window, stop, trials, reproduced, entry, exitCode,
                     grounds, since>>
      /\ cpc = "settle" /\ got' = <<>> /\ granted' = 0 /\ reason' = Complete
      /\ cpc' \in {"round", "answer"}
    BY SettleIs DEF pipeline, corpus, history
<1>1. Open
    BY <1>0 DEF Open
<1>2. /\ Asking /\ Len(cs) \in Nat \ {0} /\ pending \subseteq 1 .. Len(cs) /\ pending \in Lists
    BY <1>1, PendingIs
<1>3. /\ cs \in [1 .. Len(cs) -> World]
      /\ \A i \in 1 .. Len(cs) : Leq(cs[i], Current)
      /\ \A i, j \in 1 .. Len(cs) : Leq(cs[i], cs[j]) => i = j
      /\ stage \in {"baseline", "faults"} => \A i \in 1 .. Len(cs) : cs[i].ops = Every
    BY <1>2, CandidatesAre DEF ShrinkInv
<1>4. Candidates' = cs /\ Current' = Current
    BY SameQuestion
<1>5. /\ Lowered => level' = "class" /\ calibrated' = TRUE /\ drifts' = {}
      /\ ~Lowered => UNCHANGED <<level, calibrated, drifts>>
      /\ level' = Ruling
    BY SettleIs DEF Ruling
<1>6. /\ Ended => /\ cpc' = "answer" /\ pending' = {} /\ tallies' = <<>>
                  /\ Won # {} => answer' = [index |-> Min(Won), signal |-> "reproduced", stop |-> Complete]
                  /\ Won = {} => answer' = [index |-> 0, signal |-> Judgement(Tallied[1]), stop |-> reason]
      /\ ~Ended => cpc' = "round" /\ pending' = pending \ Finished /\ tallies' = Tallied /\ answer' = answer
    BY SettleIs
<1>7. /\ Finished \subseteq pending
      /\ \A i \in 1 .. Len(cs) : Judgement(Tallied[i]) \in Signals
      /\ \A i \in Finished : cs[i] \in DOMAIN cache' /\ cache'[cs[i]] = Judgement(Tallied[i])
      /\ ~Lowered => \A c \in DOMAIN cache : c \in DOMAIN cache' /\ cache'[c] = cache[c]
      /\ \A c \in DOMAIN cache' : \/ \E i \in Finished : c = cs[i]
                                  \/ c \in DOMAIN cache /\ cache'[c] = cache[c] /\ ~Lowered
      /\ cache' \in [DOMAIN cache' -> Signals] /\ DOMAIN cache' \subseteq World
    BY FreshIs
<1>8. \A i \in 1 .. Len(cs) : /\ Tallied[i] \in [hits : Nat, misses : Nat, unknowns : Nat]
                              /\ Tallied[i].hits <= Weight(Ruling, shown[i])
    BY <1>0, TalliedIs
<1>9. /\ Lowered => level = "key" /\ since = "key" /\ Ruling = "class"
                    /\ opt.typed = "default" /\ opt.baseline /\ wholeDrifted
      /\ ~Lowered => Ruling = level
      /\ Ruling \in {"key", "class"} /\ (level = "class" => Ruling = "class")
      /\ \A e \in Evidence : e.own <= e.any => Weight(level, e) <= Weight(Ruling, e)
                                               /\ Weight(Ruling, e) <= Weight("class", e)
    BY LoweredIs
<1>10. shown \in [1 .. Len(cs) -> Evidence] /\ \A i \in 1 .. Len(cs) : shown[i].own <= shown[i].any
    BY <1>0 DEF ShrinkInv, AskedInv
<1>11. /\ \A i \in pending : cs[i] \notin DOMAIN cache
       /\ stage = "baseline" => pending = {1}
       /\ stage = "faults" /\ level = since => \A i \in 1 .. Len(cs) : i \notin pending => Judged(cs[i])
       /\ tallies \in [1 .. Len(cs) -> [hits : Nat, misses : Nat, unknowns : Nat]]
    BY <1>1 DEF ShrinkInv, OpenInv
<1>12. level' = since' => ~Lowered
    BY <1>0, <1>5, <1>9
<1>13. opt.accept \in 1 .. RejectTrials
    BY OptionIs DEF ShrinkTyped
<1> HIDE DEF cs
<1>14. Won \subseteq Finished /\ (Won # {} => Min(Won) \in Won)
    <2>1. Won \subseteq Finished
        BY DEF Won
    <2>2. Won \subseteq Nat
        BY <1>2, <1>7, <2>1
    <2> QED BY <2>1, <2>2, LeastOf
<1>15. \A i \in Won : Weight(Ruling, shown[i]) >= opt.accept /\ i \in 1 .. Len(cs)
    <2> TAKE i \in Won
    <2>1. i \in 1 .. Len(cs) /\ Judgement(Tallied[i]) = "reproduced"
        BY <1>2, <1>7, <1>14 DEF Won
    <2>2. Tallied[i].hits >= opt.accept
        BY <2>1 DEF Judgement
    <2>3. shown[i] \in Evidence /\ Tallied[i].hits \in Nat /\ Tallied[i].hits <= Weight(Ruling, shown[i])
        BY <1>8, <1>10, <2>1
    <2>4. Weight(Ruling, shown[i]) \in Int
        BY <2>3 DEF Weight, Evidence
    <2> QED BY <1>13, <2>1, <2>2, <2>3, <2>4
<1>16. Won = {} => \A i \in Finished : cache'[cs[i]] # "reproduced"
    BY <1>7 DEF Won
<1>17. answer' \in [index : Nat, signal : Signals, stop : Stops]
    <2>1. 1 \in 1 .. Len(cs) /\ Judgement(Tallied[1]) \in Signals /\ reason \in Stops /\ Complete \in Stops
        BY <1>2, <1>7 DEF ShrinkTyped, Stops
    <2>2. Won # {} => Min(Won) \in Nat
        BY <1>2, <1>7, <1>14
    <2> QED BY <1>6, <2>1, <2>2 DEF ShrinkTyped, Signals
<1>18. ShrinkTyped'
    <2>1. level' \in {"key", "class"} /\ calibrated' \in BOOLEAN /\ drifts' \subseteq {"reduced", "unreduced"}
        BY <1>5, <1>9 DEF ShrinkTyped
    <2>2. reason' \in Stops /\ granted' \in Nat /\ cpc' \in {"idle", "round", "run", "judge", "reprobe", "settle", "answer"}
        BY <1>0 DEF Stops
    <2> QED BY <1>0, <1>4, <1>7, <1>17, <2>1, <2>2 DEF ShrinkTyped
<1>19. ListInv' /\ WindowInv' /\ GateInv'
    <2>1. stage \in {"baseline", "probe", "faults"} => \A c \in DOMAIN cache' : c.ops = Every
        <3> SUFFICES ASSUME stage \in {"baseline", "probe", "faults"}, NEW c \in DOMAIN cache' PROVE c.ops = Every
            OBVIOUS
        <3>1. stage \in {"baseline", "faults"}
            BY <1>2 DEF Asking
        <3>2. \A d \in DOMAIN cache : d.ops = Every
            BY <3>1 DEF ShrinkInv, ListInv
        <3> QED BY <1>2, <1>3, <1>7, <3>1, <3>2
    <2>2. ListInv'
        BY <1>0, <2>1 DEF ShrinkInv, ListInv, Offers
    <2>3. WindowInv'
        BY <1>0 DEF ShrinkInv, WindowInv, More
    <2>4. GateInv'
        BY <1>0 DEF ShrinkInv, GateInv
    <2> QED BY <2>2, <2>3, <2>4
<1>20. RelaxInv'
    <2>1. since' = "class" => level' = "class"
        BY <1>0, <1>5, <1>9 DEF ShrinkInv, RelaxInv
    <2>2. "unreduced" \in drifts' => opt'.baseline /\ wholeDrifted'
        BY <1>0, <1>5 DEF ShrinkInv, RelaxInv
    <2>3. calibrated' => opt'.typed = "default" /\ opt'.baseline /\ wholeDrifted'
        BY <1>0, <1>5, <1>9 DEF ShrinkInv, RelaxInv, OnlyTheWorldItselfRelaxes
    <2> QED BY <1>0, <2>1, <2>2, <2>3 DEF ShrinkInv, RelaxInv, OnlyTheWorldItselfRelaxes
<1>21. GroundsInv'
    <2>1. grounds.shown \in Evidence /\ grounds.shown.own <= grounds.shown.any
        BY DEF ShrinkTyped, ShrinkInv, GroundsInv
    <2>2. Weight(level, grounds.shown) <= Weight(Ruling, grounds.shown)
        BY <1>9, <2>1
    <2>3. Weight(level, grounds.shown) \in Int /\ Weight(Ruling, grounds.shown) \in Int
        BY <2>1 DEF Weight, Evidence
    <2>4. Weight(level', grounds.shown) >= opt.accept \/ ~(Weight(level, grounds.shown) >= opt.accept)
        BY <1>5, <1>13, <2>2, <2>3
    <2>5. SurvivorsReproduced'
        <3>1. SurvivorsReproduced
            BY DEF ShrinkInv, GroundsInv
        <3> QED BY <1>0, <1>4, <2>4, <3>1 DEF SurvivorsReproduced, Weight, Whole
    <2>6. stage # "probe"
        BY <1>2 DEF Asking
    <2> QED BY <1>0, <2>1, <2>5, <2>6 DEF GroundsInv
<1>22. MinimalInv'
    <2>2. ~(stage = "faults" /\ half = "over")
        BY <1>2 DEF Asking
    <2>3. ASSUME stage' \in {"ops", "narrow"}, level' = since' PROVE Minimal'
        <3>1. ~Lowered /\ level = since
            BY <1>0, <1>5, <1>12, <2>3
        <3>2. Minimal
            BY <1>0, <2>3, <3>1 DEF ShrinkInv, MinimalInv
        <3>3. \A c \in DOMAIN cache : c \in DOMAIN cache' /\ cache'[c] = cache[c]
            BY <1>7, <3>1
        <3> QED BY <1>0, <3>2, <3>3 DEF Minimal, Judged, Every
    <2> QED BY <1>0, <2>2, <2>3 DEF MinimalInv
<1>23. AskedInv'
    <2>1. Asking'
        BY <1>0, <1>2 DEF Asking
    <2> QED BY <1>0, <1>4, <1>10, <2>1 DEF AskedInv
<1>24. MemoInv'
    <2> SUFFICES ASSUME NEW c \in DOMAIN cache', cache'[c] = "reproduced", Leq(c, Accepted')
                 PROVE  c = Accepted'
        BY DEF MemoInv, Leq
    <2>0. c \in World /\ Current \in World /\ Accepted = Current
        BY <1>0, <1>7 DEF ShrinkTyped, Accepted
    <2>1. CASE cpc' = "answer" /\ Won # {}
        <3> DEFINE m == Min(Won)
        <3>1. answer'.index = m /\ m \in Won /\ m \in 1 .. Len(cs)
            BY <1>0, <1>2, <1>6, <1>7, <1>14, <2>1
        <3> HIDE DEF m
        <3>2. Accepted' = cs[m] /\ cs[m] \in World /\ Leq(cs[m], Current)
            BY <1>3, <1>4, <2>1, <3>1 DEF Accepted
        <3>3. CASE \E i \in Finished : c = cs[i]
            <4>1. PICK i \in Finished : c = cs[i]
                BY <3>3
            <4>2. i = m
                BY <1>2, <1>3, <1>7, <3>1, <3>2, <4>1
            <4> QED BY <3>2, <4>1, <4>2
        <3>4. CASE c \in DOMAIN cache /\ cache'[c] = cache[c]
            <4>1. Leq(c, Current)
                BY <2>0, <3>2, LeqOrder
            <4>2. c = Current
                BY <2>0, <3>4, <4>1 DEF ShrinkInv, MemoInv
            <4> QED BY <2>0, <3>2, <4>2, LeqOrder
        <3> QED BY <1>7, <3>3, <3>4
    <2>2. CASE ~(cpc' = "answer" /\ Won # {})
        <3>1. Won = {}
            BY <1>0, <1>6, <2>2 DEF Ended
        <3>2. cpc' = "answer" => answer'.index = 0
            BY <1>0, <1>6, <3>1
        <3>3. Accepted' = Current
            BY <1>4, <3>2 DEF Accepted
        <3>4. c \in DOMAIN cache /\ cache[c] = "reproduced"
            BY <1>7, <1>16, <3>1
        <3> QED BY <2>0, <3>3, <3>4 DEF ShrinkInv, MemoInv
    <2> QED BY <2>1, <2>2
<1>25. ASSUME level' = since', stage = "faults", Won = {}, NEW i \in 1 .. Len(cs), i \notin pending \ Finished
       PROVE  cs[i] \in DOMAIN cache' /\ cache'[cs[i]] # "reproduced"
    <2>1. ~Lowered /\ level = since
        BY <1>0, <1>5, <1>12, <1>25
    <2>2. CASE i \in Finished
        BY <1>7, <1>16, <1>25, <2>2
    <2>3. CASE i \notin pending
        <3>1. Judged(cs[i])
            BY <1>11, <1>25, <2>1, <2>3
        <3> QED BY <1>7, <2>1, <3>1 DEF Judged
    <2> QED BY <1>25, <2>2, <2>3
<1>26. AnswerInv'
    <2> SUFFICES ASSUME cpc' = "answer" PROVE AnswerInv'
        BY DEF AnswerInv
    <2>1. Ended
        BY <1>6
    <2>2. CASE Won # {}
        <3> DEFINE m == Min(Won)
        <3>1. /\ answer'.index = m /\ answer'.stop = Complete /\ m \in 1 .. Len(cs) /\ m # 0
              /\ Weight(Ruling, shown[m]) >= opt.accept
            BY <1>6, <1>14, <1>15, <2>1, <2>2
        <3> HIDE DEF m
        <3>2. (Weight(level, shown[answer.index]) >= opt.accept)'
            BY <1>0, <1>5, <3>1 DEF Weight
        <3> QED BY <1>2, <1>4, <3>1, <3>2 DEF AnswerInv
    <2>3. CASE Won = {}
        <3>1. answer'.index = 0 /\ answer'.signal = Judgement(Tallied[1]) /\ answer'.stop = reason
            BY <1>6, <2>1, <2>3
        <3>2. ASSUME stage = "baseline" PROVE answer'.signal # "reproduced"
            <4>1. CASE 1 \in Finished
                BY <2>3, <3>1, <4>1 DEF Won
            <4>2. CASE 1 \notin Finished
                <5>1. ~Settled(Tallied[1])
                    BY <1>11, <3>2, <4>2 DEF Finished
                <5>2. ~(Tallied[1].hits >= opt.accept)
                    BY <5>1 DEF Settled
                <5> QED BY <3>1, <5>2 DEF Judgement
            <4> QED BY <4>1, <4>2
        <3>3. ASSUME stage = "faults", level' = since', answer'.stop = Complete, NEW i \in 1 .. Len(cs)
              PROVE  cs[i] \in DOMAIN cache' /\ cache'[cs[i]] # "reproduced"
            <4>1. Finished = pending
                BY <2>1, <2>3, <3>1, <3>3 DEF Ended
            <4> QED BY <1>25, <2>3, <3>3, <4>1
        <3>4. 0 \in 0 .. Len(cs)
            BY <1>2
        <3> QED BY <1>0, <1>4, <3>1, <3>2, <3>3, <3>4 DEF AnswerInv, Judged
    <2> QED BY <2>2, <2>3
<1>27. OpenInv'
    <2> SUFFICES ASSUME Open' PROVE OpenInv'
        BY DEF OpenInv
    <2>1. /\ ~Ended /\ cpc' = "round" /\ pending' = pending \ Finished /\ tallies' = Tallied
          /\ Won = {} /\ Finished # pending
        BY <1>0, <1>6 DEF Open, Ended
    <2>2. pending' \subseteq 1 .. Len(cs) /\ pending' # {} /\ (stage = "baseline" => pending' = {1})
        <3>1. pending' \subseteq 1 .. Len(cs) /\ pending' # {}
            BY <1>2, <1>7, <2>1
        <3>2. ASSUME stage = "baseline" PROVE pending' = {1}
            <4>1. pending = {1}
                BY <1>11, <3>2
            <4>2. Finished = {}
                BY <1>7, <2>1, <4>1
            <4> QED BY <2>1, <4>1, <4>2
        <3> QED BY <3>1, <3>2
    <2>3. tallies' \in [1 .. Len(cs) -> [hits : Nat, misses : Nat, unknowns : Nat]]
        <3>1. DOMAIN Tallied = 1 .. Len(cs) /\ Tallied = [i \in DOMAIN Tallied |-> Tallied[i]]
            BY <1>11 DEF Tallied
        <3> QED BY <1>8, <2>1, <3>1
    <2>4. got' \in Seq(Attempts) /\ Len(got') = 0
        BY <1>0
    <2>5. pending' \in Lists /\ Cardinality(pending') \in Nat
        <3>1. IsFiniteSet(pending') /\ pending' \subseteq Nat
            BY <1>2, <2>1, FS_Subset DEF Lists
        <3> QED BY <3>1, FS_CardinalityType DEF Lists
    <2>6. \A i \in pending' : cs[i] \notin DOMAIN cache'
        <3> SUFFICES ASSUME NEW i \in pending', cs[i] \in DOMAIN cache' PROVE FALSE
            OBVIOUS
        <3>1. i \in pending /\ i \notin Finished /\ i \in 1 .. Len(cs)
            BY <1>2, <2>1
        <3>2. PICK k \in Finished : cs[i] = cs[k]
            BY <1>7, <1>11, <3>1
        <3>3. k \in 1 .. Len(cs)
            BY <1>2, <1>7
        <3>4. Leq(cs[i], cs[k])
            BY <1>3, <3>1, <3>2, <3>3, LeqOrder
        <3> QED BY <1>3, <3>1, <3>3, <3>4
    <2>7. stage = "faults" /\ level' = since' =>
              \A i \in 1 .. Len(cs) : i \notin pending' => cs[i] \in DOMAIN cache' /\ cache'[cs[i]] # "reproduced"
        BY <1>25, <2>1
    <2>8. \A i \in 1 .. Len(cs) : \A l \in {Ruling, "class"} : tallies'[i].hits + Hit(i, l)' <= Weight(l, shown[i])
        <3> TAKE i \in 1 .. Len(cs)
        <3> TAKE l \in {Ruling, "class"}
        <3>1. ASSUME i \in pending' PROVE ~(Place(i)' <= Len(got'))
            <4>1. RankOf(pending', i) \in 1 .. Cardinality(pending')
                BY <2>5, <3>1, RankRange DEF Lists
            <4>2. Place(i)' = RankOf(pending', i)
                BY DEF Place, RankOf
            <4> QED BY <2>4, <2>5, <4>1, <4>2
        <3>2. Hit(i, l)' = 0
            BY <3>1 DEF Hit
        <3>3. shown[i] \in Evidence /\ shown[i].own <= shown[i].any
            BY <1>10
        <3>4. Weight(Ruling, shown[i]) <= Weight(l, shown[i])
            BY <1>9, <3>3 DEF Weight, Evidence
        <3>5. Weight(Ruling, shown[i]) \in Nat /\ Weight(l, shown[i]) \in Nat
            BY <3>3 DEF Weight, Evidence
        <3>6. Tallied[i].hits \in Nat /\ Tallied[i].hits <= Weight(Ruling, shown[i])
            BY <1>8
        <3> QED BY <2>1, <3>2, <3>4, <3>5, <3>6
    <2>9. (\A i \in 1 .. Len(Candidates) : \A l \in {level, "class"} :
               tallies[i].hits + Hit(i, l) <= Weight(l, shown[i]))'
        <3>1. \A i : Weight(level, shown[i])' = Weight(level', shown'[i]) /\ Weight("class", shown[i])' = Weight("class", shown'[i])
            BY DEF Weight
        <3> QED BY <1>0, <1>4, <1>5, <2>8, <3>1
    <2>10. (/\ \A i \in pending : Candidates[i] \notin DOMAIN cache
            /\ stage = "faults" /\ level = since =>
                   \A i \in 1 .. Len(Candidates) : i \notin pending => Judged(Candidates[i]))'
        BY <1>0, <1>4, <2>6, <2>7 DEF Judged
    <2>11. (\A j \in 1 .. Len(got) : Candidates[At(j)] = Whole /\ Drifts(got[j], "key") => wholeDrifted)'
        BY <2>4
    <2>12. (/\ pending \subseteq 1 .. Len(Candidates) /\ pending # {}
            /\ stage = "baseline" => pending = {1}
            /\ tallies \in [1 .. Len(Candidates) -> [hits : Nat, misses : Nat, unknowns : Nat]]
            /\ got \in Seq(Attempts) /\ Len(got) <= Cardinality(pending)
            /\ cpc = "run" => Len(got) < granted /\ granted <= Cardinality(pending))'
        BY <1>0, <1>4, <2>1, <2>2, <2>3, <2>4, <2>5
    <2> QED BY <2>9, <2>10, <2>11, <2>12 DEF OpenInv
<1> QED BY <1>18, <1>19, <1>20, <1>21, <1>22, <1>23, <1>24, <1>26, <1>27 DEF ShrinkInv

LEMMA JudgeKeeps ==
    ASSUME ShrinkTyped, ShrinkInv, Judge
    PROVE  ShrinkTyped' /\ ShrinkInv'
<1>1. UNCHANGED <<pipeline, corpus, history>>
    BY DEF Judge
<1>2. CASE Ask(Candidates)
    <2>1. AnotherQuestion
        BY <1>2 DEF Judge, Ask
    <2> QED BY <1>1, <1>2, <2>1, AskKeeps
<1>3. CASE Round
    BY <1>1, <1>3, RoundKeeps
<1>4. CASE RunOne(Candidates, Whole)
    BY <1>1, <1>4, RunOneKeeps
<1>5. CASE Note(Candidates, Whole)
    BY <1>1, <1>5, NoteKeeps
<1>6. CASE Reprobe(Whole)
    BY <1>1, <1>6, ReprobeKeeps
<1>7. CASE Settle(Candidates)
    BY <1>1, <1>7, SettleKeeps
<1> QED BY <1>2, <1>3, <1>4, <1>5, <1>6, <1>7 DEF Judge, Probing

\* The context, the wall clock and a step that does nothing.
LEMMA NothingHappens ==
    ASSUME ShrinkTyped, ShrinkInv, interrupted' \in BOOLEAN, expired' \in BOOLEAN,
           UNCHANGED <<opt, spent, reserve, identity, cache, call, wholeDrifted, pipeline, corpus, history>>
    PROVE  ShrinkTyped' /\ ShrinkInv'
<1>0. /\ UNCHANGED <<opt, spent, reserve, level, mayCalibrate, calibrated, reprobes, drifts, cache, cpc, pending,
                     tallies, got, granted, reason, answer, shown, wholeDrifted>>
      /\ UNCHANGED <<stage, faults, ops, gran, half, window, stop, trials, reproduced, entry, exitCode,
                     grounds, since>>
    BY DEF identity, call, pipeline, corpus, history
<1>1. Candidates' = Candidates /\ Current' = Current
    BY SameQuestion
<1>2. ShrinkTyped'
    BY <1>0, <1>1 DEF ShrinkTyped
<1>3. RelaxInv'
    BY <1>0 DEF ShrinkInv, RelaxInv, OnlyTheWorldItselfRelaxes
<1>4. Accepted' = Accepted
    BY <1>0, <1>1 DEF Accepted
<1>5. ListInv' /\ WindowInv' /\ MemoInv' /\ GroundsInv' /\ MinimalInv' /\ GateInv'
    BY <1>0, <1>4, JudgesNothing
<1>6. AskedInv' /\ OpenInv' /\ AnswerInv'
    <2>1. CASE Open
        <3>1. Open'
            BY <1>0, <2>1 DEF Open
        <3>2. cpc' = "round" => got = <<>>
            BY <1>0 DEF ShrinkInv, AskedInv
        <3>3. cpc' = "run" => Len(got) < granted' /\ granted' <= Cardinality(pending)
            BY <1>0, <2>1 DEF ShrinkInv, OpenInv
        <3> QED BY <1>0, <2>1, <3>1, <3>2, <3>3, StillOpen
    <2>2. CASE ~Open
        <3>1. OpenInv'
            BY <1>0, <2>2 DEF OpenInv, Open
        <3>2. AskedInv'
            <4>1. Asking' = Asking
                BY <1>0 DEF Asking
            <4> QED BY <1>0, <1>1, <4>1 DEF ShrinkInv, AskedInv
        <3>3. AnswerInv'
            BY <1>0, <1>1 DEF ShrinkInv, AnswerInv, Weight, Judged
        <3> QED BY <3>1, <3>2, <3>3
    <2> QED BY <2>1, <2>2
<1> QED BY <1>2, <1>3, <1>5, <1>6 DEF ShrinkInv

LEMMA EnvironmentKeeps ==
    ASSUME ShrinkTyped, ShrinkInv, Environment
    PROVE  ShrinkTyped' /\ ShrinkInv'
<1>1. interrupted' \in BOOLEAN /\ expired' \in BOOLEAN
    BY DEF Environment, WallExpires, CancelShrink, ShrinkTyped
<1>2. UNCHANGED <<opt, spent, reserve, identity, cache, call, wholeDrifted, pipeline, corpus, history>>
    BY DEF Environment, WallExpires, CancelShrink
<1> QED BY <1>1, <1>2, NothingHappens

-----------------------------------------------------------------------------
(* The steps between the calls.                                            *)

LEMMA SilenceIs == Silence \in [index : Nat, signal : Signals, stop : Stops]
BY DEF Silence, Complete, Signals, Stops

LEMMA NoCall ==
    ASSUME cpc' = "idle", answer' = Silence, got' = <<>>, stage' # "baseline"
    PROVE  AskedInv' /\ OpenInv' /\ AnswerInv' /\ Accepted' = Current'
<1>1. AskedInv'
    BY DEF AskedInv, Silence
<1>2. OpenInv' /\ AnswerInv'
    BY DEF OpenInv, AnswerInv, Open
<1>3. Accepted' = Current'
    BY DEF Accepted
<1> QED BY <1>1, <1>2, <1>3

\* Outside the stages that ask, no call is under way.
LEMMA NoneUnderWay ==
    ASSUME ShrinkInv, ~Asking
    PROVE  cpc = "idle" /\ answer = Silence /\ got = <<>> /\ Accepted = Current
BY DEF ShrinkInv, AskedInv, Accepted

\* What a stage is left with when its call has been answered.
LEMMA AnswerIsTaken ==
    ASSUME ShrinkTyped, ShrinkInv, NEW s, AnswerIs(s)
    PROVE  /\ UNCHANGED <<opt, interrupted, expired, spent, reserve, level, mayCalibrate, calibrated, reprobes,
                          drifts, cache, got, granted, reason, wholeDrifted>>
           /\ stage = s /\ cpc' = "idle" /\ answer' = Silence /\ got' = <<>> /\ Asking
           /\ answer.index \in 0 .. Len(Candidates) /\ Len(Candidates) \in Nat \ {0}
           /\ answer.index # 0 => /\ answer.stop = Complete /\ Weight(level, shown[answer.index]) >= opt.accept
                                  /\ shown[answer.index] \in Evidence
                                  /\ shown[answer.index].own <= shown[answer.index].any
                                  /\ Accepted = Candidates[answer.index]
           /\ answer.index = 0 => Accepted = Current
<1>1. /\ UNCHANGED <<opt, interrupted, expired, spent, reserve, level, mayCalibrate, calibrated, reprobes,
                     drifts, cache, got, granted, reason, wholeDrifted>>
      /\ stage = s /\ cpc = "answer" /\ cpc' = "idle" /\ answer' = Silence
    BY DEF AnswerIs, Taken, ledger, identity
<1>2. /\ got = <<>> /\ Asking /\ shown \in [1 .. Len(Candidates) -> Evidence]
      /\ \A i \in 1 .. Len(Candidates) : shown[i].own <= shown[i].any
    BY <1>1 DEF ShrinkInv, AskedInv
<1>3. Len(Candidates) \in Nat \ {0}
    BY <1>2, CandidatesAre DEF ShrinkInv
<1>4. /\ answer.index \in 0 .. Len(Candidates)
      /\ answer.index # 0 => answer.stop = Complete /\ Weight(level, shown[answer.index]) >= opt.accept
    BY <1>1 DEF ShrinkInv, AnswerInv
<1>5. answer.index # 0 => answer.index \in 1 .. Len(Candidates)
    BY <1>3, <1>4
<1> QED BY <1>1, <1>2, <1>3, <1>4, <1>5 DEF Accepted

LEMMA BaselineKeeps ==
    ASSUME ShrinkTyped, ShrinkInv, BaselineAnswered
    PROVE  ShrinkTyped' /\ ShrinkInv'
<1>1. /\ UNCHANGED <<opt, interrupted, expired, spent, reserve, level, mayCalibrate, calibrated, reprobes,
                     drifts, cache, got, granted, reason, wholeDrifted>>
      /\ stage = "baseline" /\ cpc' = "idle" /\ answer' = Silence /\ got' = <<>> /\ Asking
      /\ answer.index \in 0 .. Len(Candidates)
      /\ answer.index # 0 => /\ answer.stop = Complete /\ Weight(level, shown[answer.index]) >= opt.accept
                             /\ shown[answer.index] \in Evidence
                             /\ shown[answer.index].own <= shown[answer.index].any
                             /\ Accepted = Candidates[answer.index]
      /\ answer.index = 0 => Accepted = Current
    BY AnswerIsTaken DEF BaselineAnswered
<1>2. Len(Candidates) = 1 /\ Candidates[1] = Whole /\ Current = Whole
    BY <1>1, CandidatesAre DEF ShrinkInv
<1>3. answer.index \in {0, 1} /\ Accepted = Current
    BY <1>1, <1>2
<1>4. /\ UNCHANGED <<faults, ops, gran, half, window, trials, reproduced, entry>>
      /\ stage' \in {"done", "probe", "faults"}
      /\ stage' # "done" => answer.stop = Complete /\ answer.signal \notin {"unknown", "rejected"}
      /\ stage' = "probe" => opt.typed = "default"
      /\ grounds' = IF answer.index = 1 THEN [of |-> Whole, shown |-> shown[1]] ELSE grounds
      /\ since' = level
    BY DEF BaselineAnswered, Complete
<1>5. stage' # "done" => answer.index = 1
    <2>1. answer.signal \in Signals
        BY DEF ShrinkTyped
    <2>2. cpc = "answer"
        BY DEF BaselineAnswered, AnswerIs, Taken
    <2>3. answer.index = 0 => answer.signal # "reproduced"
        BY <1>1, <2>2 DEF ShrinkInv, AnswerInv
    <2> QED BY <1>3, <1>4, <2>1, <2>3 DEF Signals
<1>6. Current' = Current /\ faults = Windows /\ ops = Every
    BY <1>1, <1>4 DEF Current, ShrinkInv, ListInv
<1>7. Whole \in World
    BY <1>2 DEF ShrinkTyped
<1>8. grounds' \in [of : World, shown : Evidence] /\ grounds'.shown.own <= grounds'.shown.any
    <2>1. grounds \in [of : World, shown : Evidence] /\ grounds.shown.own <= grounds.shown.any
        BY DEF ShrinkTyped, ShrinkInv, GroundsInv
    <2>2. CASE answer.index = 1
        BY <1>1, <1>4, <1>7, <2>2
    <2>3. CASE answer.index # 1
        BY <1>4, <2>1, <2>3
    <2> QED BY <2>2, <2>3
<1>9. ShrinkTyped'
    BY <1>1, <1>4, <1>6, <1>8, SilenceIs DEF ShrinkTyped, Reducing
<1>10. AskedInv' /\ OpenInv' /\ AnswerInv' /\ Accepted' = Current'
    BY <1>1, <1>4, NoCall
<1>11. ListInv'
    BY <1>1, <1>4, <1>6 DEF ShrinkInv, ListInv, Offers
<1>12. WindowInv'
    BY <1>4 DEF WindowInv
<1>13. RelaxInv'
    BY <1>1, <1>4 DEF ShrinkInv, RelaxInv, OnlyTheWorldItselfRelaxes
<1>14. MemoInv'
    BY <1>1, <1>3, <1>6, <1>10 DEF ShrinkInv, MemoInv
<1>15. GroundsInv'
    <2>1. stage' # "done" => grounds'.of = Whole /\ (Weight(level, grounds.shown) >= opt.accept)'
        BY <1>1, <1>4, <1>5 DEF Weight
    <2>2. SurvivorsReproduced'
        BY <1>1, <1>2, <1>4, <1>6, <2>1 DEF SurvivorsReproduced, Weight, Reducing
    <2> QED BY <1>4, <1>8, <2>1, <2>2 DEF GroundsInv, Whole
<1>16. MinimalInv'
    BY <1>1, <1>4 DEF ShrinkInv, ListInv, MinimalInv, Minimal
<1>17. GateInv'
    BY <1>1, <1>4 DEF ShrinkInv, GateInv
<1> QED BY <1>9, <1>10, <1>11, <1>12, <1>13, <1>14, <1>15, <1>16, <1>17 DEF ShrinkInv

LEMMA ProbeTheKeyKeeps ==
    ASSUME ShrinkTyped, ShrinkInv, ProbeTheKey
    PROVE  ShrinkTyped' /\ ShrinkInv'
<1>1. PICK x \in Single :
          /\ Charge(x)
          /\ wholeDrifted' = (wholeDrifted \/ Drifts(x.seen, "key"))
          /\ IF x.stop = Complete /\ Drifts(x.seen, level)
               THEN Relax(<<>>)
               ELSE /\ drifts' = drifts \cup Noted(x.seen, Whole, Whole)
                    /\ UNCHANGED <<level, calibrated, cache>>
    BY DEF ProbeTheKey
<1>0. /\ stage = "probe" /\ stage' = "faults" /\ since' = level'
      /\ UNCHANGED <<opt, interrupted, expired, reserve, mayCalibrate, reprobes, cpc, pending, tallies, got,
                     granted, reason, answer, shown, faults, ops, gran, half, window, stop, trials, reproduced,
                     entry, exitCode, grounds>>
    BY DEF ProbeTheKey, call, corpus
<1>2. cpc = "idle" /\ answer = Silence /\ got = <<>> /\ Accepted = Current
    BY <1>0, NoneUnderWay DEF Asking
<1>3. x.seen \in Attempt /\ spent' \in Nat
    BY <1>1, SingleIs
<1>4. /\ Noted(x.seen, Whole, Whole) \subseteq {"reduced", "unreduced"}
      /\ "unreduced" \in Noted(x.seen, Whole, Whole) => opt.baseline /\ Drifts(x.seen, "key")
    BY <1>3, NotedIs
<1>5. Drifts(x.seen, level) => level = "key" /\ Drifts(x.seen, "key")
    <2>1. level \in {"key", "class"}
        BY DEF ShrinkTyped
    <2> QED BY <1>3, <2>1, SignalsAre
<1>6. /\ opt.baseline /\ opt.typed = "default" /\ faults = Windows /\ ops = Every /\ Offers(DOMAIN faults)
      /\ half = "over" => DOMAIN faults = {}
      /\ grounds.of = Whole /\ Weight(level, grounds.shown) >= opt.accept
      /\ "unreduced" \in drifts => wholeDrifted
    BY <1>0 DEF ShrinkInv, RelaxInv, ListInv, GroundsInv
<1>7. \/ /\ level = "key" /\ level' = "class" /\ calibrated' = TRUE /\ drifts' = {} /\ wholeDrifted' = TRUE
         /\ cache' = <<>>
      \/ /\ level' = level /\ calibrated' = calibrated /\ cache' = cache
         /\ drifts' \subseteq drifts \cup Noted(x.seen, Whole, Whole)
    BY <1>1, <1>5 DEF Relax
<1>8. (wholeDrifted => wholeDrifted') /\ (Drifts(x.seen, "key") => wholeDrifted') /\ wholeDrifted' \in BOOLEAN
    BY <1>1 DEF ShrinkTyped
<1>9. DOMAIN cache' \subseteq World /\ cache' \in [DOMAIN cache' -> Signals] /\ DOMAIN cache' \subseteq DOMAIN cache
    <2>1. DOMAIN <<>> = {} /\ <<>> \in [{} -> Signals]
        OBVIOUS
    <2> QED BY <1>7, <2>1 DEF ShrinkTyped
<1>10. Current' = Current /\ Current = Whole
    BY <1>0, <1>6 DEF Current, Whole
<1>11. ShrinkTyped'
    <2>1. level' \in {"key", "class"} /\ calibrated' \in BOOLEAN /\ drifts' \subseteq {"reduced", "unreduced"}
        BY <1>4, <1>7 DEF ShrinkTyped
    <2> QED BY <1>0, <1>3, <1>8, <1>9, <1>10, <2>1 DEF ShrinkTyped, Reducing
<1>12. AskedInv' /\ OpenInv' /\ AnswerInv' /\ Accepted' = Current'
    BY <1>0, <1>2, NoCall
<1>13. ListInv'
    BY <1>0, <1>6, <1>9 DEF ShrinkInv, ListInv, Offers
<1>14. WindowInv'
    BY <1>0 DEF WindowInv
<1>15. RelaxInv'
    BY <1>0, <1>4, <1>6, <1>7, <1>8 DEF ShrinkInv, RelaxInv, OnlyTheWorldItselfRelaxes
<1>16. MemoInv'
    <2>1. cache' = <<>> => DOMAIN cache' = {}
        OBVIOUS
    <2> QED BY <1>2, <1>7, <1>10, <1>12, <2>1 DEF ShrinkInv, MemoInv
<1>17. GroundsInv'
    <2>1. grounds.shown \in Evidence /\ grounds.shown.own <= grounds.shown.any
        BY DEF ShrinkTyped, ShrinkInv, GroundsInv
    <2>2. opt.accept \in Nat
        BY OptionIs DEF ShrinkTyped, RejectTrials
    <2>3. (Weight(level, grounds.shown) >= opt.accept)'
        BY <1>0, <1>6, <1>7, <2>1, <2>2 DEF Weight, Evidence
    <2>4. SurvivorsReproduced'
        BY <1>0, <1>6, <1>10, <2>3 DEF SurvivorsReproduced, Weight, Reducing
    <2> QED BY <1>0, <2>1, <2>4 DEF GroundsInv
<1>18. MinimalInv'
    BY <1>0, <1>6 DEF MinimalInv, Minimal
<1>19. GateInv'
    BY <1>0 DEF ShrinkInv, GateInv
<1> QED BY <1>11, <1>12, <1>13, <1>14, <1>15, <1>16, <1>17, <1>18, <1>19 DEF ShrinkInv

\* The top of ddmin's loop offers what is left in parts, alone, or no more.
LEMMA LoopIs ==
    ASSUME NEW c \in Lists, NEW n \in Nat, n >= 2, Loop(c, n)
    PROVE  /\ gran' \in Nat /\ half' \in {"parts", "empty", "over"} /\ Offers(c)'
           /\ half' = "over" => c = {}
<1>1. Cardinality(c) \in Nat /\ IsFiniteSet(c)
    BY FS_CardinalityType DEF Lists
<1>2. /\ gran' = IF n <= Cardinality(c) THEN n ELSE Cardinality(c)
      /\ half' = IF Cardinality(c) >= 2 THEN "parts" ELSE IF Cardinality(c) = 1 THEN "empty" ELSE "over"
    BY <1>1, LesserOf DEF Loop
<1>3. half' = "over" => c = {}
    BY <1>1, <1>2, FS_EmptySet
<1> QED BY <1>1, <1>2, <1>3 DEF Offers

\* It ends with nothing left, or at the finest granularity without an acceptance.
LEMMA ReduceIs ==
    ASSUME NEW c \in Lists, NEW kept \in SUBSET c, Reduce(c, kept),
           gran \in Nat, Offers(c), half \in {"parts", "complements", "empty"}, answer.index \in Nat,
           answer.index > 0 /\ half = "empty" => kept = {},
           answer.index = 0 => kept = c
    PROVE  /\ gran' \in Nat /\ half' \in {"parts", "complements", "empty", "over"} /\ Offers(kept)'
           /\ half' = "over" => \/ kept = {}
                                \/ /\ answer.index = 0 /\ (half = "empty" \/ Finest(c))
                                   /\ ~(half = "parts" /\ gran > 2)
<1>1. Cardinality(c) \in Nat /\ kept \in Lists
    BY FS_CardinalityType, FS_Subset DEF Lists
<1>2. CASE answer.index > 0 /\ half = "empty"
    BY <1>2 DEF Reduce, Offers
<1>3. CASE answer.index > 0 /\ half # "empty"
    <2> DEFINE n == IF half = "parts" THEN 2 ELSE Max({2, gran - 1})
    <2>1. Loop(kept, n)
        BY <1>3 DEF Reduce
    <2>2. n \in Nat /\ n >= 2
        <3>1. CASE half = "complements"
            <4>1. gran > 2 /\ gran - 1 \in Nat
                BY <3>1 DEF Offers
            <4> QED BY <3>1, <4>1, LesserOf
        <3>2. CASE half = "parts"
            BY <3>2
        <3> QED BY <1>3, <3>1, <3>2
    <2> HIDE DEF n
    <2> QED BY <1>1, <2>1, <2>2, LoopIs
<1>4. CASE answer.index = 0
    <2>1. CASE half = "parts" /\ gran > 2
        BY <1>4, <2>1 DEF Reduce, Offers
    <2>2. CASE ~(half = "parts" /\ gran > 2) /\ (half = "empty" \/ Finest(c))
        BY <1>4, <2>2 DEF Reduce, Offers
    <2>3. CASE ~(half = "parts" /\ gran > 2) /\ ~(half = "empty" \/ Finest(c))
        <3>1. Loop(kept, 2 * gran)
            BY <1>4, <2>3 DEF Reduce
        <3>2. 2 * gran \in Nat /\ 2 * gran >= 2
            BY <1>1, <2>3 DEF Offers
        <3> QED BY <1>1, <3>1, <3>2, LoopIs
    <2> QED BY <2>1, <2>2, <2>3
<1> QED BY <1>2, <1>3, <1>4

\* A stage that stops hands what it reached to the gate.
LEMMA StoppedAtTheGate ==
    ASSUME ShrinkTyped, ShrinkInv, stage \in {"faults", "ops", "narrow"}, stage' = "gate",
           cpc' = "idle", answer' = Silence, got' = <<>>, Accepted = Current,
           UNCHANGED <<opt, level, mayCalibrate, calibrated, drifts, cache, wholeDrifted, faults, ops, trials,
                       reproduced, entry, grounds, since>>
    PROVE  ShrinkInv'
<1>1. AskedInv' /\ OpenInv' /\ AnswerInv' /\ Accepted' = Current'
    BY NoCall
<1>2. Current' = Current
    BY DEF Current
<1>3. ListInv' /\ WindowInv' /\ MinimalInv'
    BY DEF ListInv, WindowInv, MinimalInv
<1>4. RelaxInv'
    BY DEF ShrinkInv, RelaxInv, OnlyTheWorldItselfRelaxes
<1>5. MemoInv'
    BY <1>1, <1>2 DEF ShrinkInv, MemoInv
<1>6. GroundsInv'
    BY <1>2 DEF ShrinkInv, GroundsInv, SurvivorsReproduced, Reducing, Whole
<1>7. GateInv'
    BY DEF ShrinkInv, GateInv
<1> QED BY <1>1, <1>3, <1>4, <1>5, <1>6, <1>7 DEF ShrinkInv

\* What was accepted is what survives now, and has been seen to fail as it is.
LEMMA Adopted ==
    ASSUME ShrinkTyped, ShrinkInv, NEW s, AnswerIs(s), answer.index # 0, Current' = Candidates[answer.index],
           grounds' = [of |-> Candidates[answer.index], shown |-> shown[answer.index]],
           stage' \in {"faults", "ops", "narrow", "gate"}
    PROVE  /\ Current' \in World /\ grounds' \in [of : World, shown : Evidence] /\ GroundsInv'
           /\ Current' = Accepted
<1>1. /\ UNCHANGED <<opt, level>> /\ Asking /\ answer.index \in 0 .. Len(Candidates)
      /\ Len(Candidates) \in Nat \ {0}
      /\ Weight(level, shown[answer.index]) >= opt.accept
      /\ shown[answer.index] \in Evidence
      /\ shown[answer.index].own <= shown[answer.index].any
      /\ Accepted = Candidates[answer.index]
    BY AnswerIsTaken
<1>2. answer.index \in 1 .. Len(Candidates)
    BY <1>1
<1>3. Candidates[answer.index] \in World
    BY <1>1, <1>2, CandidatesAre DEF ShrinkInv
<1>4. grounds' \in [of : World, shown : Evidence] /\ grounds'.of = Current' /\ grounds'.shown = shown[answer.index]
    BY <1>1, <1>3
<1>5. SurvivorsReproduced'
    <2>1. (grounds.of \in (IF ops = AllOps THEN {Current, [Current EXCEPT !.ops = Every]} ELSE {Current}))'
        BY <1>4
    <2>2. ((IF level = "class" THEN grounds.shown.any ELSE grounds.shown.own) >= opt.accept)'
        BY <1>1, <1>4 DEF Weight
    <2> QED BY <2>1, <2>2 DEF SurvivorsReproduced
<1> QED BY <1>1, <1>3, <1>4, <1>5 DEF GroundsInv

LEMMA FaultsAnsweredKeeps ==
    ASSUME ShrinkTyped, ShrinkInv, FaultsAnswered
    PROVE  ShrinkTyped' /\ ShrinkInv'
<1>1. /\ UNCHANGED <<opt, interrupted, expired, spent, reserve, level, mayCalibrate, calibrated, reprobes,
                     drifts, cache, got, granted, reason, wholeDrifted>>
      /\ stage = "faults" /\ cpc' = "idle" /\ answer' = Silence /\ got' = <<>> /\ Asking
      /\ answer.index \in 0 .. Len(Candidates) /\ Len(Candidates) \in Nat \ {0}
      /\ answer.index # 0 => answer.stop = Complete /\ Accepted = Candidates[answer.index]
      /\ answer.index = 0 => Accepted = Current
    BY AnswerIsTaken DEF FaultsAnswered
<1>2. PICK c, kept :
          /\ c = DOMAIN faults /\ kept = IF answer.index > 0 THEN Subsets(c)[answer.index] ELSE c
          /\ faults' = Restrict(faults, kept)
          /\ IF answer.index > 0
               THEN grounds' = [of |-> [Current EXCEPT !.faults = Restrict(faults, kept)], shown |-> shown[answer.index]]
               ELSE UNCHANGED grounds
          /\ IF answer.stop # Complete THEN stage' = "gate" /\ UNCHANGED <<gran, half>>
             ELSE Reduce(c, kept) /\ UNCHANGED <<stage, stop>>
          /\ UNCHANGED <<ops, window, trials, reproduced, entry, since>>
    BY DEF FaultsAnswered, Ground, StopWith, corpus
<1>3. /\ Offers(c) /\ half \in {"parts", "complements", "empty"} /\ gran \in Nat
      /\ c \in Sets /\ c \in Lists /\ faults \in [c -> Nat \X Nat] /\ faults = Restrict(Windows, c)
      /\ ops = Every /\ ops \subseteq Nat
      /\ \A d \in DOMAIN cache : d.ops = Every
    BY <1>1, <1>2, CurrentIs DEF ShrinkTyped, ShrinkInv, ListInv, Asking
<1>4. /\ Len(Subsets(c)) \in Nat \ {0} /\ Subsets(c) \in [1 .. Len(Subsets(c)) -> SUBSET c]
      /\ DOMAIN Subsets(c) = 1 .. Len(Subsets(c))
    BY <1>3, OffersAre
<1>5. /\ Candidates = [p \in DOMAIN Subsets(c) |-> [faults |-> Restrict(faults, Subsets(c)[p]), ops |-> ops]]
      /\ Len(Candidates) = Len(Subsets(c))
    <2>1. Candidates = [p \in DOMAIN Subsets(c) |-> [faults |-> Restrict(faults, Subsets(c)[p]), ops |-> ops]]
        BY <1>1, <1>2 DEF Candidates
    <2> QED BY <1>4, <2>1
<1>6. answer.index \in Nat
    BY <1>1
<1>7. kept \in SUBSET c /\ kept \in Sets /\ kept \in Lists
    <2>1. kept \in SUBSET c
        BY <1>1, <1>2, <1>4, <1>5, <1>6
    <2>2. kept \in Sets
        BY <1>3, <2>1 DEF Sets
    <2> QED BY <2>1, <2>2, WindowsAre
<1>8. DOMAIN faults' = kept /\ faults' = Restrict(Windows, kept)
    BY <1>2, <1>3, <1>7 DEF Restrict
<1>9. Current' = [faults |-> Restrict(faults, kept), ops |-> ops]
    BY <1>2 DEF Current
<1>10. CASE answer.stop # Complete
    <2>1. answer.index = 0 /\ stage' = "gate" /\ UNCHANGED <<gran, half, grounds>> /\ kept = c
        BY <1>1, <1>2, <1>10
    <2>2. faults' = faults
        BY <1>3, <1>8, <2>1
    <2>3. ShrinkInv'
        BY <1>1, <1>2, <2>1, <2>2, StoppedAtTheGate
    <2>4. Current' = Current
        BY <1>2, <2>2 DEF Current
    <2>5. ShrinkTyped'
        BY <1>1, <1>2, <2>1, <2>4, SilenceIs DEF ShrinkTyped, Reducing
    <2> QED BY <2>3, <2>5
<1>11. CASE answer.stop = Complete
    <2>1. Reduce(c, kept) /\ stage' = "faults"
        BY <1>1, <1>2, <1>11
    <2>2. answer.index = 0 => kept = c
        BY <1>2
    <2>3. answer.index > 0 /\ half = "empty" => kept = {}
        <3> SUFFICES ASSUME answer.index > 0, half = "empty" PROVE kept = {}
            OBVIOUS
        <3>1. Subsets(c) = <<{}>>
            BY DEF Subsets
        <3>2. answer.index = 1
            BY <1>1, <1>5, <3>1
        <3> QED BY <1>2, <3>1, <3>2
    <2>4. /\ gran' \in Nat /\ half' \in {"parts", "complements", "empty", "over"} /\ Offers(kept)'
          /\ half' = "over" => \/ kept = {}
                               \/ /\ answer.index = 0 /\ (half = "empty" \/ Finest(c))
                                  /\ ~(half = "parts" /\ gran > 2)
        BY <1>3, <1>6, <1>7, <2>1, <2>2, <2>3, ReduceIs
    <2>5. Current' \in World /\ grounds' \in [of : World, shown : Evidence] /\ GroundsInv' /\ Current' = Accepted
        <3>1. CASE answer.index > 0
            <4>1. answer.index \in DOMAIN Subsets(c) /\ kept = Subsets(c)[answer.index]
                BY <1>1, <1>2, <1>4, <1>5, <3>1
            <4>2. Candidates[answer.index] = [faults |-> Restrict(faults, kept), ops |-> ops]
                BY <1>5, <4>1
            <4>3. [Current EXCEPT !.faults = Restrict(faults, kept)] = [faults |-> Restrict(faults, kept), ops |-> ops]
                BY DEF Current
            <4>4. AnswerIs("faults")
                BY DEF FaultsAnswered
            <4> QED BY <1>2, <1>9, <2>1, <3>1, <4>2, <4>3, <4>4, Adopted
        <3>2. CASE answer.index = 0
            <4>1. faults' = faults /\ grounds' = grounds
                BY <1>2, <1>3, <1>8, <2>2, <3>2
            <4>2. Current' = Current
                BY <1>2, <4>1 DEF Current
            <4>3. GroundsInv'
                BY <1>1, <1>2, <2>1, <4>1, <4>2 DEF ShrinkInv, GroundsInv, SurvivorsReproduced, Whole
            <4> QED BY <1>1, <3>2, <4>1, <4>2, <4>3 DEF ShrinkTyped
        <3> QED BY <1>6, <3>1, <3>2
    <2>6. AskedInv' /\ OpenInv' /\ AnswerInv' /\ Accepted' = Current'
        BY <1>1, <2>1, NoCall
    <2>7. ShrinkTyped'
        BY <1>1, <1>2, <2>1, <2>4, <2>5, SilenceIs DEF ShrinkTyped, Reducing
    <2>8. ListInv'
        <3>1. Offers(DOMAIN faults)'
            BY <1>8, <2>4 DEF Offers
        <3> QED BY <1>1, <1>2, <1>3, <1>8, <2>1, <3>1 DEF ListInv, Every
    <2>9. WindowInv'
        BY <2>1 DEF WindowInv
    <2>10. RelaxInv'
        BY <1>1, <1>2, <2>1 DEF ShrinkInv, RelaxInv, OnlyTheWorldItselfRelaxes
    <2>11. MemoInv'
        BY <1>1, <2>5, <2>6 DEF ShrinkInv, MemoInv
    <2>12. MinimalInv'
        <3> SUFFICES ASSUME half' = "over", level' = since', NEW f \in kept
                     PROVE  (Judged([faults |-> Restrict(Windows, DOMAIN faults \ {f}), ops |-> Every]))'
            BY <1>8, <2>1 DEF MinimalInv, Minimal
        <3>1. answer.index = 0 /\ (half = "empty" \/ Finest(c)) /\ ~(half = "parts" /\ gran > 2) /\ kept = c
            BY <2>2, <2>4
        <3>2. PICK p \in 1 .. Len(Subsets(c)) : Subsets(c)[p] = c \ {f}
            BY <1>3, <3>1, LeavesOne
        <3>3. Candidates[p] = [faults |-> Restrict(faults, c \ {f}), ops |-> Every] /\ p \in 1 .. Len(Candidates)
            BY <1>3, <1>4, <1>5, <3>2
        <3>4. Restrict(faults, c \ {f}) = Restrict(Windows, c \ {f})
            BY <1>3 DEF Restrict
        <3>5. Judged(Candidates[p])
            <4>1. cpc = "answer" /\ level = since
                BY <1>1, <1>2 DEF FaultsAnswered, AnswerIs, Taken
            <4> QED BY <1>1, <1>11, <3>1, <3>3, <4>1 DEF ShrinkInv, AnswerInv
        <3> QED BY <1>1, <1>8, <3>1, <3>3, <3>4, <3>5 DEF Judged, Every
    <2>13. GateInv'
        BY <1>1, <1>2, <2>1 DEF ShrinkInv, GateInv
    <2> QED BY <2>5, <2>6, <2>7, <2>8, <2>9, <2>10, <2>11, <2>12, <2>13 DEF ShrinkInv
<1> QED BY <1>10, <1>11

LEMMA OpsAnsweredKeeps ==
    ASSUME ShrinkTyped, ShrinkInv, OpsAnswered
    PROVE  ShrinkTyped' /\ ShrinkInv'
<1>1. /\ UNCHANGED <<opt, interrupted, expired, spent, reserve, level, mayCalibrate, calibrated, reprobes,
                     drifts, cache, got, granted, reason, wholeDrifted>>
      /\ stage = "ops" /\ cpc' = "idle" /\ answer' = Silence /\ got' = <<>> /\ Asking
      /\ answer.index \in 0 .. Len(Candidates) /\ Len(Candidates) \in Nat \ {0}
      /\ answer.index # 0 => answer.stop = Complete /\ Accepted = Candidates[answer.index]
      /\ answer.index = 0 => Accepted = Current
    BY AnswerIsTaken DEF OpsAnswered
<1>2. PICK c, kept :
          /\ c = ops /\ kept = IF answer.index > 0 THEN Subsets(c)[answer.index] ELSE c
          /\ ops' = kept
          /\ IF answer.index > 0
               THEN grounds' = [of |-> [Current EXCEPT !.ops = kept], shown |-> shown[answer.index]]
               ELSE UNCHANGED grounds
          /\ IF answer.stop # Complete THEN stage' = "gate" /\ UNCHANGED <<gran, half>>
             ELSE Reduce(c, kept) /\ UNCHANGED <<stage, stop>>
          /\ UNCHANGED <<faults, window, trials, reproduced, entry, since>>
    BY DEF OpsAnswered, Ground, StopWith, corpus
<1>3. /\ Offers(c) /\ half \in {"parts", "complements", "empty"} /\ gran \in Nat
      /\ c \subseteq AllOps /\ c \subseteq Nat /\ faults = Restrict(Windows, DOMAIN faults)
    BY <1>1, <1>2, CurrentIs DEF ShrinkTyped, ShrinkInv, ListInv, Asking
<1>4. c \in Lists
    <2>1. IsFiniteSet(AllOps)
        BY FS_Interval, ShrinkAssumption DEF AllOps
    <2> QED BY <1>3, <2>1, FS_Subset DEF Lists
<1>5. /\ Len(Subsets(c)) \in Nat \ {0} /\ Subsets(c) \in [1 .. Len(Subsets(c)) -> SUBSET c]
      /\ DOMAIN Subsets(c) = 1 .. Len(Subsets(c))
    BY <1>3, <1>4, OffersAre
<1>6. /\ Candidates = [p \in DOMAIN Subsets(c) |-> [faults |-> faults, ops |-> Subsets(c)[p]]]
      /\ Len(Candidates) = Len(Subsets(c))
    <2>1. Candidates = [p \in DOMAIN Subsets(c) |-> [faults |-> faults, ops |-> Subsets(c)[p]]]
        BY <1>1, <1>2 DEF Candidates
    <2> QED BY <1>5, <2>1
<1>7. answer.index \in Nat
    BY <1>1
<1>8. kept \in SUBSET c
    BY <1>1, <1>2, <1>5, <1>6, <1>7
<1>9. Current' = [faults |-> faults, ops |-> kept]
    BY <1>2 DEF Current
<1>10. CASE answer.stop # Complete
    <2>1. answer.index = 0 /\ stage' = "gate" /\ UNCHANGED <<gran, half, grounds, ops>>
        BY <1>1, <1>2, <1>10
    <2>2. ShrinkInv'
        BY <1>1, <1>2, <2>1, StoppedAtTheGate
    <2>3. Current' = Current
        BY <1>2, <2>1 DEF Current
    <2>4. ShrinkTyped'
        BY <1>1, <1>2, <2>1, <2>3, SilenceIs DEF ShrinkTyped, Reducing
    <2> QED BY <2>2, <2>4
<1>11. CASE answer.stop = Complete
    <2>1. Reduce(c, kept) /\ stage' = "ops"
        BY <1>1, <1>2, <1>11
    <2>2. answer.index = 0 => kept = c
        BY <1>2
    <2>3. answer.index > 0 /\ half = "empty" => kept = {}
        <3> SUFFICES ASSUME answer.index > 0, half = "empty" PROVE kept = {}
            OBVIOUS
        <3>1. Subsets(c) = <<{}>>
            BY DEF Subsets
        <3>2. answer.index = 1
            BY <1>1, <1>6, <3>1
        <3> QED BY <1>2, <3>1, <3>2
    <2>4. gran' \in Nat /\ half' \in {"parts", "complements", "empty", "over"} /\ Offers(kept)'
        BY <1>3, <1>4, <1>7, <1>8, <2>1, <2>2, <2>3, ReduceIs
    <2>5. Current' \in World /\ grounds' \in [of : World, shown : Evidence] /\ GroundsInv' /\ Current' = Accepted
        <3>1. CASE answer.index > 0
            <4>1. answer.index \in DOMAIN Subsets(c) /\ kept = Subsets(c)[answer.index]
                BY <1>1, <1>2, <1>5, <1>6, <3>1
            <4>2. Candidates[answer.index] = [faults |-> faults, ops |-> kept]
                BY <1>6, <4>1
            <4>3. [Current EXCEPT !.ops = kept] = [faults |-> faults, ops |-> kept]
                BY DEF Current
            <4>4. AnswerIs("ops")
                BY DEF OpsAnswered
            <4> QED BY <1>2, <1>9, <2>1, <3>1, <4>2, <4>3, <4>4, Adopted
        <3>2. CASE answer.index = 0
            <4>1. ops' = ops /\ grounds' = grounds
                BY <1>2, <2>2, <3>2
            <4>2. Current' = Current
                BY <1>2, <4>1 DEF Current
            <4>3. GroundsInv'
                BY <1>1, <1>2, <2>1, <4>1, <4>2 DEF ShrinkInv, GroundsInv, SurvivorsReproduced, Whole
            <4> QED BY <1>1, <3>2, <4>1, <4>2, <4>3 DEF ShrinkTyped
        <3> QED BY <1>7, <3>1, <3>2
    <2>6. AskedInv' /\ OpenInv' /\ AnswerInv' /\ Accepted' = Current'
        BY <1>1, <2>1, NoCall
    <2>7. ShrinkTyped'
        BY <1>1, <1>2, <2>1, <2>4, <2>5, SilenceIs DEF ShrinkTyped, Reducing
    <2>8. ListInv'
        <3>1. Offers(ops)'
            BY <1>2, <2>4 DEF Offers
        <3>2. ops' \subseteq AllOps
            BY <1>2, <1>3, <1>8
        <3> QED BY <1>2, <1>3, <2>1, <3>1, <3>2 DEF ListInv, AllOps
    <2>9. WindowInv'
        BY <2>1 DEF WindowInv
    <2>10. RelaxInv'
        BY <1>1, <1>2, <2>1 DEF ShrinkInv, RelaxInv, OnlyTheWorldItselfRelaxes
    <2>11. MemoInv'
        BY <1>1, <2>5, <2>6 DEF ShrinkInv, MemoInv
    <2>12. MinimalInv'
        BY <1>1, <1>2, <2>1 DEF ShrinkInv, MinimalInv, Minimal, Judged, Every
    <2>13. GateInv'
        BY <1>1, <1>2, <2>1 DEF ShrinkInv, GateInv
    <2> QED BY <2>5, <2>6, <2>7, <2>8, <2>9, <2>10, <2>11, <2>12, <2>13 DEF ShrinkInv
<1> QED BY <1>10, <1>11

\* The next fault to narrow starts with its whole window.
LEMMA FaultFromIs ==
    ASSUME NEW fs, NEW i, DOMAIN fs \subseteq Nat, fs \in [DOMAIN fs -> Nat \X Nat]
    PROVE  LET n == FaultFrom(fs, i)
           IN  /\ n \in [fault : Nat, side : {"end", "start"}, lo : Nat, hi : Nat, probes : Nat]
               /\ n.fault = 0 \/ /\ n.fault \in DOMAIN fs /\ More(n)
                                 /\ n.side = "end" /\ n.lo = fs[n.fault][1] /\ n.hi = fs[n.fault][2]
<1> DEFINE long == {j \in DOMAIN fs : j >= i /\ Length(fs[j]) > Granularity}
           k == Min(long)
<1>1. CASE long = {}
    <2>1. FaultFrom(fs, i) = Nowhere
        BY <1>1 DEF FaultFrom
    <2> QED BY <2>1 DEF Nowhere
<1>2. CASE long # {}
    <2>1. FaultFrom(fs, i) = [Nowhere EXCEPT !.fault = k, !.lo = fs[k][1], !.hi = fs[k][2]]
        BY <1>2 DEF FaultFrom
    <2>2. long \in SUBSET Nat
        OBVIOUS
    <2>3. k \in long
        BY <1>2, <2>2, LeastOf
    <2>4. k \in DOMAIN fs /\ Length(fs[k]) > Granularity
        BY <2>3
    <2> HIDE DEF long, k
    <2>5. k \in Nat /\ fs[k] \in Nat \X Nat
        BY <2>4
    <2>6. fs[k][1] \in Nat /\ fs[k][2] \in Nat
        BY <2>5
    <2> DEFINE n == [fault |-> k, side |-> "end", lo |-> fs[k][1], hi |-> fs[k][2], probes |-> 0]
    <2>7. FaultFrom(fs, i) = n
        BY <2>1 DEF Nowhere
    <2>8. More(n)
        BY <2>4, ShrinkAssumption DEF More, Length
    <2>9. n \in [fault : Nat, side : {"end", "start"}, lo : Nat, hi : Nat, probes : Nat]
        BY <2>5, <2>6
    <2> QED BY <2>4, <2>7, <2>8, <2>9
<1> QED BY <1>1, <1>2

Interval == [fault : Nat, side : {"end", "start"}, lo : Nat, hi : Nat, probes : Nat]

\* The side that is not narrowed is the window's own, the other one is inside it.
Inside(n, w) ==
    /\ n.side = "end" => w[1] <= n.lo /\ n.hi = w[2]
    /\ n.side = "start" => n.lo = w[1] /\ n.hi <= w[2]

\* A probe that is answered leaves the fault with the window that was probed, or
\* with the one it had.
LEMMA BisectedIs ==
    ASSUME ShrinkTyped, WindowInv, stage = "narrow", NEW ok \in BOOLEAN
    PROVE  LET n == Bisected(window, ok)
           IN  /\ n \in Interval /\ n.fault = window.fault
               /\ Reached(n) = IF ok THEN Narrowed(window) ELSE faults[window.fault]
               /\ Inside(n, Reached(n))
<1> DEFINE w == faults[window.fault]
           mid == Middle(window)
           n == Bisected(window, ok)
<1>1. window \in Interval /\ window.fault \in DOMAIN faults /\ More(window) /\ Inside(window, w)
    BY DEF ShrinkTyped, WindowInv, Interval, Inside
<1>2. w \in Nat \X Nat
    BY <1>1, CurrentIs
<1>3. /\ mid \in Nat /\ window.lo <= mid /\ mid <= window.hi
      /\ window.side = "end" => mid < window.hi
      /\ window.side = "start" => window.lo < mid
    BY <1>1, MiddleIs DEF Interval
<1>4. window.lo \in Nat /\ window.hi \in Nat /\ window.probes \in Nat /\ window.fault \in Nat
      /\ window.side \in {"end", "start"}
    BY <1>1 DEF Interval
<1>5. w[1] \in Nat /\ w[2] \in Nat /\ w = <<w[1], w[2]>>
    BY <1>2
<1> DEFINE move(s, l, h) == [fault |-> window.fault, side |-> s, lo |-> l, hi |-> h, probes |-> window.probes + 1]
<1>6. n = IF window.side = "end"
            THEN IF ok THEN move("end", window.lo, mid) ELSE move("end", mid + 1, window.hi)
            ELSE IF ok THEN move("start", mid, window.hi) ELSE move("start", window.lo, mid - 1)
    <2>1. window = [fault |-> window.fault, side |-> window.side, lo |-> window.lo, hi |-> window.hi,
                    probes |-> window.probes]
        BY <1>1 DEF Interval
    <2> DEFINE m == [window EXCEPT !.probes = @ + 1]
    <2>2. m = move(window.side, window.lo, window.hi)
        BY <2>1
    <2> HIDE DEF m, mid
    <2>3. n = IF window.side = "end"
                THEN IF ok THEN [m EXCEPT !.hi = mid] ELSE [m EXCEPT !.lo = mid + 1]
                ELSE IF ok THEN [m EXCEPT !.lo = mid] ELSE [m EXCEPT !.hi = mid - 1]
        BY DEF Bisected, m, mid
    <2>4. /\ [m EXCEPT !.hi = mid] = move(window.side, window.lo, mid)
          /\ [m EXCEPT !.lo = mid + 1] = move(window.side, mid + 1, window.hi)
          /\ [m EXCEPT !.lo = mid] = move(window.side, mid, window.hi)
          /\ [m EXCEPT !.hi = mid - 1] = move(window.side, window.lo, mid - 1)
        BY <2>2
    <2> HIDE DEF n
    <2> QED BY <1>4, <2>3, <2>4
<1>7. Narrowed(window) = IF window.side = "end" THEN <<w[1], mid>> ELSE <<mid, w[2]>>
    BY DEF Narrowed
<1> HIDE DEF mid
<1>8. CASE window.side = "end"
    <2>1. window.hi = w[2] /\ w[1] <= window.lo
        BY <1>1, <1>8 DEF Inside
    <2>2. CASE ok
        <3>1. n = move("end", window.lo, mid)
            BY <1>6, <1>8, <2>2
        <3> HIDE DEF n
        <3>2. Reached(n) = <<w[1], mid>>
            BY <3>1 DEF Reached
        <3>3. Inside(n, <<w[1], mid>>)
            BY <2>1, <3>1 DEF Inside
        <3>4. n \in Interval /\ n.fault = window.fault
            BY <1>3, <1>4, <3>1 DEF Interval
        <3> QED BY <1>7, <1>8, <2>2, <3>2, <3>3, <3>4 DEF n
    <2>3. CASE ~ok
        <3>1. n = move("end", mid + 1, window.hi)
            BY <1>6, <1>8, <2>3
        <3> HIDE DEF n
        <3>2. Reached(n) = <<w[1], w[2]>>
            BY <2>1, <3>1 DEF Reached
        <3>3. Inside(n, <<w[1], w[2]>>)
            BY <1>3, <1>4, <1>5, <2>1, <3>1 DEF Inside
        <3>4. n \in Interval /\ n.fault = window.fault
            BY <1>3, <1>4, <3>1 DEF Interval
        <3> QED BY <1>5, <2>3, <3>2, <3>3, <3>4 DEF n
    <2> QED BY <2>2, <2>3
<1>9. CASE window.side = "start"
    <2>1. window.lo = w[1] /\ window.hi <= w[2]
        BY <1>1, <1>9 DEF Inside
    <2>2. CASE ok
        <3>1. n = move("start", mid, window.hi)
            BY <1>6, <1>9, <2>2
        <3> HIDE DEF n
        <3>2. Reached(n) = <<mid, w[2]>>
            BY <3>1 DEF Reached
        <3>3. Inside(n, <<mid, w[2]>>)
            BY <2>1, <3>1 DEF Inside
        <3>4. n \in Interval /\ n.fault = window.fault
            BY <1>3, <1>4, <3>1 DEF Interval
        <3> QED BY <1>7, <1>9, <2>2, <3>2, <3>3, <3>4 DEF n
    <2>3. CASE ~ok
        <3>1. n = move("start", window.lo, mid - 1)
            BY <1>6, <1>9, <2>3
        <3>0. mid - 1 \in Nat /\ mid - 1 <= w[2]
            BY <1>3, <1>4, <1>5, <1>9, <2>1
        <3> HIDE DEF n
        <3>2. Reached(n) = <<w[1], w[2]>>
            BY <2>1, <3>1 DEF Reached
        <3>3. Inside(n, <<w[1], w[2]>>)
            BY <2>1, <3>0, <3>1 DEF Inside
        <3>4. n \in Interval /\ n.fault = window.fault
            BY <1>4, <3>0, <3>1 DEF Interval
        <3> QED BY <1>5, <2>3, <3>2, <3>3, <3>4 DEF n
    <2> QED BY <2>2, <2>3
<1> QED BY <1>4, <1>8, <1>9

\* The probe after it is of the same side, of the start, or of a later fault.
LEMMA OnwardIs ==
    ASSUME NEW n \in Interval, NEW fs, DOMAIN fs \subseteq Nat, fs \in [DOMAIN fs -> Nat \X Nat],
           n.fault \in DOMAIN fs, Inside(n, fs[n.fault])
    PROVE  LET o == Onward(n, fs)
           IN  /\ o \in Interval
               /\ o.fault = 0 \/ (o.fault \in DOMAIN fs /\ More(o) /\ Inside(o, fs[o.fault]))
<1> DEFINE w == fs[n.fault]
           other == [n EXCEPT !.side = "start", !.lo = w[1], !.hi = w[2], !.probes = 0]
<1>1. w \in Nat \X Nat /\ w[1] \in Nat /\ w[2] \in Nat
    OBVIOUS
<1>2. /\ other.fault = n.fault /\ other.side = "start" /\ other.lo = w[1] /\ other.hi = w[2]
      /\ other \in Interval
    BY <1>1 DEF Interval
<1>3. Onward(n, fs) = IF More(n) THEN n ELSE IF n.side = "end" /\ More(other) THEN other ELSE FaultFrom(fs, n.fault + 1)
    BY DEF Onward
<1>4. other \in Interval /\ other.fault = n.fault /\ Inside(other, w)
    BY <1>1, <1>2 DEF Inside
<1> HIDE DEF other
<1>5. CASE More(n)
    BY <1>3, <1>5
<1>6. CASE ~More(n) /\ n.side = "end" /\ More(other)
    BY <1>3, <1>4, <1>6
<1>7. CASE ~More(n) /\ ~(n.side = "end" /\ More(other))
    <2> DEFINE o == FaultFrom(fs, n.fault + 1)
    <2>1. Onward(n, fs) = o
        BY <1>3, <1>7
    <2>2. /\ o \in Interval
          /\ o.fault = 0 \/ /\ o.fault \in DOMAIN fs /\ More(o)
                            /\ o.side = "end" /\ o.lo = fs[o.fault][1] /\ o.hi = fs[o.fault][2]
        BY FaultFromIs DEF Interval
    <2> HIDE DEF o
    <2>3. ASSUME o.fault # 0 PROVE Inside(o, fs[o.fault])
        <3>1. fs[o.fault] \in Nat \X Nat
            BY <2>2, <2>3
        <3>2. fs[o.fault][1] <= fs[o.fault][1]
            BY <3>1
        <3> QED BY <2>2, <2>3, <3>2 DEF Inside
    <2> QED BY <2>1, <2>2, <2>3
<1> QED BY <1>5, <1>6, <1>7

LEMMA NarrowAnsweredKeeps ==
    ASSUME ShrinkTyped, ShrinkInv, NarrowAnswered
    PROVE  ShrinkTyped' /\ ShrinkInv'
<1> DEFINE ok == answer.index > 0
           m == Bisected(window, ok)
           f == window.fault
           reached == [faults EXCEPT ![f] = Reached(m)]
<1>1. /\ UNCHANGED <<opt, interrupted, expired, spent, reserve, level, mayCalibrate, calibrated, reprobes,
                     drifts, cache, got, granted, reason, wholeDrifted>>
      /\ stage = "narrow" /\ cpc' = "idle" /\ answer' = Silence /\ got' = <<>> /\ Asking
      /\ answer.index \in 0 .. Len(Candidates) /\ Len(Candidates) \in Nat \ {0}
      /\ answer.index # 0 => answer.stop = Complete /\ Accepted = Candidates[answer.index]
      /\ answer.index = 0 => Accepted = Current
    BY AnswerIsTaken DEF NarrowAnswered
<1>2. /\ IF answer.stop # Complete
           THEN stage' = "gate" /\ UNCHANGED <<faults, window>>
           ELSE /\ faults' = reached /\ window' = Onward(m, reached)
                /\ stage' = (IF window'.fault = 0 THEN "gate" ELSE "narrow")
      /\ IF ok THEN grounds' = [of |-> [Current EXCEPT !.faults[f] = Narrowed(window)], shown |-> shown[answer.index]]
         ELSE UNCHANGED grounds
      /\ UNCHANGED <<ops, gran, half, trials, reproduced, entry, since>>
    BY DEF NarrowAnswered, Ground, StopWith, corpus
<1>3. /\ faults \in [DOMAIN faults -> Nat \X Nat] /\ DOMAIN faults \in Sets /\ DOMAIN faults \subseteq Nat
      /\ ops \subseteq Nat
    BY CurrentIs DEF Lists
<1>4. f \in DOMAIN faults /\ WindowInv
    BY <1>1 DEF ShrinkInv, WindowInv
<1>5. Candidates = <<[faults |-> [faults EXCEPT ![f] = Narrowed(window)], ops |-> ops]>>
    BY <1>1 DEF Candidates
<1>6. Len(Candidates) = 1 /\ Candidates[1] = [faults |-> [faults EXCEPT ![f] = Narrowed(window)], ops |-> ops]
    BY <1>5
<1>7. answer.index \in {0, 1}
    BY <1>1, <1>6
<1>8. ok \in BOOLEAN
    OBVIOUS
<1>9. /\ m \in Interval /\ m.fault = f
      /\ Reached(m) = IF ok THEN Narrowed(window) ELSE faults[f]
      /\ Inside(m, Reached(m))
    BY <1>1, <1>4, <1>8, BisectedIs
<1>10. Narrowed(window) \in Nat \X Nat
    BY <1>1, <1>4, NarrowedIs
<1> HIDE DEF m
<1>11. CASE answer.stop # Complete
    <2>1. answer.index = 0 /\ ~ok /\ stage' = "gate" /\ UNCHANGED <<faults, window, grounds>>
        BY <1>1, <1>2, <1>7, <1>11
    <2>2. ShrinkInv'
        BY <1>1, <1>2, <2>1, StoppedAtTheGate
    <2>3. Current' = Current
        BY <1>2, <2>1 DEF Current
    <2>4. ShrinkTyped'
        BY <1>1, <1>2, <2>1, <2>3, SilenceIs DEF ShrinkTyped, Reducing
    <2> QED BY <2>2, <2>4
<1>12. CASE answer.stop = Complete
    <2> HIDE DEF f
    <2>1. /\ faults' = reached /\ window' = Onward(m, reached)
          /\ stage' = (IF window'.fault = 0 THEN "gate" ELSE "narrow")
        BY <1>2, <1>12
    <2>2. /\ reached \in [DOMAIN faults -> Nat \X Nat] /\ DOMAIN reached = DOMAIN faults
          /\ reached[f] = Reached(m)
        BY <1>3, <1>4, <1>9, <1>10
    <2>3. ok => reached = [faults EXCEPT ![f] = Narrowed(window)]
        BY <1>9
    <2>4. ~ok => reached = faults
        BY <1>3, <1>4, <1>9
    <2> HIDE DEF reached, ok
    <2>5. /\ window' \in Interval
          /\ window'.fault = 0 \/ (window'.fault \in DOMAIN faults' /\ More(window') /\ Inside(window', faults'[window'.fault]))
        BY <1>3, <1>4, <1>9, <2>1, <2>2, OnwardIs
    <2>6. Current' = [faults |-> reached, ops |-> ops]
        BY <1>2, <2>1 DEF Current
    <2>7. stage' \in {"narrow", "gate"}
        BY <2>1
    <2>8. Current' \in World /\ grounds' \in [of : World, shown : Evidence] /\ GroundsInv' /\ Current' = Accepted
        <3>1. CASE answer.index = 1
            <4>0. ok
                BY <3>1 DEF ok
            <4>1. Current' = Candidates[answer.index]
                BY <1>6, <2>3, <2>6, <3>1, <4>0
            <4>2. [Current EXCEPT !.faults[f] = Narrowed(window)] = Candidates[answer.index]
                BY <1>6, <3>1 DEF Current
            <4>3. grounds' = [of |-> Candidates[answer.index], shown |-> shown[answer.index]]
                BY <1>2, <4>0, <4>2 DEF f
            <4>4. AnswerIs("narrow")
                BY DEF NarrowAnswered
            <4> QED BY <2>7, <3>1, <4>1, <4>3, <4>4, Adopted
        <3>2. CASE answer.index = 0
            <4>0. ~ok
                BY <3>2 DEF ok
            <4>1. faults' = faults /\ grounds' = grounds
                BY <1>2, <2>1, <2>4, <4>0
            <4>2. Current' = Current
                BY <1>2, <4>1 DEF Current
            <4>3. GroundsInv'
                BY <1>1, <1>2, <2>7, <4>1, <4>2 DEF ShrinkInv, GroundsInv, SurvivorsReproduced, Whole, Reducing
            <4> QED BY <1>1, <3>2, <4>1, <4>2, <4>3 DEF ShrinkTyped
        <3> QED BY <1>7, <3>1, <3>2
    <2>9. AskedInv' /\ OpenInv' /\ AnswerInv' /\ Accepted' = Current'
        BY <1>1, <2>7, NoCall
    <2>10. ShrinkTyped'
        BY <1>1, <1>2, <2>5, <2>7, <2>8, SilenceIs DEF ShrinkTyped, Reducing, Interval
    <2>11. ListInv' /\ MinimalInv'
        <3>1. ListInv'
            BY <2>7 DEF ListInv
        <3>2. DOMAIN faults' = DOMAIN faults
            BY <2>1, <2>2
        <3>3. MinimalInv'
            BY <1>1, <1>2, <2>7, <3>2 DEF ShrinkInv, MinimalInv, Minimal, Judged, Every
        <3> QED BY <3>1, <3>3
    <2>12. WindowInv'
        <3> SUFFICES ASSUME stage' = "narrow" PROVE WindowInv'
            BY DEF WindowInv
        <3>1. window'.fault \in DOMAIN faults' /\ More(window') /\ Inside(window', faults'[window'.fault])
            BY <2>1, <2>5
        <3> QED BY <3>1 DEF WindowInv, More, Inside
    <2>13. RelaxInv'
        BY <1>1, <1>2, <2>7 DEF ShrinkInv, RelaxInv, OnlyTheWorldItselfRelaxes
    <2>14. MemoInv'
        BY <1>1, <2>8, <2>9 DEF ShrinkInv, MemoInv
    <2>15. GateInv'
        BY <1>1, <1>2, <2>7 DEF ShrinkInv, GateInv
    <2> QED BY <2>8, <2>9, <2>10, <2>11, <2>12, <2>13, <2>14, <2>15 DEF ShrinkInv
<1> QED BY <1>11, <1>12

\* Stage 3 begins with the first fault whose window is worth it.
LEMMA FirstWindow ==
    ASSUME ShrinkTyped, window' = (IF opt.narrow THEN FaultFrom(faults, 1) ELSE Nowhere),
           stage' = (IF window'.fault = 0 THEN "gate" ELSE "narrow"), faults' = faults
    PROVE  window' \in Interval /\ stage' \in {"narrow", "gate"} /\ WindowInv'
<1>1. faults \in [DOMAIN faults -> Nat \X Nat] /\ DOMAIN faults \subseteq Nat
    BY CurrentIs DEF Lists
<1>2. Nowhere \in Interval /\ Nowhere.fault = 0
    BY DEF Nowhere, Interval
<1>3. /\ window' \in Interval
      /\ window'.fault = 0 \/ /\ window'.fault \in DOMAIN faults /\ More(window')
                              /\ window'.side = "end" /\ window'.lo = faults[window'.fault][1]
                              /\ window'.hi = faults[window'.fault][2]
    <2>1. CASE opt.narrow
        <3> DEFINE n == FaultFrom(faults, 1)
        <3>1. /\ n \in Interval
              /\ n.fault = 0 \/ /\ n.fault \in DOMAIN faults /\ More(n)
                                /\ n.side = "end" /\ n.lo = faults[n.fault][1] /\ n.hi = faults[n.fault][2]
            BY <1>1, FaultFromIs DEF Interval
        <3>2. window' = n
            BY <2>1
        <3> HIDE DEF n
        <3> QED BY <3>1, <3>2
    <2>2. CASE ~opt.narrow
        BY <1>2, <2>2
    <2> QED BY <2>1, <2>2
<1>4. ASSUME stage' = "narrow" PROVE WindowInv'
    <2>1. /\ window'.fault \in DOMAIN faults /\ More(window')
          /\ window'.side = "end" /\ window'.lo = faults[window'.fault][1] /\ window'.hi = faults[window'.fault][2]
        BY <1>3, <1>4
    <2>2. faults[window'.fault] \in Nat \X Nat
        BY <1>1, <2>1
    <2>3. faults[window'.fault][1] <= faults[window'.fault][1]
        BY <2>2
    <2> QED BY <2>1, <2>3 DEF WindowInv, More
<1>5. ASSUME stage' # "narrow" PROVE WindowInv'
    BY <1>5 DEF WindowInv
<1> QED BY <1>3, <1>4, <1>5

LEMMA ProberRests ==
    ASSUME UNCHANGED prober
    PROVE  UNCHANGED <<opt, interrupted, expired, spent, reserve, level, mayCalibrate, calibrated, reprobes,
                       drifts, cache, cpc, pending, tallies, got, granted, reason, answer, shown, wholeDrifted>>
BY DEF prober, ledger, identity, call

LEMMA EndFaultsKeeps ==
    ASSUME ShrinkTyped, ShrinkInv, EndFaults
    PROVE  ShrinkTyped' /\ ShrinkInv'
<1>1. /\ UNCHANGED <<opt, interrupted, expired, spent, reserve, level, mayCalibrate, calibrated, reprobes,
                     drifts, cache, cpc, pending, tallies, got, granted, reason, answer, shown, wholeDrifted>>
      /\ UNCHANGED <<faults, stop, trials, reproduced, entry, exitCode, grounds, since>>
      /\ stage = "faults" /\ half = "over"
    BY ProberRests DEF EndFaults, corpus, history
<1>2. cpc = "idle" /\ answer = Silence /\ got = <<>> /\ Accepted = Current
    BY <1>1, NoneUnderWay DEF Asking
<1>3. /\ faults = Restrict(Windows, DOMAIN faults) /\ ops = Every
      /\ \A c \in DOMAIN cache : c.ops = Every
    BY <1>1 DEF ShrinkInv, ListInv
<1>4. level = since => Minimal
    BY <1>1 DEF ShrinkInv, MinimalInv
<1>5. stage' \in {"ops", "narrow", "gate"} =>
          RelaxInv' /\ MinimalInv' /\ GateInv' /\ AskedInv' /\ OpenInv' /\ AnswerInv' /\ Accepted' = Current'
    <2> SUFFICES ASSUME stage' \in {"ops", "narrow", "gate"}
                 PROVE  RelaxInv' /\ MinimalInv' /\ GateInv' /\ AskedInv' /\ OpenInv' /\ AnswerInv' /\ Accepted' = Current'
        OBVIOUS
    <2>1. RelaxInv'
        BY <1>1 DEF ShrinkInv, RelaxInv, OnlyTheWorldItselfRelaxes
    <2>2. MinimalInv'
        BY <1>1, <1>4 DEF MinimalInv, Minimal, Judged, Every
    <2>3. GateInv'
        BY <1>1 DEF ShrinkInv, GateInv
    <2> QED BY <1>1, <1>2, <2>1, <2>2, <2>3, NoCall
<1>6. Current \in World
    BY DEF ShrinkTyped
<1>7. CASE opt.ops
    <2>1. stage' = "ops" /\ ops' = AllOps /\ Loop(AllOps, 2) /\ window' = window
        BY <1>7 DEF EndFaults
    <2>2. AllOps \in Lists /\ AllOps \subseteq Nat /\ 0 \notin AllOps
        <3>1. IsFiniteSet(AllOps)
            BY FS_Interval, ShrinkAssumption DEF AllOps
        <3>2. AllOps \subseteq Nat /\ 0 \notin AllOps
            BY ShrinkAssumption DEF AllOps
        <3> QED BY <3>1, <3>2 DEF Lists
    <2>3. gran' \in Nat /\ half' \in {"parts", "empty", "over"} /\ Offers(AllOps)'
        BY <2>1, <2>2, LoopIs
    <2>4. Current' = [faults |-> faults, ops |-> AllOps] /\ Current'.ops = AllOps /\ Current' \in World
        BY <1>1, <1>6, <2>1, <2>2 DEF Current, World
    <2>5. ShrinkTyped'
        BY <1>1, <2>1, <2>3, <2>4 DEF ShrinkTyped, Reducing
    <2>6. ListInv'
        <3>1. Offers(ops)'
            BY <2>1, <2>3 DEF Offers, AllOps
        <3> QED BY <1>1, <1>3, <2>1, <3>1 DEF ListInv, AllOps
    <2>7. WindowInv'
        BY <2>1 DEF WindowInv
    <2>8. MemoInv'
        <3> SUFFICES ASSUME NEW c \in DOMAIN cache, Leq(c, Accepted') PROVE FALSE
            BY <1>1 DEF MemoInv, Leq
        <3>1. Accepted' = Current'
            BY <1>5, <2>1
        <3>2. c.ops \subseteq AllOps /\ c.ops = {0}
            BY <1>3, <2>4, <3>1 DEF Leq, Every
        <3> QED BY <2>2, <3>2
    <2>9. GroundsInv'
        <3>1. SurvivorsReproduced /\ grounds.shown.own <= grounds.shown.any
            BY DEF ShrinkInv, GroundsInv
        <3>2. [Current' EXCEPT !.ops = Every] = Current
            BY <1>3, <2>4 DEF Current
        <3>3. \/ Whole = Current /\ ~opt.baseline
              \/ /\ grounds.of = Current
                 /\ (IF level = "class" THEN grounds.shown.any ELSE grounds.shown.own) >= opt.accept
            <4>1. [Current EXCEPT !.ops = Every] = Current
                BY <1>3 DEF Current
            <4> QED BY <1>1, <3>1, <4>1 DEF SurvivorsReproduced, Reducing
        <3>4. SurvivorsReproduced'
            BY <1>1, <2>1, <3>2, <3>3 DEF SurvivorsReproduced, Whole, Every, AllOps
        <3> QED BY <1>1, <2>1, <3>1, <3>4 DEF GroundsInv
    <2> QED BY <1>5, <2>1, <2>5, <2>6, <2>7, <2>8, <2>9 DEF ShrinkInv
<1>8. CASE ~opt.ops
    <2>1. /\ window' = (IF opt.narrow THEN FaultFrom(faults, 1) ELSE Nowhere)
          /\ stage' = (IF window'.fault = 0 THEN "gate" ELSE "narrow")
          /\ UNCHANGED <<ops, gran, half>>
        BY <1>8 DEF EndFaults
    <2>2. window' \in Interval /\ stage' \in {"narrow", "gate"} /\ WindowInv'
        BY <1>1, <2>1, FirstWindow
    <2>3. Current' = Current
        BY <1>1, <2>1 DEF Current
    <2>4. ShrinkTyped'
        BY <1>1, <2>1, <2>2, <2>3 DEF ShrinkTyped, Reducing, Interval
    <2>5. ListInv'
        BY <2>2 DEF ListInv
    <2>6. MemoInv'
        BY <1>1, <1>2, <1>5, <2>2, <2>3 DEF ShrinkInv, MemoInv
    <2>7. GroundsInv'
        BY <1>1, <2>1, <2>2, <2>3 DEF ShrinkInv, GroundsInv, SurvivorsReproduced, Reducing, Whole
    <2> QED BY <1>5, <2>2, <2>4, <2>5, <2>6, <2>7 DEF ShrinkInv
<1> QED BY <1>7, <1>8

LEMMA EndOpsKeeps ==
    ASSUME ShrinkTyped, ShrinkInv, EndOps
    PROVE  ShrinkTyped' /\ ShrinkInv'
<1>1. /\ UNCHANGED <<opt, interrupted, expired, spent, reserve, level, mayCalibrate, calibrated, reprobes,
                     drifts, cache, cpc, pending, tallies, got, granted, reason, answer, shown, wholeDrifted>>
      /\ UNCHANGED <<faults, ops, gran, half, stop, trials, reproduced, entry, exitCode, grounds, since>>
      /\ stage = "ops" /\ half = "over"
      /\ window' = (IF opt.narrow THEN FaultFrom(faults, 1) ELSE Nowhere)
      /\ stage' = (IF window'.fault = 0 THEN "gate" ELSE "narrow")
    BY ProberRests DEF EndOps, corpus, history
<1>2. cpc = "idle" /\ answer = Silence /\ got = <<>> /\ Accepted = Current
    BY <1>1, NoneUnderWay DEF Asking
<1>3. window' \in Interval /\ stage' \in {"narrow", "gate"} /\ WindowInv'
    BY <1>1, FirstWindow
<1>4. Current' = Current
    BY <1>1 DEF Current
<1>5. ShrinkTyped'
    BY <1>1, <1>3, <1>4 DEF ShrinkTyped, Reducing, Interval
<1>6. AskedInv' /\ OpenInv' /\ AnswerInv' /\ Accepted' = Current'
    BY <1>1, <1>2, <1>3, NoCall
<1>7. ListInv'
    BY <1>3 DEF ListInv
<1>8. RelaxInv'
    BY <1>1, <1>3 DEF ShrinkInv, RelaxInv, OnlyTheWorldItselfRelaxes
<1>9. MemoInv'
    BY <1>1, <1>2, <1>4, <1>6 DEF ShrinkInv, MemoInv
<1>10. GroundsInv'
    BY <1>1, <1>3, <1>4 DEF ShrinkInv, GroundsInv, SurvivorsReproduced, Reducing, Whole
<1>11. MinimalInv'
    BY <1>1, <1>3 DEF ShrinkInv, MinimalInv, Minimal, Judged, Every
<1>12. GateInv'
    BY <1>1, <1>3 DEF ShrinkInv, GateInv
<1> QED BY <1>3, <1>5, <1>6, <1>7, <1>8, <1>9, <1>10, <1>11, <1>12 DEF ShrinkInv

LEMMA CanceledAtTheTopKeeps ==
    ASSUME ShrinkTyped, ShrinkInv, CanceledAtTheTop
    PROVE  ShrinkTyped' /\ ShrinkInv'
<1>1. /\ UNCHANGED <<opt, interrupted, expired, spent, reserve, level, mayCalibrate, calibrated, reprobes,
                     drifts, cache, cpc, pending, tallies, got, granted, reason, answer, shown, wholeDrifted>>
      /\ UNCHANGED <<faults, ops, gran, half, window, trials, reproduced, entry, exitCode, grounds, since>>
      /\ stage \in {"faults", "ops"} /\ cpc = "idle" /\ stage' = "gate"
    BY ProberRests DEF CanceledAtTheTop, corpus, history, StopWith
<1>2. answer = Silence /\ got = <<>> /\ Accepted = Current
    BY <1>1 DEF ShrinkInv, AskedInv, Accepted
<1>3. ShrinkInv'
    BY <1>1, <1>2, StoppedAtTheGate
<1>4. Current' = Current
    BY <1>1 DEF Current
<1>5. ShrinkTyped'
    BY <1>1, <1>4 DEF ShrinkTyped, Reducing
<1> QED BY <1>3, <1>5

-----------------------------------------------------------------------------
(* The gate and the corpus.                                                *)

\* From the gate on nothing is reduced and nothing is judged anew.
LEMMA NothingIsReduced ==
    ASSUME ShrinkTyped, ShrinkInv, stage \in {"gate", "confirm", "commit", "plan"},
           stage' \in {"confirm", "commit", "plan", "done", "killed"},
           UNCHANGED <<opt, level, calibrated, drifts, cache, cpc, got, answer, wholeDrifted, faults, ops,
                       grounds, since>>,
           mayCalibrate' => mayCalibrate, GateInv'
    PROVE  ShrinkInv'
<1>1. cpc = "idle" /\ answer = Silence /\ got = <<>> /\ Accepted = Current
    BY NoneUnderWay DEF Asking
<1>2. AskedInv' /\ OpenInv' /\ AnswerInv' /\ Accepted' = Current'
    BY <1>1, NoCall
<1>3. Current' = Current
    BY DEF Current
<1>4. ListInv' /\ WindowInv' /\ MinimalInv'
    BY DEF ListInv, WindowInv, MinimalInv
<1>5. RelaxInv'
    BY DEF ShrinkInv, RelaxInv, OnlyTheWorldItselfRelaxes
<1>6. MemoInv'
    BY <1>1, <1>2, <1>3 DEF ShrinkInv, MemoInv
<1>7. GroundsInv'
    BY <1>3 DEF ShrinkInv, GroundsInv, SurvivorsReproduced, Reducing, Whole
<1> QED BY <1>2, <1>4, <1>5, <1>6, <1>7 DEF ShrinkInv

LEMMA GateKeeps ==
    ASSUME ShrinkTyped, ShrinkInv, Gate
    PROVE  ShrinkTyped' /\ ShrinkInv'
<1>1. /\ UNCHANGED <<opt, interrupted, expired, spent, level, calibrated, reprobes, drifts, cache, cpc, pending,
                     tallies, got, granted, reason, answer, shown, wholeDrifted>>
      /\ UNCHANGED <<faults, ops, gran, half, window, trials, reproduced, entry, exitCode, grounds, since>>
      /\ stage = "gate" /\ stage' \in {"confirm", "commit"} /\ mayCalibrate' = FALSE
      /\ (reserve' = reserve \/ reserve' = 0)
    BY DEF Gate, call, corpus, history
<1>2. ConfirmK \in Nat \ {0}
    BY ProberAssumption
<1>3. GateInv'
    BY <1>1, <1>2 DEF ShrinkInv, GateInv
<1>4. ShrinkInv'
    BY <1>1, <1>3, NothingIsReduced
<1>5. Current' = Current
    BY <1>1 DEF Current
<1>6. ShrinkTyped'
    <2>1. reserve' \in Nat
        BY DEF ShrinkTyped, Gate
    <2>2. mayCalibrate' \in BOOLEAN
        BY <1>1, Zenon
    <2> QED BY <1>1, <1>5, <2>1, <2>2 DEF ShrinkTyped, Reducing
<1> QED BY <1>4, <1>6

LEMMA ConfirmKeeps ==
    ASSUME ShrinkTyped, ShrinkInv, Confirm
    PROVE  ShrinkTyped' /\ ShrinkInv'
<1>1. PICK x \in Single :
          /\ Charge(x)
          /\ trials' = trials + (IF x.ran THEN 1 ELSE 0)
          /\ reproduced' = reproduced + (IF Signal(x.seen, level) = "reproduced" THEN 1 ELSE 0)
          /\ stage' = IF x.stop # Complete \/ trials' = ConfirmK THEN "commit" ELSE "confirm"
    BY DEF Confirm
<1>2. /\ UNCHANGED <<opt, interrupted, expired, reserve, level, mayCalibrate, calibrated, reprobes, drifts, cache,
                     cpc, pending, tallies, got, granted, reason, answer, shown, wholeDrifted>>
      /\ UNCHANGED <<faults, ops, gran, half, window, entry, exitCode, grounds, since>>
      /\ stage = "confirm" /\ stage' \in {"confirm", "commit"}
    BY <1>1 DEF Confirm, identity, call, corpus, history
<1>3. x.ran \in BOOLEAN /\ x.seen \in Attempt /\ (~x.ran => ~x.seen.reached) /\ spent' \in Nat
    BY <1>1, SingleIs
<1>4. Signal(x.seen, level) = "reproduced" => x.ran
    <2>1. level \in {"key", "class"}
        BY DEF ShrinkTyped
    <2> QED BY <1>3, <2>1, SignalsAre
<1>5. trials < ConfirmK /\ reproduced <= trials /\ trials \in Nat /\ reproduced \in Nat /\ ConfirmK \in Nat
    BY <1>2, ProberAssumption DEF ShrinkInv, GateInv, ShrinkTyped
<1>6. trials' \in Nat /\ reproduced' \in Nat /\ reproduced' <= trials' /\ trials' <= ConfirmK
    BY <1>1, <1>3, <1>4, <1>5
<1>7. stage' = "confirm" => trials' < ConfirmK
    BY <1>1, <1>5, <1>6
<1>8. GateInv'
    BY <1>2, <1>6, <1>7 DEF GateInv
<1>9. ShrinkInv'
    BY <1>2, <1>8, NothingIsReduced
<1>10. Current' = Current
    BY <1>2 DEF Current
<1>11. ShrinkTyped'
    BY <1>2, <1>3, <1>6, <1>10 DEF ShrinkTyped, Reducing
<1> QED BY <1>9, <1>11

LEMMA CommitKeeps ==
    ASSUME ShrinkTyped, ShrinkInv, CommitWorld \/ CommitPlan \/ Killed
    PROVE  ShrinkTyped' /\ ShrinkInv'
<1>1. /\ UNCHANGED <<opt, interrupted, expired, spent, reserve, level, mayCalibrate, calibrated, reprobes,
                     drifts, cache, cpc, pending, tallies, got, granted, reason, answer, shown, wholeDrifted>>
      /\ UNCHANGED <<faults, ops, gran, half, window, trials, reproduced, grounds, since>>
      /\ stage \in {"commit", "plan"} /\ stage' \in {"plan", "done", "killed"}
    BY ProberRests DEF CommitWorld, CommitPlan, Killed, history
<1>2. entry \in Entry
    BY DEF ShrinkTyped
<1>3. entry' \in Entry /\ (stage' = "plan" => entry'.world = "own")
    <2>1. CASE CommitWorld
        BY <1>2, <2>1 DEF CommitWorld, Entry
    <2>2. CASE CommitPlan
        <3>1. entry' \in [world : {"own"}, plan : {"own", "none", "torn"}] \/ entry' = entry
            BY <2>2 DEF CommitPlan
        <3> QED BY <1>2, <2>2, <3>1 DEF CommitPlan, Entry
    <2>3. CASE Killed
        <3>1. entry' = entry \/ entry' = [entry EXCEPT !.plan = "torn"]
            BY <2>3 DEF Killed
        <3> QED BY <1>2, <2>3, <3>1 DEF Killed, Entry
    <2> QED BY <2>1, <2>2, <2>3
<1>4. GateInv'
    BY <1>1, <1>3 DEF ShrinkInv, GateInv
<1>5. ShrinkInv'
    BY <1>1, <1>4, NothingIsReduced
<1>6. Current' = Current
    BY <1>1 DEF Current
<1>7. ShrinkTyped'
    BY <1>1, <1>3, <1>6 DEF ShrinkTyped, Reducing
<1> QED BY <1>5, <1>7

-----------------------------------------------------------------------------
LEMMA ShrinkStarts == ShrinkInit => ShrinkTyped /\ ShrinkInv
<1> SUFFICES ASSUME ShrinkInit PROVE ShrinkTyped /\ ShrinkInv
    OBVIOUS
<1> DEFINE N == Len(Windows)
<1>1. /\ opt \in Options /\ interrupted = FALSE /\ expired = FALSE /\ spent = 0 /\ reserve = ConfirmK
      /\ level = (IF opt.typed = "default" THEN "key" ELSE opt.typed)
      /\ mayCalibrate = (opt.typed = "default") /\ calibrated = FALSE /\ reprobes = 0 /\ drifts = {}
      /\ cache = <<>> /\ cpc = "idle" /\ got = <<>> /\ granted = 0 /\ reason = Complete /\ answer = Silence
      /\ wholeDrifted = FALSE
    BY DEF ShrinkInit, ProberInit
<1>2. /\ stage = (IF opt.baseline THEN "baseline" ELSE "faults") /\ faults = Windows /\ ops = Every
      /\ gran = 2 /\ half = (IF N >= 2 THEN "parts" ELSE IF N = 1 THEN "empty" ELSE "over")
      /\ window = Nowhere /\ trials = 0 /\ reproduced = 0 /\ entry = opt.found
      /\ grounds = [of |-> Whole, shown |-> NoEvidence] /\ since = level
    BY DEF ShrinkInit
<1>3. opt.typed \in {"default", "key", "class"} /\ opt.baseline \in BOOLEAN /\ opt.found \in Entry
    BY <1>1, OptionIs
<1>4. ConfirmK \in Nat
    BY ProberAssumption
<1>5. /\ DOMAIN Windows = 1 .. N /\ N \in Nat /\ Windows \in [DOMAIN Windows -> Nat \X Nat]
      /\ Restrict(Windows, DOMAIN Windows) = Windows
    BY WindowsAre DEF Restrict
<1>6. Cardinality(DOMAIN Windows) = N
    <2>1. Cardinality(1 .. N) = N
        BY <1>5, FS_Interval
    <2> QED BY <1>5, <2>1
<1>7. Current = Whole /\ Current \in World /\ Whole \in World
    <2>1. Current = Whole
        BY <1>2 DEF Current, Whole
    <2>2. Whole \in World
        BY <1>5 DEF Whole, World, Sets, Every
    <2> QED BY <2>1, <2>2
<1> HIDE DEF N
<1>8. DOMAIN cache = {} /\ cache \in [DOMAIN cache -> Signals]
    <2>1. DOMAIN <<>> = {} /\ <<>> \in [{} -> Signals]
        OBVIOUS
    <2> QED BY <1>1, <2>1
<1>9. ShrinkTyped
    <2>1. Nowhere \in [fault : Nat, side : {"end", "start"}, lo : Nat, hi : Nat, probes : Nat]
        BY DEF Nowhere
    <2>2. NoEvidence \in Evidence
        BY DEF NoEvidence, Evidence
    <2>3. half \in {"parts", "complements", "empty", "over"}
        BY <1>2
    <2>4. grounds \in [of : World, shown : Evidence]
        BY <1>2, <1>7, <2>2
    <2> QED BY <1>1, <1>2, <1>3, <1>4, <1>7, <1>8, <2>1, <2>3, <2>4, SilenceIs DEF ShrinkTyped, Reducing, Stops
<1>10. ListInv
    <2>1. Offers(DOMAIN faults) /\ (half = "over" => DOMAIN faults = {})
        BY <1>2, <1>5, <1>6 DEF Offers
    <2>2. stage # "ops"
        BY <1>2
    <2> QED BY <1>2, <1>5, <1>8, <2>1, <2>2 DEF ListInv
<1>11. WindowInv /\ AskedInv /\ OpenInv /\ AnswerInv
    BY <1>1, <1>2 DEF WindowInv, AskedInv, OpenInv, AnswerInv, Open
<1>12. RelaxInv
    BY <1>1, <1>2 DEF RelaxInv, OnlyTheWorldItselfRelaxes
<1>13. MemoInv
    BY <1>8 DEF MemoInv
<1>14. GroundsInv
    <2>1. grounds.shown.own <= grounds.shown.any
        BY <1>2 DEF NoEvidence
    <2>2. stage \in Reducing => Current = Whole /\ ~opt.baseline
        BY <1>2, <1>7 DEF Reducing
    <2> QED BY <1>2, <2>1, <2>2 DEF GroundsInv, SurvivorsReproduced
<1>15. MinimalInv
    BY <1>2, <1>5 DEF MinimalInv, Minimal
<1>16. GateInv
    BY <1>2, <1>4 DEF GateInv
<1> QED BY <1>9, <1>10, <1>11, <1>12, <1>13, <1>14, <1>15, <1>16 DEF ShrinkInv

LEMMA ShrinkStep == ShrinkTyped /\ ShrinkInv /\ [ShrinkNext]_shrinkVars => ShrinkTyped' /\ ShrinkInv'
<1> SUFFICES ASSUME ShrinkTyped, ShrinkInv, [ShrinkNext]_shrinkVars PROVE ShrinkTyped' /\ ShrinkInv'
    OBVIOUS
<1>1. CASE Judge
    BY <1>1, JudgeKeeps
<1>2. CASE Answered
    BY <1>2, BaselineKeeps, FaultsAnsweredKeeps, OpsAnsweredKeeps, NarrowAnsweredKeeps DEF Answered
<1>3. CASE ProbeTheKey
    BY <1>3, ProbeTheKeyKeeps
<1>4. CASE EndFaults
    BY <1>4, EndFaultsKeeps
<1>5. CASE EndOps
    BY <1>5, EndOpsKeeps
<1>6. CASE CanceledAtTheTop
    BY <1>6, CanceledAtTheTopKeeps
<1>7. CASE Gate
    BY <1>7, GateKeeps
<1>8. CASE Confirm
    BY <1>8, ConfirmKeeps
<1>9. CASE CommitWorld \/ CommitPlan \/ Killed
    BY <1>9, CommitKeeps
<1>10. CASE Environment
    BY <1>10, EnvironmentKeeps
<1>11. CASE UNCHANGED shrinkVars
    <2>1. UNCHANGED <<prober, pipeline, corpus, history>>
        BY <1>11 DEF shrinkVars
    <2>2. interrupted' = interrupted /\ expired' = expired /\ UNCHANGED <<opt, spent, reserve, identity, cache, call, wholeDrifted>>
        BY <2>1 DEF prober, ledger
    <2>3. interrupted' \in BOOLEAN /\ expired' \in BOOLEAN
        BY <2>2 DEF ShrinkTyped
    <2> QED BY <2>1, <2>2, <2>3, NothingHappens
<1> QED BY <1>1, <1>2, <1>3, <1>4, <1>5, <1>6, <1>7, <1>8, <1>9, <1>10, <1>11 DEF ShrinkNext

\* The inductive invariant of a shrink, for every schedule, every plan, every way
\* an execution may turn out, and every place where the budget may end.
THEOREM ShrinkIsInductive == ShrinkSpec => [](ShrinkTyped /\ ShrinkInv)
BY ShrinkStarts, ShrinkStep, PTL DEF ShrinkSpec

\* ddmin's minimality is what the memo holds about the faults that survive.
THEOREM ResultsAreEarned == ShrinkSpec => []ResultIsEarned
<1>1. ShrinkInv => ResultIsEarned
    <2> SUFFICES ASSUME ShrinkInv PROVE ResultIsEarned
        OBVIOUS
    <2>1. SurvivorsReproduced /\ OnlyTheWorldItselfRelaxes
        BY DEF ShrinkInv, GroundsInv, RelaxInv
    <2>2. OneMinimal
        BY DEF ShrinkInv, MinimalInv, Minimal, Judged, OneMinimal
    <2> QED BY <2>1, <2>2 DEF ResultIsEarned
<1> QED BY <1>1, ShrinkIsInductive, PTL

\* A world enters the corpus after k executions out of k, and nothing in it is
\* replaced.
THEOREM CorpusHoldsWhatWasConfirmed == ShrinkSpec => CorpusIsConfirmed
<1> DEFINE Kept ==
        /\ entry'.world # entry.world =>
               entry.world = "none" /\ trials = ConfirmK /\ reproduced = ConfirmK
        /\ entry'.plan # entry.plan => entry.plan = "none" /\ entry'.world = "own"
<1>1. ShrinkTyped /\ ShrinkInv /\ [ShrinkNext]_shrinkVars => [Kept]_shrinkVars
    <2> SUFFICES ASSUME ShrinkTyped, ShrinkInv, ShrinkNext PROVE Kept
        OBVIOUS
    <2>0. entry \in Entry /\ trials <= ConfirmK /\ (stage = "plan" => entry.world = "own")
          /\ trials \in Nat /\ ConfirmK \in Nat
        BY ProberAssumption DEF ShrinkTyped, ShrinkInv, GateInv
    <2>1. CASE CommitWorld
        <3>1. CASE entry' = entry
            BY <3>1
        <3>2. CASE /\ Passed /\ entry.world \in {"none", "own"}
                   /\ entry' = [entry EXCEPT !.world = "own"]
            <4>1. entry'.plan = entry.plan /\ entry'.world = "own"
                BY <2>0, <3>2 DEF Entry
            <4> QED BY <2>0, <3>2, <4>1 DEF Passed
        <3> QED BY <2>1, <3>1, <3>2 DEF CommitWorld
    <2>2. CASE CommitPlan
        <3>1. \/ entry' = entry
              \/ entry.plan = "none" /\ entry' \in [world : {"own"}, plan : {"own", "none", "torn"}]
            BY <2>2 DEF CommitPlan
        <3>2. entry.world = "own"
            BY <2>0, <2>2 DEF CommitPlan
        <3> QED BY <3>1, <3>2
    <2>3. CASE Killed
        <3>1. entry' = entry \/ (entry.plan = "none" /\ entry' = [entry EXCEPT !.plan = "torn"])
            BY <2>3 DEF Killed
        <3>2. entry.world = "own"
            BY <2>0, <2>3 DEF Killed
        <3> QED BY <2>0, <3>1, <3>2 DEF Entry
    <2>4. CASE ~(CommitWorld \/ CommitPlan \/ Killed)
        <3>1. entry' = entry
            BY <2>4 DEF ShrinkNext, Judge, Answered, BaselineAnswered, FaultsAnswered, OpsAnswered, NarrowAnswered,
                        ProbeTheKey, EndFaults, EndOps, CanceledAtTheTop, Gate, Confirm, Environment, corpus
        <3> QED BY <3>1
    <2> QED BY <2>1, <2>2, <2>3, <2>4
<1> QED BY <1>1, ShrinkIsInductive, PTL DEF ShrinkSpec, CorpusIsConfirmed
=============================================================================
