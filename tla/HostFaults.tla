------------------------------ MODULE HostFaults ----------------------------
(***************************************************************************)
(* The clock, disk, memory and descriptor faults:                          *)
(* internal/perturber/faults/clock.go and io.go.                           *)
(*                                                                         *)
(* A clock fault recreates the container into a time namespace, and        *)
(* recreates it again to withdraw; the other kinds act on the container    *)
(* by the id it booted with.  io.latency and io.error are refused before   *)
(* they touch anything and are left out.                                   *)
(***************************************************************************)
EXTENDS InjectorCalls

HostKind == {"clock", "fill", "mem", "fd"}

\* docker exec and a shared PID namespace need a process that runs.
Runs(n) == box[n].here /\ box[n].up /\ ~box[n].paused

\* What `compose up --force-recreate` may leave when it fails: nothing done, the
\* container recreated but not ready, or the old one gone and no new one up.
Halfway(n, skew) == {box[n], Recreated(skew), Stopped(Recreated(skew))}

\* ClockShift.injectOne: the argv to wrap is read from the container that booted.
SkewTarget(n) ==
    /\ Turn({"inject"}, n) /\ KindOf({"clock"})
    /\ \/ NoAnswer(n) /\ Fails(n) /\ UNCHANGED box
       \/ box[n].here /\ Flaky /\ Fails(n) /\ \E b \in Halfway(n, job.fault) : Becomes(n, b)
       \/ box[n].here /\ Marked(n) /\ Becomes(n, Recreated(job.fault))
    /\ UNCHANGED <<schedule, blind>>

\* ClockShift.Withdraw on one target, which it finds by label.
UnskewTarget(n) ==
    /\ Turn(Undo, n) /\ KindOf({"clock"})
    /\ \/ Flaky /\ Uninspected(n)
       \/ box[n].skew = None /\ Cleared(n) /\ UNCHANGED box
       \/ /\ box[n].skew # None
          /\ \/ Flaky /\ Fails(n) /\ \E b \in Halfway(n, None) : Becomes(n, b)
             \/ Cleared(n) /\ Becomes(n, Recreated(None))
    /\ UNCHANGED <<schedule, blind>>

\* IOFill.injectOne: a filesystem another fault has filled may be refused.
FillTarget(n) ==
    LET filled == [box[n] EXCEPT !.ballast = @ \cup {job.fault}] IN
    /\ Turn({"inject"}, n) /\ KindOf({"fill"})
    /\ \/ /\ Flaky \/ ~Runs(n) \/ box[n].ballast # {}
          /\ Fails(n) /\ UNCHANGED box
       \/ Runs(n) /\ Becomes(n, filled) /\ (Marked(n) \/ (Flaky /\ Fails(n)))
    /\ UNCHANGED <<schedule, blind>>

\* A container that cannot be inspected, or is not running, is taken to be gone.
TakenForGone(n) ==
    /\ NoAnswer(n) \/ ~box[n].up
    /\ Cleared(n)
    /\ blind' = IF box[n].here THEN blind \cup {n} ELSE blind
    /\ UNCHANGED box

\* Mutant of Emptied: the ballast is looked for under a new name.
EmptiedOther(n) == box[n]

\* The ballast file is named for the run and the fault.
Emptied(n) == [box[n] EXCEPT !.ballast = @ \ {job.fault}]

\* IOFill.Withdraw on one target.
EmptyTarget(n) ==
    /\ Turn(Undo, n) /\ KindOf({"fill"})
    /\ \/ TakenForGone(n)
       \/ /\ box[n].here /\ box[n].up /\ (Flaky \/ box[n].paused)
          /\ Fails(n) /\ UNCHANGED blind
          /\ \E b \in {box[n], IF Runs(n) THEN Emptied(n) ELSE box[n]} : Becomes(n, b)
       \/ Runs(n) /\ Becomes(n, Emptied(n)) /\ Cleared(n) /\ UNCHANGED blind
    /\ UNCHANGED schedule

\* MemPressure.Inject on one target.
PressTarget(n) ==
    LET pressed == [box[n] EXCEPT !.mem = job.fault] IN
    /\ Turn({"inject"}, n) /\ KindOf({"mem"})
    /\ \/ NoAnswer(n) /\ Fails(n) /\ UNCHANGED box
       \/ /\ box[n].here
          /\ prim' = [prim EXCEPT ![job.fault].base[n] = Baseline(n, box[n].mem),
                                  ![job.fault].applied = @ \cup {n}]
          /\ TargetDone(n) /\ Becomes(n, pressed)
       \/ /\ box[n].here /\ Flaky /\ Observed(n, box[n].mem)
          /\ TargetFailed(n) /\ \E b \in {box[n], pressed} : Becomes(n, b)
    /\ UNCHANGED <<schedule, blind>>

\* MemPressure.Withdraw on one target.  Without a baseline there is nothing to
\* restore, which is an error only for the primitive that applied the limit.
RelieveTarget(n) ==
    LET base     == prim[job.fault].base[n]
        restored == [box[n] EXCEPT !.mem = base]
    IN
    /\ Turn(Undo, n) /\ KindOf({"mem"})
    /\ \/ (NoAnswer(n) \/ base = Unknown) /\ Uninspected(n)
       \/ box[n].here /\ box[n].mem = base /\ Cleared(n) /\ UNCHANGED box
       \/ /\ box[n].here /\ base # Unknown /\ box[n].mem # base
          /\ \/ Flaky /\ Fails(n) /\ \E b \in {box[n], restored} : Becomes(n, b)
             \/ Cleared(n) /\ Becomes(n, restored)
    /\ UNCHANGED <<schedule, blind>>

\* FDExhaust.Inject on one target: a limit no lower than the one in force is
\* refused.
ExhaustTarget(n) ==
    LET limited == [box[n] EXCEPT !.fd = job.fault] IN
    /\ Turn({"inject"}, n) /\ KindOf({"fd"})
    /\ \/ (Flaky \/ ~Runs(n)) /\ Fails(n) /\ UNCHANGED box
       \/ /\ Runs(n) /\ (Flaky \/ box[n].fd # None)
          /\ Observed(n, box[n].fd) /\ TargetFailed(n)
          /\ \E b \in {box[n], limited} : Becomes(n, b)
       \/ /\ Runs(n)
          /\ prim' = [prim EXCEPT ![job.fault].base[n] = Baseline(n, box[n].fd),
                                  ![job.fault].applied = @ \cup {n}]
          /\ TargetDone(n) /\ Becomes(n, limited)
    /\ UNCHANGED <<schedule, blind>>

\* FDExhaust.Withdraw on one target.
UnlimitTarget(n) ==
    LET base     == prim[job.fault].base[n]
        restored == [box[n] EXCEPT !.fd = base]
    IN
    /\ Turn(Undo, n) /\ KindOf({"fd"})
    /\ \/ TakenForGone(n)
       \/ /\ box[n].here /\ box[n].up
          /\ \/ base = Unknown /\ Uninspected(n)
             \/ base = box[n].fd /\ Cleared(n) /\ UNCHANGED box
             \/ /\ base # Unknown /\ Flaky /\ Fails(n)
                /\ \E b \in {box[n], restored} : Becomes(n, b)
             \/ base # Unknown /\ Cleared(n) /\ Becomes(n, restored)
          /\ UNCHANGED blind
    /\ UNCHANGED schedule

\* ClockInjector.VerifyClean of one node, found by label.
VerifyClock(n) ==
    /\ Verifies("clock", n)
    /\ Reports(n, box[n].skew # None) \/ (Flaky /\ Reports(n, FALSE))

\* IOInjector.VerifyClean of one node, found by label: one that does not run is
\* passed over, and limits are judged only against the BOOT snapshot.
VerifyIO(n) ==
    /\ Verifies("io", n)
    /\ \/ Reports(n, /\ box[n].up
                     /\ \/ box[n].ballast # {} /\ ~box[n].paused
                        \/ n \in KnownBaseline /\ (box[n].mem # None \/ box[n].fd # None))
       \/ Flaky /\ Reports(n, FALSE)

HostStep ==
    \/ \E n \in Node : SkewTarget(n)
    \/ \E n \in Node : UnskewTarget(n)
    \/ \E n \in Node : FillTarget(n)
    \/ \E n \in Node : EmptyTarget(n)
    \/ \E n \in Node : PressTarget(n)
    \/ \E n \in Node : RelieveTarget(n)
    \/ \E n \in Node : ExhaustTarget(n)
    \/ \E n \in Node : UnlimitTarget(n)
    \/ \E n \in Node : VerifyClock(n)
    \/ \E n \in Node : VerifyIO(n)
=============================================================================
