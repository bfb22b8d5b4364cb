----------------------------- MODULE ProcFaults -----------------------------
(***************************************************************************)
(* The process fault family: internal/perturber/faults/proc.go.            *)
(*                                                                         *)
(* ProcessInjector serves proc.pause, proc.kill, proc.restart and          *)
(* proc.slow by docker commands on the containers of a fault's target      *)
(* nodes.  Each call walks its targets one at a time; at any docker        *)
(* command the daemon may fail, and between any two of them a container    *)
(* may die.                                                                *)
(***************************************************************************)
EXTENDS InjectorCalls

ProcKind == {"pause", "kill", "restart", "slow"}

\* ProcPause.Inject on one target.  docker pause is verified by an inspection
\* of its own, so it may stop the container and still be reported as failed.
PauseTarget(n) ==
    /\ Turn({"inject"}, n) /\ KindOf({"pause"})
    /\ \/ (NoAnswer(n) \/ box[n].paused \/ ~box[n].up) /\ Fails(n) /\ UNCHANGED box
       \/ /\ box[n].here /\ box[n].up /\ ~box[n].paused
          /\ Becomes(n, [box[n] EXCEPT !.paused = TRUE])
          /\ Marked(n) \/ (Flaky /\ Fails(n))
    /\ UNCHANGED <<schedule, blind>>

\* ProcPause.Withdraw finds the container running.
Skips(n) == ~box[n].paused

\* ProcPause.Withdraw on one target, also as the rollback of an injection.
ResumeTarget(n) ==
    LET resumed == [box[n] EXCEPT !.paused = FALSE] IN
    /\ Turn(Undo, n) /\ KindOf({"pause"})
    /\ \/ NoAnswer(n) /\ Uninspected(n)
       \/ box[n].here /\ Skips(n) /\ Cleared(n) /\ UNCHANGED box
       \/ /\ box[n].here /\ ~Skips(n)
          /\ \/ Flaky /\ Fails(n) /\ \E b \in {box[n], resumed} : Becomes(n, b)
             \/ Cleared(n) /\ Becomes(n, resumed)
    /\ UNCHANGED <<schedule, blind>>

\* ProcKill.Inject on one target: a paused or stopped container is refused.
KillTarget(n) ==
    /\ Turn({"inject"}, n) /\ KindOf({"kill"})
    /\ \/ (NoAnswer(n) \/ box[n].paused \/ ~box[n].up) /\ Fails(n) /\ UNCHANGED box
       \/ /\ box[n].here /\ box[n].up /\ ~box[n].paused
          /\ Becomes(n, Stopped(box[n]))
          /\ TargetDone(n) /\ UNCHANGED prim
    /\ UNCHANGED <<schedule, blind>>

\* ProcRestart.Inject on one target: a paused container is resumed first; a
\* stop or a start that fails leaves the node where it got to.
RestartTarget(n) ==
    LET resumed == [box[n] EXCEPT !.paused = FALSE] IN
    /\ Turn({"inject"}, n) /\ KindOf({"restart"})
    /\ \/ ~box[n].here /\ Fails(n) /\ UNCHANGED box
       \/ /\ box[n].here
          /\ \/ /\ Becomes(n, [Stopped(box[n]) EXCEPT !.up = TRUE])
                /\ TargetDone(n) /\ UNCHANGED prim
             \/ /\ Flaky /\ Fails(n)
                /\ \E b \in {box[n], resumed, Stopped(box[n])} : Becomes(n, b)
    /\ UNCHANGED <<schedule, blind>>

\* Nothing to undo: ProcKill.Withdraw and ProcRestart.Withdraw return nil.
NothingToUndo ==
    /\ job.op \in Undo /\ job.todo # {} /\ KindOf({"kill", "restart"})
    /\ job' = [job EXCEPT !.todo = {}]
    /\ UNCHANGED <<box, prim, schedule, blind>>

\* ProcSlow.Inject on one target.
SlowTarget(n) ==
    LET slowed == [box[n] EXCEPT !.quota = job.fault] IN
    /\ Turn({"inject"}, n) /\ KindOf({"slow"})
    /\ \/ NoAnswer(n) /\ Fails(n) /\ UNCHANGED box
       \/ /\ box[n].here
          /\ prim' = [prim EXCEPT ![job.fault].base[n] = Baseline(n, box[n].quota),
                                  ![job.fault].applied = @ \cup {n}]
          /\ TargetDone(n) /\ Becomes(n, slowed)
       \/ /\ box[n].here /\ Flaky /\ Observed(n, box[n].quota)
          /\ TargetFailed(n) /\ \E b \in {box[n], slowed} : Becomes(n, b)
    /\ UNCHANGED <<schedule, blind>>

\* ProcSlow.Withdraw on one target.  A quota without a baseline is an error
\* whoever set it.
UnthrottleTarget(n) ==
    LET base     == prim[job.fault].base[n]
        restored == [box[n] EXCEPT !.quota = base]
    IN
    /\ Turn(Undo, n) /\ KindOf({"slow"})
    /\ \/ NoAnswer(n) /\ Uninspected(n)
       \/ box[n].here /\ box[n].quota = None /\ Cleared(n) /\ UNCHANGED box
       \/ /\ box[n].here /\ box[n].quota # None
          /\ \/ base = Unknown /\ Fails(n) /\ UNCHANGED box
             \/ /\ base # Unknown /\ Flaky /\ Fails(n)
                /\ \E b \in {box[n], restored} : Becomes(n, b)
             \/ base # Unknown /\ Cleared(n) /\ Becomes(n, restored)
    /\ UNCHANGED <<schedule, blind>>

\* ProcessInjector.VerifyClean of one node.  A container that cannot be
\* inspected is a residue if docker ps still lists one for the node, and is
\* skipped if docker ps fails too.
VerifyProc(n) ==
    /\ Verifies("proc", n)
    /\ \/ box[n].here /\ Reports(n, box[n].paused \/ box[n].quota # None)
       \/ ~box[n].here /\ Reports(n, TRUE)
       \/ Flaky /\ \E seen \in BOOLEAN : Reports(n, seen)

ProcStep ==
    \/ \E n \in Node : PauseTarget(n)
    \/ \E n \in Node : ResumeTarget(n)
    \/ \E n \in Node : KillTarget(n)
    \/ \E n \in Node : RestartTarget(n)
    \/ \E n \in Node : SlowTarget(n)
    \/ \E n \in Node : UnthrottleTarget(n)
    \/ NothingToUndo
    \/ \E n \in Node : VerifyProc(n)
=============================================================================
