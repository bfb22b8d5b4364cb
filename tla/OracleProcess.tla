---------------------------- MODULE OracleProcess ----------------------------
(***************************************************************************)
(* One external oracle as ProcessOracle runs it (internal/oracle/          *)
(* process.go): its process, one descendant of it, the readers of its      *)
(* pipes, the goroutine that waits for both and then for the process, and  *)
(* exec itself, which a time limit or the world's context may cut short.   *)
(* interpret turns what exec saw into a status.                            *)
(***************************************************************************)
EXTENDS Naturals

VARIABLES
    main,       \* the oracle's process: st, the pipes it holds, its exit, deaf
    kid,        \* a descendant of it: st, its pipes, escaped from the group, deaf
    said,       \* what stands on stdout
    kill,       \* killOnce: "unused", "termed" inside TerminateTree, "done"
    out, err,   \* the readers of stdout and of stderr
    sup,        \* exec: "idle", "select", "killing", "draining", "done"
    cut,        \* why exec stopped waiting: "no", "timeout", "cancel"
    limit,      \* the oracle's own time limit has passed
    canceled,   \* the world's context has ended
    signalled   \* did a signal of TerminateTree reach the running oracle?

process  == <<main, kid, said>>
readers  == <<out, err>>
procVars == <<process, kill, readers, sup, cut, limit, canceled, signalled>>

Pipe    == {"out", "err"}
Status  == {"ok", "violated", "inconclusive"}
Code    == [ok |-> "0", violated |-> "1", inconclusive |-> "2"]
Exits   == {"0", "1", "2", "bad"}     \* bad: another code, or a signal

\* What may stand on stdout: a document with its status, or one that is none:
\* nothing, too much, or what does not parse, names no status, or contradicts
\* the oracle's definition (checkDeclaration, the witness's members).
Said == Status \cup {"nothing", "garbage", "flood"}

ProcTypeOK ==
    /\ main \in [st : {"none", "running", "zombie", "reaped"}, pipes : SUBSET Pipe,
                 exit : Exits \cup {"none"}, deaf : BOOLEAN]
    /\ kid \in [st : {"none", "running", "gone"}, pipes : SUBSET Pipe,
                escaped : BOOLEAN, deaf : BOOLEAN]
    /\ said \in Said
    /\ kill \in {"unused", "termed", "done"}
    /\ out \in {"reading", "killing", "draining", "eof"}
    /\ err \in {"reading", "eof"}
    /\ sup \in {"idle", "select", "killing", "draining", "done"}
    /\ cut \in {"no", "timeout", "cancel"}
    /\ limit \in BOOLEAN /\ canceled \in BOOLEAN /\ signalled \in BOOLEAN

ProcInit ==
    /\ main = [st |-> "none", pipes |-> {}, exit |-> "none", deaf |-> FALSE]
    /\ kid = [st |-> "none", pipes |-> {}, escaped |-> FALSE, deaf |-> FALSE]
    /\ said = "nothing"
    /\ kill = "unused"
    /\ out = "reading" /\ err = "reading"
    /\ sup = "idle" /\ cut = "no"
    /\ limit = FALSE /\ canceled = FALSE /\ signalled = FALSE

\* cmd.Start; one that fails leaves exit "none" behind (StartErr).
Start ==
    /\ sup = "idle"
    /\ \/ \E deaf \in BOOLEAN :
              main' = [st |-> "running", pipes |-> Pipe, exit |-> "none", deaf |-> deaf]
          /\ sup' = "select"
       \/ sup' = "done" /\ UNCHANGED main
    /\ UNCHANGED <<kid, said, kill, readers, cut, limit, canceled, signalled>>

-----------------------------------------------------------------------------
(* The oracle's program, which may do anything.                            *)

HarnessIdle == UNCHANGED <<kill, readers, sup, cut, limit, canceled, signalled>>

Spawn ==
    /\ main.st = "running" /\ kid.st = "none"
    /\ \E p \in {{}, {"out"}, {"err"}}, e, d \in BOOLEAN :
          /\ ~(e /\ d)      \* no signal reaches one that left the group
          /\ p \subseteq main.pipes
          /\ kid' = [st |-> "running", pipes |-> p, escaped |-> e, deaf |-> d]
    /\ UNCHANGED <<main, said>> /\ HarnessIdle

\* Either may write while it holds stdout; what follows a document spoils it.
Write ==
    /\ \/ main.st = "running" /\ "out" \in main.pipes
       \/ kid.st = "running" /\ "out" \in kid.pipes
    /\ said # "flood"
    /\ \/ said = "nothing" /\ said' \in Status
       \/ said' \in {"garbage", "flood"} \ {said}
    /\ UNCHANGED <<main, kid>> /\ HarnessIdle

ClosePipes ==
    /\ main.st = "running" /\ main.pipes # {}
    /\ main' = [main EXCEPT !.pipes = {}]
    /\ UNCHANGED <<kid, said>> /\ HarnessIdle

Dies(code) ==
    main' = [main EXCEPT !.st = "zombie", !.pipes = {}, !.exit = code, !.deaf = FALSE]

NoKid == [st |-> "none", pipes |-> {}, escaped |-> FALSE, deaf |-> FALSE]
Gone  == [NoKid EXCEPT !.st = "gone"]

Exit ==
    /\ main.st = "running"
    /\ \E code \in Exits : Dies(code)
    /\ UNCHANGED <<kid, said>> /\ HarnessIdle

KidExits ==
    /\ kid.st = "running"
    /\ kid' = Gone
    /\ UNCHANGED <<main, said>> /\ HarnessIdle

-----------------------------------------------------------------------------
(* TerminateTree: SIGTERM to the group, the grace, SIGKILL to the group.   *)
(* A process that exited but was not waited for still answers signal 0.    *)

KidHit(deadly) ==
    kid' = IF kid.st = "running" /\ ~kid.escaped /\ (deadly \/ ~kid.deaf)
           THEN Gone ELSE kid

\* A handler of SIGTERM may leave through any exit code.
SigTerm ==
    /\ \/ main.st = "running" /\ ~main.deaf /\ \E code \in Exits : Dies(code)
       \/ (main.st # "running" \/ main.deaf) /\ UNCHANGED main
    /\ KidHit(FALSE)
    /\ signalled' = (signalled \/ main.st = "running")

\* Mutant of SigKill: by pid, not to the group.
SigKillByPid ==
    /\ IF main.st = "running" THEN Dies("bad") ELSE UNCHANGED main
    /\ UNCHANGED kid
    /\ signalled' = (signalled \/ main.st = "running")

SigKill ==
    /\ IF main.st = "running" THEN Dies("bad") ELSE UNCHANGED main
    /\ KidHit(TRUE)
    /\ signalled' = (signalled \/ main.st = "running")

\* The poll finds the process gone.
FoundGone ==
    /\ kill = "termed" /\ main.st = "reaped"
    /\ kill' = "done"
    /\ UNCHANGED <<process, readers, sup, cut, limit, canceled, signalled>>

GraceOver ==
    /\ kill = "termed"
    /\ kill' = "done"
    /\ SigKill
    /\ UNCHANGED <<said, readers, sup, cut, limit, canceled>>

-----------------------------------------------------------------------------
(* The readers and the waiter.                                             *)

Open(p) == \/ main.st = "running" /\ p \in main.pipes
           \/ kid.st = "running" /\ p \in kid.pipes

\* readCapped crosses the cap: the first to call kill runs it.
Overflow ==
    /\ out = "reading" /\ said = "flood"
    /\ out' = "killing"
    /\ IF kill = "unused" THEN kill' = "termed" /\ SigTerm
       ELSE UNCHANGED <<kill, main, kid, signalled>>
    /\ UNCHANGED <<said, err, sup, cut, limit, canceled>>

Drain ==
    /\ out = "killing" /\ kill = "done"
    /\ out' = "draining"
    /\ UNCHANGED <<process, kill, err, sup, cut, limit, canceled, signalled>>

OutEnds ==
    /\ sup # "idle" /\ ~Open("out")
    /\ \/ out = "reading" /\ said # "flood"
       \/ out = "draining"
    /\ out' = "eof"
    /\ UNCHANGED <<process, kill, err, sup, cut, limit, canceled, signalled>>

ErrEnds ==
    /\ sup # "idle" /\ err = "reading" /\ ~Open("err")
    /\ err' = "eof"
    /\ UNCHANGED <<process, kill, out, sup, cut, limit, canceled, signalled>>

\* wg.Wait, then cmd.Wait: waitDone is sent once main is reaped.
Reap ==
    /\ out = "eof" /\ err = "eof" /\ main.st = "zombie"
    /\ main' = [main EXCEPT !.st = "reaped"]
    /\ UNCHANGED <<kid, said, kill, readers, sup, cut, limit, canceled, signalled>>

-----------------------------------------------------------------------------
(* exec.                                                                   *)

TimePasses ==
    /\ sup \in {"select", "killing", "draining"} /\ ~limit
    /\ limit' = TRUE
    /\ UNCHANGED <<process, kill, readers, sup, cut, canceled, signalled>>

WaitDone ==
    /\ main.st = "reaped" /\ sup \in {"select", "draining"}
    /\ sup' = "done"
    \* the kind of cut is read from the contexts once the wait is over
    /\ cut' = IF sup = "select" THEN "no" ELSE IF canceled THEN "cancel" ELSE "timeout"
    /\ UNCHANGED <<process, kill, readers, limit, canceled, signalled>>

\* runCtx.Done(): taken even when waitDone is ready too.
RunEnds ==
    /\ sup = "select" /\ (limit \/ canceled)
    /\ sup' = "killing"
    /\ IF kill = "unused" THEN kill' = "termed" /\ SigTerm
       ELSE UNCHANGED <<kill, main, kid, signalled>>
    /\ UNCHANGED <<said, readers, cut, limit, canceled>>

Killed ==
    /\ sup = "killing" /\ kill = "done"
    /\ sup' = "draining"
    /\ UNCHANGED <<process, kill, readers, cut, limit, canceled, signalled>>

\* The oracle's program is the environment; the rest is the harness.
Program == Spawn \/ Write \/ ClosePipes \/ Exit \/ KidExits

Harness == FoundGone \/ GraceOver \/ Overflow \/ Drain \/ OutEnds \/ ErrEnds
           \/ Reap \/ TimePasses \/ WaitDone \/ RunEnds \/ Killed

-----------------------------------------------------------------------------
(* interpret.                                                              *)

\* Mutant of Trustworthy: that exec cut the oracle short is forgotten.
TrustworthyIfCut ==
    main.exit \in {"0", "1", "2"} /\ said # "flood"

\* An oracle that never started has no exit, one killed by a signal no code.
Trustworthy ==
    /\ main.exit # "none"
    /\ cut = "no"
    /\ said # "flood"
    /\ main.exit \in {"0", "1", "2"}

Interpret ==
    IF Trustworthy /\ said \in Status /\ main.exit = Code[said]
    THEN said ELSE "inconclusive"
=============================================================================
