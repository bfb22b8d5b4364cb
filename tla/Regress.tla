------------------------------ MODULE Regress ------------------------------
(***************************************************************************)
(* The committed corpus replayed in order: cmdRegress and replay.Regress,  *)
(* cmd/thesis/regress.go and internal/replay/regress.go.                   *)
(***************************************************************************)
EXTENDS Replay

VARIABLES
    corpus,    \* the entries in the order of their names, as they are on disk
    status     \* WorldResult.Status of the entries dealt with

regress == <<corpus, status>>

\* ok; corrupt at the command's own reading or only at Regress's; a driver
\* profile that does not resolve; a plan that is missing or another's.
Entry == {"ok", "corrupt", "spoils", "noexec", "noplan"}
Status == {"NON_REPRODUCING", "FAIL", "INCONCLUSIVE", "NOT_REACHED"}

At == Len(status) + 1

\* Mutant of Refuses: only a corpus of nothing else is refused.
RefusesTotalLoss == \A i \in 1..Len(corpus) : corpus[i] = "corrupt"

\* A corpus that holds a broken member is not run at all.
Refuses == \E i \in 1..Len(corpus) : corpus[i] = "corrupt"

Open ==
    /\ pc = "regress"
    /\ IF corpus = <<>> THEN Ends(0)
       ELSE IF Refuses THEN Ends(2)
       ELSE pc' = "entries" /\ UNCHANGED <<cmd, exit>>
    /\ UNCHANGED <<clock, replay, regress>>

Gets(s) ==
    /\ status' = Append(status, s)
    /\ pc' = "entries" /\ UNCHANGED <<cmd, exit, corpus>>

Overdue == Past(Deadline)

NotReached ==
    /\ pc = "entries" /\ At <= Len(corpus)
    /\ Overdue \/ CtxOver
    /\ Gets("NOT_REACHED")
    /\ UNCHANGED <<clock, replay>>

Unloadable ==
    /\ pc = "entries" /\ At <= Len(corpus) /\ ~Overdue /\ ~CtxOver
    /\ corpus[At] \in {"corrupt", "spoils"}
    /\ Gets("INCONCLUSIVE")
    /\ UNCHANGED <<clock, replay>>

\* The entry is judged worth starting; its executor and its plan come next.
Enter ==
    /\ pc = "entries" /\ At <= Len(corpus) /\ ~Overdue /\ ~CtxOver
    /\ corpus[At] \notin {"corrupt", "spoils"}
    /\ pc' = "prepare"
    /\ UNCHANGED <<clock, cmd, exit, replay, regress>>

Unprepared ==
    /\ pc = "prepare" /\ corpus[At] \in {"noexec", "noplan"}
    /\ Gets("INCONCLUSIVE")
    /\ UNCHANGED <<clock, replay>>

\* The remaining budget is computed here.  Nothing left is zero or less, which
\* to the replay is no budget at all.
Remaining == IF Overdue THEN Null ELSE Deadline

Prepared ==
    /\ pc = "prepare" /\ corpus[At] = "ok"
    /\ StartReplay(Remaining)
    /\ pc' = "entry"
    /\ UNCHANGED <<clock, cmd, exit, regress>>

\* One reproduction is enough, one unknown is too many.
EntryStatus ==
    IF Reproduced THEN "FAIL"
    ELSE IF Inconclusive \/ execs = <<>> THEN "INCONCLUSIVE"
    ELSE "NON_REPRODUCING"

EntryDone ==
    /\ pc = "entry" /\ rpc = "over"
    /\ Gets(EntryStatus)
    /\ Forget
    /\ UNCHANGED clock

Have(s) == \E i \in 1..Len(status) : status[i] = s

\* RegressReport.ExitCode.
RegressExit ==
    IF Have("FAIL") THEN 1
    ELSE IF Have("INCONCLUSIVE") \/ Have("NON_REPRODUCING") THEN 2
    ELSE IF Have("NOT_REACHED") THEN 3
    ELSE 0

Report ==
    /\ pc = "entries" /\ At > Len(corpus)
    /\ Ends(RegressExit)
    /\ UNCHANGED <<clock, replay, regress>>

RegressStep ==
    Open \/ NotReached \/ Unloadable \/ Enter \/ Unprepared \/ Prepared \/ EntryDone \/ Report

RegressTypeOK == corpus \in Seq(Entry) /\ status \in Seq(Status) /\ Len(status) <= Len(corpus)
=============================================================================
