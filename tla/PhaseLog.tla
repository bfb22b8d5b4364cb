------------------------------ MODULE PhaseLog ------------------------------
(***************************************************************************)
(* The record of a world's phases: PhaseLog in internal/control/phase.go.  *)
(* Primary phases follow one another; PERTURB is nested in DRIVE.  Each    *)
(* phase is also written as a marker, and the write may fail after the     *)
(* phase was entered.  The actions are composed with the lifecycle in      *)
(* World.                                                                  *)
(***************************************************************************)
EXTENDS Naturals

BOOT == 1     SEED == 2     DRIVE == 3     PERTURB == 4
HEAL == 5  QUIESCE == 6    ASSERT == 7    TEARDOWN == 8

Phase == BOOT..TEARDOWN

VARIABLES
    maxOrd,    \* the highest phase entered, 0 before BOOT
    nested,    \* is a nested window open?
    reached    \* the phases entered

phases == <<maxOrd, nested, reached>>

PhaseTypeOK ==
    /\ maxOrd \in Phase \cup {0}
    /\ nested \in BOOLEAN
    /\ reached \subseteq Phase

PhaseInit == maxOrd = 0 /\ nested = FALSE /\ reached = {}

Enters(p) ==
    /\ maxOrd' = p
    /\ reached' = reached \cup {p}

MayAdvance(p) == ~nested /\ p > maxOrd

Advance(p) == MayAdvance(p) /\ Enters(p) /\ UNCHANGED nested

\* Refused, or entered with its marker unwritten: an error either way.
AdvanceFails(p) ==
    /\ IF MayAdvance(p) THEN Enters(p) ELSE UNCHANGED <<maxOrd, reached>>
    /\ UNCHANGED nested

MayNest(p) == maxOrd # 0 /\ ~nested /\ p > maxOrd

Nest(p) == MayNest(p) /\ Enters(p) /\ nested' = TRUE

NestFails(p) ==
    IF MayNest(p) THEN Enters(p) /\ nested' = TRUE ELSE UNCHANGED phases

\* Unnest, which closes whatever nested window is open.
Unnested == FALSE
=============================================================================
