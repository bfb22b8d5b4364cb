------------------------------ MODULE Loadgen ------------------------------
(***************************************************************************)
(* The fixture's load generator and the history it records, as far as the  *)
(* linearizability checker can tell them apart: logical processes with one *)
(* operation in flight each, the ok / fail / info classification of what   *)
(* came back, and records that carry the driver's clock.  Which process an *)
(* operation belongs to is never read, so the operations in flight are a   *)
(* set.  The cluster behind them is a register per key that executes a     *)
(* request at once, late, or never, and may answer a read with a value     *)
(* that was overwritten.                                                   *)
(***************************************************************************)
EXTENDS Integers, FiniteSets

CONSTANTS
  Clients,      \* how many logical processes the driver runs
  Keys,         \* the key space, numbered as the checker sorts it
  Profiles,     \* the operation mixes a driver may run
  MaxOps,       \* the profile's operation budget
  Unrecorded,   \* how many operations may begin before the history does
  Lies          \* how many reads the cluster may answer with another value

ASSUME LoadgenAssumption ==
  /\ Clients \in Nat \ {0}
  /\ Keys \subseteq Nat \ {0} /\ Keys # {} /\ IsFiniteSet(Keys)
  /\ \A m \in Profiles : m \subseteq {"read", "write", "txn"}
  /\ MaxOps \in Nat \ {0} /\ Unrecorded \in Nat /\ Lies \in Nat

VARIABLES
  mix,        \* the kinds of operation the profile draws from
  inFlight,   \* the requests the driver's processes wait for
  register,   \* the value each key holds
  doubtful,   \* writes the driver gave up on, which may still execute
  nextOp,     \* the next operation id
  clock,      \* the driver's clock
  recording,  \* whether the window the history covers has begun
  hist,       \* the records in the history
  lies,       \* how many reads were answered with another value
  driving     \* the driver has not ended yet

driverVars == <<mix, inFlight, register, doubtful, nextOp, clock, recording, hist, lies, driving>>

Null == 0                        \* what a key holds before its first write
Ops == 1..MaxOps                 \* op ids; a write writes its own id, as every value is unique

\* Time passes between two records, except that an invoke may carry the timestamp
\* of a completion before it: no other tie is read in another order than the one
\* the records were made in.
Ties == IF \E r \in hist : r.t = clock /\ r.type # "invoke" THEN {clock} ELSE {}

Log(type, q, value, times) ==
  IF recording
    THEN \E t \in times :
           /\ clock' = t
           /\ hist' = hist \cup {[op |-> q.op, type |-> type, f |-> q.f, key |-> q.key,
                                  value |-> value, t |-> t]}
    ELSE UNCHANGED <<clock, hist>>

DriverInit ==
  /\ mix \in Profiles
  /\ inFlight = {}
  /\ register = [k \in Keys |-> Null]
  /\ doubtful = {}
  /\ nextOp = 1
  /\ clock = 0
  /\ recording \in BOOLEAN
  /\ hist = {}
  /\ lies = 0
  /\ driving = TRUE

\* The value a record names before the operation has an answer.
Asked(q) == IF q.f = "read" THEN Null ELSE q.op

Call ==
  /\ driving /\ Cardinality(inFlight) < Clients /\ nextOp \in Ops
  /\ \E f \in mix, k \in Keys :
       LET q == [op |-> nextOp, f |-> f, key |-> k, executed |-> FALSE, value |-> Null]
       IN /\ inFlight' = inFlight \cup {q}
          /\ Log("invoke", q, Asked(q), {clock + 1} \cup Ties)
  /\ nextOp' = nextOp + 1
  /\ UNCHANGED <<mix, register, doubtful, recording, lies, driving>>

\* The cluster executes a request its client still waits for.
ExecuteRead(q) ==
  /\ q.f = "read"
  /\ \E v \in {Null} \cup (1..(nextOp - 1)) :
       /\ inFlight' = (inFlight \ {q}) \cup {[q EXCEPT !.executed = TRUE, !.value = v]}
       /\ lies' = IF v = register[q.key] THEN lies ELSE lies + 1
  /\ lies' <= Lies
  /\ UNCHANGED register

ExecuteWrite(q) ==
  /\ q.f # "read"
  /\ inFlight' = (inFlight \ {q}) \cup {[q EXCEPT !.executed = TRUE, !.value = q.op]}
  /\ register' = [register EXCEPT ![q.key] = q.op]
  /\ UNCHANGED lies

Execute ==
  /\ driving
  /\ \E q \in inFlight : ~q.executed /\ (ExecuteRead(q) \/ ExecuteWrite(q))
  /\ UNCHANGED <<mix, doubtful, nextOp, clock, recording, hist, driving>>

\* A definite refusal (applied:false), after perform has followed the leader hints
\* it was given: no attempt of them was executed.
Fail ==
  /\ driving
  /\ \E q \in inFlight :
       /\ ~q.executed
       /\ Log("fail", q, Null, {clock + 1})
       /\ inFlight' = inFlight \ {q}
  /\ UNCHANGED <<mix, register, doubtful, nextOp, recording, lies, driving>>

Answer ==
  /\ driving
  /\ \E q \in inFlight :
       /\ q.executed
       /\ Log("ok", q, q.value, {clock + 1})
       /\ inFlight' = inFlight \ {q}
  /\ UNCHANGED <<mix, register, doubtful, nextOp, recording, lies, driving>>

\* A timeout, a reset, a body that cannot be read: the request was executed, will
\* be executed, or never is.
Unanswered == "info"

GiveUp ==
  /\ driving
  /\ \E q \in inFlight :
       /\ Log(Unanswered, q, Asked(q), {clock + 1})
       /\ doubtful' = IF q.executed \/ q.f = "read" THEN doubtful ELSE doubtful \cup {q}
       /\ inFlight' = inFlight \ {q}
  /\ UNCHANGED <<mix, register, nextOp, recording, lies, driving>>

ExecuteLate ==
  /\ driving
  /\ \E q \in doubtful :
       /\ doubtful' = doubtful \ {q}
       /\ register' = [register EXCEPT ![q.key] = q.op]
  /\ UNCHANGED <<mix, inFlight, nextOp, clock, recording, hist, lies, driving>>

\* A history may begin after the cluster was used.  It is a fair account of it only
\* if nothing given up before is still on its way, and if what has executed and
\* waits for its answer wrote or read what the key still holds: the write that
\* came after it may be one the history does not know.
StartRecording ==
  /\ driving /\ ~recording /\ doubtful = {} /\ nextOp <= Unrecorded + 1
  /\ \A q \in inFlight : q.executed => q.value = register[q.key]
  /\ recording' = TRUE
  /\ UNCHANGED <<mix, inFlight, register, doubtful, nextOp, clock, hist, lies, driving>>

\* The driver drains or is killed, with any number of operations in flight, each
\* of which the history knows of.  What only the driver knew is forgotten.
End ==
  /\ driving /\ recording
  /\ \A q \in inFlight : \E r \in hist : r.op = q.op
  /\ driving' = FALSE
  /\ mix' = {} /\ inFlight' = {} /\ doubtful' = {} /\ nextOp' = 1 /\ clock' = 0
  /\ register' = [k \in Keys |-> Null]
  /\ UNCHANGED <<recording, hist, lies>>

Drive ==
  \/ Call \/ Execute \/ Fail \/ Answer \/ GiveUp \/ ExecuteLate
  \/ StartRecording \/ End
=============================================================================
