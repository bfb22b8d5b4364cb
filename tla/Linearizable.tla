---------------------------- MODULE Linearizable ----------------------------
(***************************************************************************)
(* thesis-oracle-linearizable: the program that reads a driver's history   *)
(* and says whether it is linearizable.  Load pairs the records, refuses a *)
(* history it cannot decide and turns the rest into operations with        *)
(* intervals; then each key is searched, in order and within its share of  *)
(* the budget, by the depth-first search of Wing and Gong with Lowe's      *)
(* memo; the first key without a linearization is the verdict.             *)
(***************************************************************************)
EXTENDS Loadgen, SequencesExt

CONSTANTS
  StateLimits,  \* the values -max-states may have
  MemoMax       \* how many pairs the memo holds

ASSUME LinearizableAssumption ==
  StateLimits \subseteq Nat \ {0} /\ MemoMax \in Nat

VARIABLES
  limit,    \* -max-states
  stage,    \* "load", "search" or "done"
  ops,      \* the operations the loader kept
  left,     \* the keys not yet searched
  used,     \* budget.spent
  results,  \* the outcome of each key that was looked at
  search,   \* the searcher of the current key, or NoSearch
  status    \* the verdict

checkVars == <<limit, stage, ops, left, used, results, search, status>>
checkerVars == <<driverVars, checkVars>>

NoSearch == [key |-> 0]
Undetermined == -1     \* the register before anything has determined it

-----------------------------------------------------------------------------
\* load.go

Invokes(i) == {r \in hist : r.op = i /\ r.type = "invoke"}
Completions(i) == {r \in hist : r.op = i /\ r.type # "invoke"}
Recorded == {r.op : r \in hist}
Only(S) == CHOOSE r \in S : TRUE

\* checkPrecondition: every operation is a read or a write of one key.
SingleKey == \A r \in hist : r.f \in {"read", "write"}

Determinate(i) == \E r \in Completions(i) : r.type = "ok"
Failed(i) == \E r \in Completions(i) : r.type = "fail"
NameOf(i) == Only(Invokes(i) \cup Completions(i)).f

\* A failed operation and a read without an answer constrain nothing.
Kept == {i \in Recorded : ~Failed(i) /\ (NameOf(i) = "read" => Determinate(i))}

\* MUTANT: a write that timed out ended at its timeout.
OpenAtEndAtTimeout(i) == Completions(i) = {}

\* The end of an operation that may still execute is not the time it was given up.
OpenAtEnd(i) == ~Determinate(i)

\* buildOperations
Operation(i) ==
  LET any == Only(Invokes(i) \cup Completions(i))
  IN [id          |-> i,
      kind        |-> any.f,
      key         |-> any.key,
      value       |-> IF Completions(i) # {} THEN Only(Completions(i)).value ELSE any.value,
      openAtStart |-> Invokes(i) = {},
      openAtEnd   |-> OpenAtEnd(i),
      maybe       |-> any.f = "write" /\ ~Determinate(i),
      from        |-> IF Invokes(i) = {} THEN 0 ELSE Only(Invokes(i)).t,
      to          |-> IF OpenAtEnd(i) THEN 0 ELSE Only(Completions(i)).t]

Load ==
  /\ stage = "load" /\ ~driving
  /\ limit' \in StateLimits
  /\ LET loaded == {Operation(i) : i \in Kept} IN
       \/ /\ SingleKey
          /\ \E op \in loaded : op.kind = "read"
          /\ ops' = loaded
          /\ left' = {op.key : op \in loaded}
          /\ stage' = "search"
          /\ UNCHANGED status
       \/ /\ \/ ~SingleKey
             \/ \A op \in loaded : op.kind # "read"
          /\ stage' = "done" /\ status' = "inconclusive"
          /\ UNCHANGED <<ops, left>>
  /\ UNCHANGED <<driverVars, used, results, search>>

\* The wall clock runs out while the history is read, or a killed driver left a
\* line that does not decode.
Refuse ==
  /\ stage = "load" /\ ~driving
  /\ stage' = "done" /\ status' = "inconclusive"
  /\ UNCHANGED <<driverVars, limit, ops, left, used, results, search>>

-----------------------------------------------------------------------------
\* newSearcher: the event list of one key

OpsOf(key) == {op \in ops : op.key = key}
Events(s) == [op : s.ops, return : BOOLEAN]
ListEnd == [op |-> [id |-> 0], return |-> FALSE]

Rank(e) ==
  IF e.return THEN (IF e.op.openAtEnd THEN 2 ELSE 1)
              ELSE (IF e.op.openAtStart THEN 0 ELSE 1)
TimeOf(e) == IF e.return THEN e.op.to ELSE e.op.from

\* At one timestamp an invoke comes before a return.
Tied(d, e) == (~d.return /\ e.return) \/ (d.return = e.return /\ d.op.id < e.op.id)

Before(d, e) ==
  \/ Rank(d) < Rank(e)
  \/ /\ Rank(d) = Rank(e)
     /\ IF Rank(d) = 1 /\ TimeOf(d) # TimeOf(e) THEN TimeOf(d) < TimeOf(e) ELSE Tied(d, e)

FirstOf(E) == IF E = {} THEN ListEnd ELSE CHOOSE e \in E : \A d \in E \ {e} : Before(e, d)
Listed(s) == {e \in Events(s) : e.op \notin s.linear}
HeadNext(s) == FirstOf(Listed(s))
NextOf(s, e) == FirstOf({d \in Listed(s) : Before(e, d)})

-----------------------------------------------------------------------------
\* search.go

\* What the register may hold after the operation, in the order it is tried.
Alternatives(value, op) ==
  CASE op.kind = "read" /\ value \in {Undetermined, op.value} -> <<op.value>>
    [] op.kind = "read" /\ value \notin {Undetermined, op.value} -> <<>>
    [] op.kind = "write" /\ op.maybe /\ value # op.value -> <<op.value, value>>
    [] op.kind = "write" /\ ~(op.maybe /\ value # op.value) -> <<op.value>>

\* MUTANT: a full memo takes what it cannot record for explored.
IsNewWhileRecording(s, pair) == pair \notin s.memo /\ Cardinality(s.memo) < MemoMax

\* memo.insert: a full memo records nothing more and prunes nothing for it.
IsNew(s, pair) == pair \notin s.memo
Remember(s, pair) == IF Cardinality(s.memo) < MemoMax THEN s.memo \cup {pair} ELSE s.memo

\* tryFrom: the searcher after the first alternative, from the given one on, that
\* has not been explored, or Stuck.
Stuck == NoSearch

TryFrom(s, op, from) ==
  LET alts == Alternatives(s.value, op)
      pair(a) == <<alts[a], s.linear \cup {op}>>
      fresh == {a \in from..Len(alts) : IsNew(s, pair(a))}
      a == Min(fresh)
      next == [s EXCEPT !.value = alts[a],
                        !.linear = @ \cup {op},
                        !.memo = Remember(s, pair(a)),
                        !.states = @ + 1,
                        !.stack = Append(@, [call |-> op, value |-> s.value, alt |-> a])]
  IN IF fresh = {} THEN Stuck ELSE [next EXCEPT !.entry = HeadNext(next)]

-----------------------------------------------------------------------------
\* check.go

\* budget.slice: an equal share of what is left, so that what one key did not use
\* goes to the next.
Share == Max({1, (limit - used) \div Cardinality(left)})

Searcher(key) ==
  LET s == [key |-> key, ops |-> OpsOf(key), value |-> Undetermined, linear |-> {}, stack |-> <<>>,
            memo |-> {}, states |-> 0, share |-> Share, entry |-> ListEnd]
  IN [s EXCEPT !.entry = HeadNext(s)]

TakeSlice ==
  /\ stage = "search" /\ search = NoSearch /\ left # {} /\ limit > used
  /\ search' = Searcher(Min(left))
  /\ UNCHANGED <<driverVars, limit, stage, ops, left, used, results, status>>

Concluded(key, outcome, states) ==
  /\ results' = results \cup {[key |-> key, outcome |-> outcome, states |-> states]}
  /\ used' = used + states
  /\ left' = IF outcome = "violated" THEN {} ELSE left \ {key}
  /\ search' = NoSearch
  /\ UNCHANGED <<driverVars, limit, stage, ops, status>>

\* Nothing is left for the key, of the states or of the wall clock.
NoBudget ==
  /\ stage = "search" /\ search = NoSearch /\ left # {}
  /\ Concluded(Min(left), "exhausted", 0)

Complete ==
  /\ search # NoSearch /\ Listed(search) = {}
  /\ Concluded(search.key, "linearizable", search.states)

\* A look at the clock, at the first step and at each 1024th, finds the key's
\* deadline over.
OutOfTime ==
  /\ search # NoSearch /\ Listed(search) # {}
  /\ Concluded(search.key, "exhausted", search.states)

OverLimit ==
  /\ search # NoSearch /\ Listed(search) # {} /\ search.states >= search.share
  /\ Concluded(search.key, "exhausted", search.states)

Exploring == search # NoSearch /\ Listed(search) # {} /\ search.states < search.share
AtCall == search.entry # ListEnd /\ ~search.entry.return

Try ==
  /\ Exploring /\ AtCall
  /\ LET next == TryFrom(search, search.entry.op, 1)
     IN search' = IF next # Stuck THEN next
                  ELSE [search EXCEPT !.entry = NextOf(search, search.entry)]
  /\ UNCHANGED <<driverVars, limit, stage, ops, left, used, results, status>>

\* The list has ended, or an operation returns that was not placed: the last
\* choice is undone and its next alternative tried.
Backtrack ==
  /\ Exploring /\ ~AtCall /\ search.stack # <<>>
  /\ LET f == Last(search.stack)
         undone == [search EXCEPT !.value = f.value,
                                  !.linear = @ \ {f.call},
                                  !.stack = Front(@)]
         next == TryFrom(undone, f.call, f.alt + 1)
     IN search' = IF next # Stuck THEN next
                  ELSE [undone EXCEPT !.entry = NextOf(undone, [op |-> f.call, return |-> FALSE])]
  /\ UNCHANGED <<driverVars, limit, stage, ops, left, used, results, status>>

Refute ==
  /\ Exploring /\ ~AtCall /\ search.stack = <<>>
  /\ Concluded(search.key, "violated", search.states)

\* An unfinished key is never ok, and a violated one decides.
Conclusion ==
  CASE \E r \in results : r.outcome = "violated" -> "violated"
    [] \A r \in results : r.outcome = "linearizable" -> "ok"
    [] OTHER -> "inconclusive"

Report ==
  /\ stage = "search" /\ search = NoSearch /\ left = {}
  /\ stage' = "done"
  /\ status' = Conclusion
  /\ UNCHANGED <<driverVars, limit, ops, left, used, results, search>>

-----------------------------------------------------------------------------
CheckerInit ==
  /\ DriverInit
  /\ limit = 0
  /\ stage = "load" /\ ops = {} /\ left = {} /\ used = 0
  /\ results = {} /\ search = NoSearch /\ status = "none"

Check ==
  \/ Load \/ Refuse \/ TakeSlice \/ NoBudget \/ Complete \/ OutOfTime \/ OverLimit
  \/ Try \/ Backtrack \/ Refute \/ Report

CheckerNext == (Drive /\ UNCHANGED checkVars) \/ Check

CheckerSpec == CheckerInit /\ [][CheckerNext]_checkerVars

-----------------------------------------------------------------------------
\* What linearizability means, of all keys at once and without a search.

Real(d, e) ==  \* d ended before e began
  ~d.openAtEnd /\ ~e.openAtStart /\ d.to < e.from

Orders(S) == {f \in [1..Cardinality(S) -> S] : \A i, j \in DOMAIN f : i # j => f[i] # f[j]}

\* The value of a key after the first n operations of an order.
ValueAfter(order, n, initial, key) ==
  LET writes == {i \in 1..n : order[i].kind = "write" /\ order[i].key = key}
  IN IF writes = {} THEN initial[key] ELSE order[Max(writes)].value

Explains(order, initial) ==
  /\ \A i, j \in DOMAIN order : i < j => ~Real(order[j], order[i])
  /\ \A i \in DOMAIN order : order[i].kind = "read" =>
       order[i].value = ValueAfter(order, i, initial, order[i].key)

IsLinearizable(S) ==
  LET maybe == {op \in S : op.maybe}
  IN \E applied \in SUBSET maybe, initial \in [Keys -> {op.value : op \in S} \cup {Null}] :
       \E order \in Orders((S \ maybe) \cup applied) : Explains(order, initial)

-----------------------------------------------------------------------------
TypeOK ==
  /\ stage \in {"load", "search", "done"}
  /\ status \in {"none", "ok", "violated", "inconclusive"}
  /\ hist \subseteq [op : Ops, type : {"invoke", "ok", "fail", "info"}, f : {"read", "write", "txn"},
                     key : Keys, value : {Null} \cup Ops, t : 0..(2 * MaxOps)]
  /\ left \subseteq Keys /\ used \in Nat
  /\ \A r \in results : r.outcome \in {"linearizable", "violated", "exhausted"}

\* No history of a cluster that answered every read truly is called violated:
\* not for a request that timed out and executed later, a bound on the memo or the
\* states, a budget that ran out, or a window that opened late.
InnocentIsNotAccused == status = "violated" => lies > 0

\* ok is said only of a history that has a linearization, of all its keys together,
\* and violated only of one that has none: neither the order of the search, the
\* memo, the decomposition by key nor a budget stands in for an answer.
SearchIsExact ==
  /\ status = "ok" => SingleKey /\ IsLinearizable(ops)
  /\ status = "violated" => ~IsLinearizable(ops)

\* One pathological key cannot starve the rest: whatever was used so far, each key
\* still to be searched can have its equal part of all the states.
NoKeyStarves ==
  search = NoSearch /\ left # {} =>
    Cardinality(left) * (limit \div Cardinality({op.key : op \in ops})) <= limit - used

\* Nobody is accused who answered truly, neither ok nor violated is said without
\* the search that earns it, and every key has its part of the search.
VerdictsAreEarned == InnocentIsNotAccused /\ SearchIsExact /\ NoKeyStarves
=============================================================================
