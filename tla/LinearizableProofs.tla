------------------------- MODULE LinearizableProofs -------------------------
(***************************************************************************)
(* Theorems about the judge of the KV fixture's histories, which Loadgen   *)
(* records, for any clients, keys, operations and bounds.                  *)
(*                                                                         *)
(* Four things make VerdictInv, which is inductive:                        *)
(*                                                                         *)
(*   SearchInv   what a searcher knows of its key: its stack is a way it   *)
(*               may have gone, and what it passed over, tried or has in   *)
(*               its memo leads nowhere (~Alive) or is on the way;         *)
(*   DriverInv   an operation has one invoke and one completion in the     *)
(*               history, in this order;                                   *)
(*   HonestInv   while no read was answered falsely, the history is an     *)
(*               account of an execution of a register per key, from the   *)
(*               values the keys held when it began;                       *)
(*   CheckerInv  the states left are shared by the keys left, and each     *)
(*               result was earned: "linearizable" by a chain of all the   *)
(*               operations of the key, "violated" by there being none.    *)
(*                                                                         *)
(* That chains of the keys interleave to one order of all operations, that *)
(* such an order leaves each key alive, and that an account orders them is *)
(* shown without the search: ChainsInterleave, EachKeyIsAlive and          *)
(* HonestIsLinearizable.                                                   *)
(***************************************************************************)
EXTENDS Linearizable, FiniteSetTheorems, SequenceTheorems, WellFoundedInduction, TLAPS

-----------------------------------------------------------------------------

\* A set of numbers has a least one.
LEMMA LeastNumber ==
    ASSUME NEW T, T \subseteq Nat, T # {}
    PROVE  \E x \in T : \A y \in T : x <= y
<1>1. PICK x \in T : \A y \in T : ~(<<y, x>> \in OpToRel(<, Nat))
    BY NatLessThanWellFounded, WFMin
<1>2. \A y \in T : ~(y < x)
    BY <1>1 DEF OpToRel
<1> QED BY <1>2

\* R orders S, as a set of pairs.
InOrder(S, R) ==
    /\ \A x \in S : <<x, x>> \notin R
    /\ \A x, y \in S : x # y => <<x, y>> \in R \/ <<y, x>> \in R
    /\ \A x, y, z \in S : <<x, y>> \in R /\ <<y, z>> \in R => <<x, z>> \in R

\* f lists S in that order.
Lists(f, S, R) ==
    /\ f \in [1 .. Cardinality(S) -> S]
    /\ \A x \in S : \E i \in 1 .. Cardinality(S) : f[i] = x
    /\ \A i, j \in 1 .. Cardinality(S) : i < j <=> <<f[i], f[j]>> \in R

\* A finite set is the range of a sequence that follows an order on it.
LEMMA Enumerated ==
    ASSUME NEW S, IsFiniteSet(S), NEW R, InOrder(S, R)
    PROVE  \E f : Lists(f, S, R)
<1> DEFINE n == Cardinality(S)
           upto(e) == {x \in S : x = e \/ <<x, e>> \in R}
           rank == [e \in S |-> Cardinality(upto(e))]
<1>0. n \in Nat
    BY FS_CardinalityType
<1>1. \A e \in S : IsFiniteSet(upto(e)) /\ Cardinality(upto(e)) \in 1 .. n
    <2> TAKE e \in S
    <2>1. upto(e) \subseteq S /\ e \in upto(e)
        OBVIOUS
    <2>2. IsFiniteSet(upto(e)) /\ Cardinality(upto(e)) <= n
        BY <2>1, FS_Subset
    <2>3. Cardinality(upto(e)) \in Nat /\ Cardinality(upto(e)) # 0
        BY <2>1, <2>2, FS_CardinalityType, FS_EmptySet
    <2> HIDE DEF upto
    <2> QED BY <1>0, <2>2, <2>3
<1>2. \A e, f \in S : <<e, f>> \in R => Cardinality(upto(e)) < Cardinality(upto(f))
    <2> TAKE e, f \in S
    <2> HAVE <<e, f>> \in R
    <2>1. upto(e) \subseteq upto(f)
        BY DEF InOrder
    <2>2. f \in upto(f) /\ f \notin upto(e)
        BY DEF InOrder
    <2>3. Cardinality(upto(e)) <= Cardinality(upto(f)) /\ Cardinality(upto(e)) # Cardinality(upto(f))
        BY <1>1, <2>1, <2>2, FS_Subset
    <2> QED BY <1>0, <1>1, <2>3
<1> HIDE DEF upto
<1>3. rank \in [S -> 1 .. n]
    BY <1>1
<1>4. \A e, f \in S : rank[e] = rank[f] => e = f
    <2> TAKE e, f \in S
    <2>1. CASE e = f
        BY <2>1
    <2>2. CASE e # f
        <3>1. rank[e] < rank[f] \/ rank[f] < rank[e]
            BY <1>2, <2>2 DEF InOrder
        <3> QED BY <1>0, <1>3, <3>1
    <2> QED BY <2>1, <2>2
<1>5. rank \in Injection(S, 1 .. n)
    BY <1>3, <1>4 DEF Injection, IsInjective
<1>6. IsFiniteSet(1 .. n) /\ Cardinality(1 .. n) = n
    BY <1>0, FS_Interval
<1>7. rank \in Surjection(S, 1 .. n)
    BY <1>5, <1>6, FS_Injection
<1>8. \A i \in 1 .. n : \E e \in S : rank[e] = i
    BY <1>7 DEF Surjection
<1> DEFINE f == [i \in 1 .. n |-> CHOOSE e \in S : rank[e] = i]
<1>9. f \in [1 .. n -> S] /\ \A i \in 1 .. n : rank[f[i]] = i
    BY <1>8
<1>10. ASSUME NEW x \in S PROVE \E i \in 1 .. n : f[i] = x
    <2>1. rank[x] \in 1 .. n /\ f[rank[x]] \in S /\ rank[f[rank[x]]] = rank[x]
        BY <1>3, <1>9
    <2>2. f[rank[x]] = x
        BY <1>4, <2>1
    <2> QED BY <2>1, <2>2
<1> HIDE DEF f, rank
<1>11. ASSUME NEW i \in 1 .. n, NEW j \in 1 .. n
       PROVE  i < j <=> <<f[i], f[j]>> \in R
    <2>a. i \in Nat /\ j \in Nat
        BY <1>0
    <2>0. f[i] \in S /\ f[j] \in S /\ rank[f[i]] = i /\ rank[f[j]] = j /\ i \in Nat /\ j \in Nat
        BY <1>9, <2>a
    <2>b. \A d, e \in S : <<d, e>> \in R => rank[d] < rank[e]
        BY <1>2 DEF rank
    <2>1. <<f[i], f[j]>> \in R => i < j
        BY <2>b, <2>0
    <2>2. <<f[j], f[i]>> \in R => j < i
        BY <2>b, <2>0
    <2>3. i < j => f[i] # f[j]
        BY <2>0
    <2>4. i < j => <<f[i], f[j]>> \in R
        BY <2>0, <2>2, <2>3 DEF InOrder
    <2> QED BY <2>1, <2>4
<1> QED BY <1>9, <1>10, <1>11 DEF Lists

\* The least and the greatest.
LEMMA EndsOf ==
    ASSUME NEW S, IsFiniteSet(S), S # {}, NEW R, InOrder(S, R)
    PROVE  /\ \E x \in S : \A y \in S \ {x} : <<x, y>> \in R
           /\ \E x \in S : \A y \in S \ {x} : <<y, x>> \in R
<1>1. PICK f : Lists(f, S, R)
    BY Enumerated
<1> DEFINE n == Cardinality(S)
<1>2. n \in Nat /\ n # 0
    BY FS_CardinalityType, FS_EmptySet
<1>3. 1 \in 1 .. n /\ n \in 1 .. n
    BY <1>2
<1>4. \A y \in S \ {f[1]} : <<f[1], y>> \in R
    <2> TAKE y \in S \ {f[1]}
    <2>1. PICK i \in 1 .. n : f[i] = y
        BY <1>1 DEF Lists
    <2>2. 1 < i
        BY <1>2, <2>1
    <2> QED BY <1>1, <1>3, <2>1, <2>2 DEF Lists
<1>5. \A y \in S \ {f[n]} : <<y, f[n]>> \in R
    <2> TAKE y \in S \ {f[n]}
    <2>1. PICK i \in 1 .. n : f[i] = y
        BY <1>1 DEF Lists
    <2>2. i < n
        BY <1>2, <2>1
    <2> QED BY <1>1, <1>3, <2>1, <2>2 DEF Lists
<1>6. f[1] \in S /\ f[n] \in S
    BY <1>1, <1>3 DEF Lists
<1> QED BY <1>4, <1>5, <1>6

\* A finite set of numbers has a greatest.
LEMMA GreatestNumber ==
    ASSUME NEW T, IsFiniteSet(T), T # {}, T \subseteq Nat
    PROVE  /\ Max(T) \in T
           /\ \A y \in T : y <= Max(T)
<1> DEFINE R == {p \in T \X T : p[1] < p[2]}
<1>1. InOrder(T, R)
    BY DEF InOrder
<1>2. PICK x \in T : \A y \in T \ {x} : <<y, x>> \in R
    BY <1>1, EndsOf
<1>3. ASSUME NEW y \in T PROVE y <= x
    <2>1. CASE y = x
        BY <2>1
    <2>2. CASE y # x
        <3>1. <<y, x>> \in R
            BY <1>2, <2>2
        <3> QED BY <3>1
    <2> QED BY <2>1, <2>2
<1> QED BY <1>3 DEF Max

\* What Min finds.
LEMMA SmallestNumber ==
    ASSUME NEW T, T # {}, T \subseteq Nat
    PROVE  /\ Min(T) \in T
           /\ \A y \in T : Min(T) <= y
BY LeastNumber DEF Min

Operations ==
    [id : Nat, kind : {"read", "write"}, key : Nat, value : Nat, openAtStart : BOOLEAN,
     openAtEnd : BOOLEAN, maybe : BOOLEAN, from : Nat, to : Nat]

Registers == Nat \cup {Undetermined}

\* What the loader gives the search: operations told apart by their ids.
Usable(K) ==
    /\ K \in SUBSET Operations /\ IsFiniteSet(K)
    /\ \A c, d \in K : c.id = d.id => c = d
    /\ \A op \in K :
          /\ op.openAtEnd = op.maybe /\ (op.maybe => op.kind = "write")
          /\ ~op.openAtStart /\ ~op.openAtEnd => op.from <= op.to

EventsOf(K) == [op : K, return : BOOLEAN]
Invoked(op) == [op |-> op, return |-> FALSE]
Returned(op) == [op |-> op, return |-> TRUE]

\* op may be placed next, after those of L: no other has ended before it began.
Free(K, L, op) == op \in K \ L /\ \A d \in K \ L : ~Real(d, op)

Outcomes(v, op) == {Alternatives(v, op)[a] : a \in 1 .. Len(Alternatives(v, op))}

\* A part of a usable set is usable.
LEMMA LoadedParts ==
    ASSUME NEW K, Usable(K), NEW J \in SUBSET K
    PROVE  Usable(J)
BY FS_Subset DEF Usable

\* The invoke and the return of an operation.
LEMMA EventParts ==
    ASSUME NEW K, Usable(K), NEW e \in EventsOf(K)
    PROVE  /\ e.op \in K /\ e.return \in BOOLEAN /\ Rank(e) \in 0 .. 2 /\ TimeOf(e) \in Nat
           /\ e.op.id \in Nat /\ e = [op |-> e.op, return |-> e.return]
           /\ e = IF e.return THEN Returned(e.op) ELSE Invoked(e.op)
<1>1. e.op \in K /\ e.return \in BOOLEAN /\ e = [op |-> e.op, return |-> e.return]
    BY DEF EventsOf
<1>2. e.op \in Operations
    BY <1>1 DEF Usable
<1>3. e.op.id \in Nat /\ e.op.to \in Nat /\ e.op.from \in Nat /\ e.op.openAtStart \in BOOLEAN /\ e.op.openAtEnd \in BOOLEAN
    BY <1>2 DEF Operations
<1> QED BY <1>1, <1>3 DEF Rank, TimeOf, Returned, Invoked

\* The event list is an order.
LEMMA EventsAreOrdered ==
    ASSUME NEW K, Usable(K), NEW E \in SUBSET EventsOf(K)
    PROVE  InOrder(E, {p \in E \X E : Before(p[1], p[2])})
<1> DEFINE R == {p \in E \X E : Before(p[1], p[2])}
<1>0. \A x, y \in E : <<x, y>> \in R <=> Before(x, y)
    OBVIOUS
<1>1. \A x \in E : Rank(x) \in Nat /\ TimeOf(x) \in Nat /\ x.op.id \in Nat /\ x.return \in BOOLEAN
    BY EventParts
<1>2. \A x \in E : ~Before(x, x)
    BY <1>1 DEF Before, Tied
<1>3. ASSUME NEW x \in E, NEW y \in E, x # y
      PROVE  Before(x, y) \/ Before(y, x)
    <2>0. x \in EventsOf(K) /\ y \in EventsOf(K)
        OBVIOUS
    <2>1. x.return = y.return => x.op.id # y.op.id
        <3> HAVE x.return = y.return
        <3>1. x.op # y.op
            BY <1>3, <2>0, EventParts
        <3> QED BY <2>0, <3>1, EventParts DEF Usable
    <2>2. Rank(x) \in Nat /\ Rank(y) \in Nat /\ TimeOf(x) \in Nat /\ TimeOf(y) \in Nat
          /\ x.op.id \in Nat /\ y.op.id \in Nat /\ x.return \in BOOLEAN /\ y.return \in BOOLEAN
        BY <1>1
    <2>3. Tied(x, y) \/ Tied(y, x)
        BY <2>1, <2>2 DEF Tied
    <2> QED BY <2>2, <2>3 DEF Before
<1>4. ASSUME NEW x \in E, NEW y \in E, NEW z \in E, Before(x, y), Before(y, z)
      PROVE  Before(x, z)
    <2>1. Rank(x) \in Nat /\ Rank(y) \in Nat /\ Rank(z) \in Nat
          /\ TimeOf(x) \in Nat /\ TimeOf(y) \in Nat /\ TimeOf(z) \in Nat
        BY <1>1
    <2>2. Tied(x, y) /\ Tied(y, z) => Tied(x, z)
        BY <1>1 DEF Tied
    <2> QED BY <1>4, <2>1, <2>2 DEF Before
<1> HIDE DEF R
<1> QED BY <1>0, <1>2, <1>3, <1>4 DEF InOrder

\* The order of the event list is total.
LEMMA OrderOfEvents ==
    ASSUME NEW K, Usable(K), NEW x \in EventsOf(K), NEW y \in EventsOf(K), NEW z \in EventsOf(K)
    PROVE  /\ ~Before(x, x)
           /\ x = y \/ Before(x, y) \/ Before(y, x)
           /\ Before(x, y) => ~Before(y, x)
           /\ Before(x, y) /\ Before(y, z) => Before(x, z)
<1> DEFINE E == EventsOf(K)
           R == {p \in E \X E : Before(p[1], p[2])}
<1>1. InOrder(E, R)
    BY EventsAreOrdered
<1>2. \A a, b \in E : <<a, b>> \in R <=> Before(a, b)
    OBVIOUS
<1> HIDE DEF R, E
<1>3. x \in E /\ y \in E /\ z \in E
    BY DEF E
<1> QED BY <1>1, <1>2, <1>3 DEF InOrder

\* A return comes before an invocation when its operation really ended before.
LEMMA ReturnBeforeInvoke ==
    ASSUME NEW K, Usable(K), NEW d \in K, NEW e \in K
    PROVE  Before(Returned(d), Invoked(e)) <=> Real(d, e)
<1>1. d \in Operations /\ e \in Operations
    BY DEF Usable
<1>2. d.to \in Nat /\ e.from \in Nat /\ d.openAtEnd \in BOOLEAN /\ e.openAtStart \in BOOLEAN
    BY <1>1 DEF Operations
<1> QED BY <1>2 DEF Before, Real, Rank, TimeOf, Tied, Returned, Invoked

\* There are finitely many events.
LEMMA EventsFinite ==
    ASSUME NEW K, Usable(K)
    PROVE  IsFiniteSet(EventsOf(K))
<1>0. IsFiniteSet(BOOLEAN)
    <2>1. IsFiniteSet({}) /\ BOOLEAN = ({} \cup {TRUE}) \cup {FALSE}
        BY FS_EmptySet
    <2> QED BY <2>1, FS_AddElement
<1>1. IsFiniteSet(K \X BOOLEAN)
    BY <1>0, FS_Product DEF Usable
<1> DEFINE f == [p \in K \X BOOLEAN |-> [op |-> p[1], return |-> p[2]]]
<1>2. \A e \in EventsOf(K) : \E p \in K \X BOOLEAN : f[p] = e
    <2> TAKE e \in EventsOf(K)
    <2>1. <<e.op, e.return>> \in K \X BOOLEAN /\ f[<<e.op, e.return>>] = e
        BY EventParts
    <2> QED BY <2>1
<1>3. f \in [K \X BOOLEAN -> EventsOf(K)]
    BY DEF EventsOf
<1>4. f \in Surjection(K \X BOOLEAN, EventsOf(K))
    BY <1>2, <1>3 DEF Surjection
<1> QED BY <1>1, <1>4, FS_Surjection

\* What FirstOf finds.
LEMMA FirstIs ==
    ASSUME NEW K, Usable(K), NEW E \in SUBSET EventsOf(K)
    PROVE  /\ E = {} => FirstOf(E) = ListEnd
           /\ E # {} => FirstOf(E) \in E /\ \A d \in E : d = FirstOf(E) \/ Before(FirstOf(E), d)
<1>1. CASE E = {}
    BY <1>1 DEF FirstOf
<1>2. CASE E # {}
    <2>1. IsFiniteSet(E)
        BY EventsFinite, FS_Subset
    <2> DEFINE R == {p \in E \X E : Before(p[1], p[2])}
    <2>2. InOrder(E, R) /\ \A x, y \in E : <<x, y>> \in R <=> Before(x, y)
        BY EventsAreOrdered
    <2> HIDE DEF R
    <2>3. \E x \in E : \A y \in E \ {x} : <<x, y>> \in R
        BY <1>2, <2>1, <2>2, EndsOf
    <2>4. \E x \in E : \A y \in E \ {x} : Before(x, y)
        BY <2>2, <2>3
    <2>5. FirstOf(E) = CHOOSE x \in E : \A y \in E \ {x} : Before(x, y)
        BY <1>2 DEF FirstOf
    <2> QED BY <1>2, <2>4, <2>5
<1> QED BY <1>1, <1>2

\* The alternatives of an operation are values of the register, the outcomes it may have.
LEMMA AlternativesAre ==
    ASSUME NEW op \in Operations, NEW v \in Registers
    PROVE  /\ Alternatives(v, op) \in Seq(Registers)
           /\ Outcomes(v, op) \subseteq {op.value, v}
           /\ op.kind = "read" => Outcomes(v, op) = IF v \in {Undetermined, op.value} THEN {op.value} ELSE {}
           /\ op.kind = "write" /\ ~op.maybe => Outcomes(v, op) = {op.value}
           /\ op.kind = "write" => op.value \in Outcomes(v, op)
           /\ op.maybe /\ op.kind = "write" => v \in Outcomes(v, op)
<1>0. op.kind \in {"read", "write"} /\ op.value \in Nat /\ op.maybe \in BOOLEAN
    BY DEF Operations
<1>1. CASE op.kind = "read" /\ v \in {Undetermined, op.value}
    <2>1. Alternatives(v, op) = <<op.value>>
        BY <1>1 DEF Alternatives
    <2>2. Outcomes(v, op) = {op.value}
        BY <2>1 DEF Outcomes
    <2> QED BY <1>0, <1>1, <2>1, <2>2 DEF Registers
<1>2. CASE op.kind = "read" /\ v \notin {Undetermined, op.value}
    <2>1. Alternatives(v, op) = <<>>
        BY <1>2 DEF Alternatives
    <2>2. Outcomes(v, op) = {}
        BY <2>1 DEF Outcomes
    <2> QED BY <1>0, <1>2, <2>1, <2>2 DEF Registers
<1>3. CASE op.kind = "write" /\ op.maybe /\ v # op.value
    <2>1. Alternatives(v, op) = <<op.value, v>>
        BY <1>3 DEF Alternatives
    <2>2. Outcomes(v, op) = {op.value, v}
        BY <2>1 DEF Outcomes
    <2> QED BY <1>0, <1>3, <2>1, <2>2 DEF Registers
<1>4. CASE op.kind = "write" /\ ~(op.maybe /\ v # op.value)
    <2>1. Alternatives(v, op) = <<op.value>>
        BY <1>4 DEF Alternatives
    <2>2. Outcomes(v, op) = {op.value}
        BY <2>1 DEF Outcomes
    <2> QED BY <1>0, <1>4, <2>1, <2>2 DEF Registers
<1> QED BY <1>0, <1>1, <1>2, <1>3, <1>4

\* From v, with those of L placed, the rest of K can be placed as well.
Closed(K, A) ==
    \A c \in A : c[2] # K =>
        \E op \in K : \E w \in Outcomes(c[1], op) : Free(K, c[2], op) /\ <<w, c[2] \cup {op}>> \in A

Alive(K, v, L) == \E A \in SUBSET (Registers \X SUBSET K) : <<v, L>> \in A /\ Closed(K, A)

\* Every way on is dead, and so is this one.
LEMMA DeadEnd ==
    ASSUME NEW K, NEW v \in Registers, NEW L \in SUBSET K, L # K,
           \A op \in K : Free(K, L, op) => \A w \in Outcomes(v, op) : ~Alive(K, w, L \cup {op})
    PROVE  ~Alive(K, v, L)
<1> SUFFICES ASSUME NEW A \in SUBSET (Registers \X SUBSET K), <<v, L>> \in A, Closed(K, A) PROVE FALSE
    BY DEF Alive
<1>1. PICK op \in K : \E w \in Outcomes(v, op) : Free(K, L, op) /\ <<w, L \cup {op}>> \in A
    BY DEF Closed
<1>2. PICK w \in Outcomes(v, op) : Free(K, L, op) /\ <<w, L \cup {op}>> \in A
    BY <1>1
<1>3. Alive(K, w, L \cup {op})
    BY <1>2 DEF Alive
<1> QED BY <1>2, <1>3

Frames == [call : Operations, value : Registers, alt : Nat]
Searchers ==
    [key : Nat, ops : SUBSET Operations, value : Registers, linear : SUBSET Operations,
     stack : Seq(Frames), memo : SUBSET (Registers \X SUBSET Operations), states : Nat,
     share : Nat, entry : [op : Operations, return : BOOLEAN] \cup {ListEnd}]

\* The configurations on the way to the current one, which is the last.
PathValue(s, j) == IF j <= Len(s.stack) THEN s.stack[j].value ELSE s.value
PathLinear(s, j) == {s.stack[i].call : i \in 1 .. j - 1}

Exhausted(K, v, L, op) == \A w \in Outcomes(v, op) : ~Alive(K, w, L \cup {op})

\* The stack is a way here by choices the register allows, each free when it was made.
PathInv(s) ==
    /\ s \in Searchers /\ Usable(s.ops) /\ s.states <= s.share
    /\ s.linear = PathLinear(s, Len(s.stack) + 1)
    /\ PathValue(s, 1) = Undetermined
    /\ \A j \in 1 .. Len(s.stack) :
          LET f == s.stack[j]
          IN  /\ Free(s.ops, PathLinear(s, j), f.call)
              /\ f.alt \in 1 .. Len(Alternatives(f.value, f.call))
              /\ PathValue(s, j + 1) = Alternatives(f.value, f.call)[f.alt]

\* What was passed over on the way leads nowhere.
TriedInv(s) ==
    \A j \in 1 .. Len(s.stack) :
        LET f == s.stack[j]
        IN  /\ \A op \in s.ops :
                  Free(s.ops, PathLinear(s, j), op) /\ Before(Invoked(op), Invoked(f.call)) =>
                      Exhausted(s.ops, f.value, PathLinear(s, j), op)
            /\ \A a \in 1 .. f.alt - 1 :
                  ~Alive(s.ops, Alternatives(f.value, f.call)[a], PathLinear(s, j) \cup {f.call})

\* What is memoized leads nowhere, or was chosen and is still being searched.
MemoInv(s) ==
    \A p \in s.memo :
        \/ ~Alive(s.ops, p[1], p[2])
        \/ \E j \in 2 .. Len(s.stack) + 1 : p = <<PathValue(s, j), PathLinear(s, j)>>

\* Of the list, what is before the entry was passed over, and no operation ends there.
EntryInv(s) ==
    /\ s.entry \in Listed(s) \cup {ListEnd}
    /\ \A d \in Listed(s) :
          s.entry = ListEnd \/ Before(d, s.entry) =>
              /\ ~d.return
              /\ Free(s.ops, s.linear, d.op) => Exhausted(s.ops, s.value, s.linear, d.op)

BaseInv(s) == PathInv(s) /\ TriedInv(s) /\ MemoInv(s)
SearchInv(s) == BaseInv(s) /\ EntryInv(s)

\* The end of the list is told apart from every event.
LEMMA EndIsNoEvent ==
    ASSUME NEW K \in SUBSET Operations, NEW e \in EventsOf(K)
    PROVE  e # ListEnd
<1>1. e.op \in Operations
    BY DEF EventsOf
<1>2. e.op.kind \in {"read", "write"} /\ "kind" \in DOMAIN e.op
    BY <1>1 DEF Operations
<1>3. ListEnd.op = [id |-> 0]
    BY DEF ListEnd
<1>4. "kind" \notin DOMAIN [id |-> 0]
    OBVIOUS
<1> QED BY <1>2, <1>3, <1>4

\* The types of the path.
LEMMA PathIs ==
    ASSUME NEW s, PathInv(s)
    PROVE  /\ Len(s.stack) \in Nat
           /\ \A j \in 1 .. Len(s.stack) : s.stack[j] \in Frames /\ s.stack[j].call \in s.ops
           /\ \A j \in 1 .. Len(s.stack) + 1 :
                 PathLinear(s, j) \subseteq s.linear /\ PathValue(s, j) \in Registers
           /\ s.linear \subseteq s.ops
           /\ PathValue(s, Len(s.stack) + 1) = s.value
           /\ s.stack \in Seq(Frames) /\ s.value \in Registers
<1>1. s.stack \in Seq(Frames) /\ s.value \in Registers
    BY DEF PathInv, Searchers
<1>2. Len(s.stack) \in Nat
    BY <1>1
<1>3. \A j \in 1 .. Len(s.stack) : s.stack[j] \in Frames
    BY <1>1
<1>4. \A j \in 1 .. Len(s.stack) : s.stack[j].call \in s.ops
    BY DEF PathInv, Free
<1>5. \A j \in 1 .. Len(s.stack) + 1 : PathLinear(s, j) \subseteq s.linear
    <2> TAKE j \in 1 .. Len(s.stack) + 1
    <2>1. 1 .. j - 1 \subseteq 1 .. Len(s.stack) + 1 - 1
        BY <1>2
    <2> QED BY <2>1 DEF PathInv, PathLinear
<1>6. \A j \in 1 .. Len(s.stack) + 1 : PathValue(s, j) \in Registers
    BY <1>1, <1>2, <1>3 DEF PathValue, Frames
<1>7. s.linear \subseteq s.ops
    <2>1. s.linear = {s.stack[i].call : i \in 1 .. Len(s.stack)}
        BY <1>2 DEF PathInv, PathLinear
    <2> QED BY <1>4, <2>1
<1>8. PathValue(s, Len(s.stack) + 1) = s.value
    BY <1>2 DEF PathValue
<1> QED BY <1>1, <1>2, <1>3, <1>4, <1>5, <1>6, <1>7, <1>8

\* The events listed are those of the operations not yet placed.
LEMMA ListedIs ==
    ASSUME NEW s, PathInv(s)
    PROVE  /\ Listed(s) \in SUBSET EventsOf(s.ops)
           /\ \A op \in s.ops : op \notin s.linear => Invoked(op) \in Listed(s) /\ Returned(op) \in Listed(s)
           /\ \A e \in Listed(s) : e.op \in s.ops /\ e.op \notin s.linear /\ e # ListEnd
<1>1. s.ops \in SUBSET Operations
    BY DEF PathInv, Searchers
<1>2. \A e \in EventsOf(s.ops) : e # ListEnd /\ e.op \in s.ops
    BY <1>1, EndIsNoEvent DEF EventsOf
<1>3. Listed(s) = {e \in EventsOf(s.ops) : e.op \notin s.linear}
    BY DEF Listed, Events, EventsOf
<1>4. \A op \in s.ops : /\ Invoked(op) \in EventsOf(s.ops) /\ Returned(op) \in EventsOf(s.ops)
                        /\ Invoked(op).op = op /\ Returned(op).op = op
    BY DEF EventsOf, Invoked, Returned
<1> QED BY <1>2, <1>3, <1>4

\* At the head of the list.
LEMMA HeadKeeps ==
    ASSUME NEW s, BaseInv(s)
    PROVE  LET t == [s EXCEPT !.entry = HeadNext(s)] IN SearchInv(t)
<1> DEFINE t == [s EXCEPT !.entry = HeadNext(s)]
<1>0. PathInv(s) /\ s \in Searchers /\ Usable(s.ops)
    BY DEF BaseInv, PathInv
<1>1. /\ t.key = s.key /\ t.ops = s.ops /\ t.value = s.value /\ t.linear = s.linear /\ t.stack = s.stack
      /\ t.memo = s.memo /\ t.states = s.states /\ t.share = s.share /\ t.entry = FirstOf(Listed(s))
    BY <1>0 DEF Searchers, HeadNext
<1>2. Listed(t) = Listed(s)
    BY <1>1 DEF Listed, Events
<1>3. /\ Listed(s) = {} => t.entry = ListEnd
      /\ Listed(s) # {} => t.entry \in Listed(s) /\ \A d \in Listed(s) : d = t.entry \/ Before(t.entry, d)
    BY <1>0, <1>1, ListedIs, FirstIs
<1>4. Listed(s) \in SUBSET EventsOf(s.ops)
    BY <1>0, ListedIs
<1>5. t.entry \in EventsOf(s.ops) \cup {ListEnd}
    BY <1>3, <1>4
<1>6. t \in Searchers
    <2>1. EventsOf(s.ops) \subseteq [op : Operations, return : BOOLEAN]
        BY <1>0 DEF EventsOf, Searchers
    <2> QED BY <1>0, <1>1, <1>5, <2>1 DEF Searchers
<1>7. \A d \in Listed(s) : ~(t.entry = ListEnd \/ Before(d, t.entry))
    <2> TAKE d \in Listed(s)
    <2>1. t.entry \in Listed(s) /\ (d = t.entry \/ Before(t.entry, d))
        BY <1>3
    <2>2. t.entry # ListEnd
        BY <1>0, <2>1, ListedIs
    <2>3. ~Before(d, t.entry)
        BY <1>0, <1>4, <2>1, OrderOfEvents
    <2> QED BY <2>2, <2>3
<1>8. EntryInv(t)
    BY <1>2, <1>3, <1>7 DEF EntryInv
<1>9. \A j : PathValue(t, j) = PathValue(s, j) /\ PathLinear(t, j) = PathLinear(s, j)
    BY <1>1 DEF PathValue, PathLinear
<1> HIDE DEF t
<1>10. BaseInv(t)
    BY <1>1, <1>6, <1>9 DEF BaseInv, PathInv, TriedInv, MemoInv
<1>11. SearchInv(t)
    BY <1>8, <1>10 DEF SearchInv
<1> QED BY <1>11 DEF t

\* Past an invocation that leads nowhere.
LEMMA NextKeeps ==
    ASSUME NEW s, BaseInv(s), NEW op \in s.ops, op \notin s.linear,
           \A d \in Listed(s) : d = Invoked(op) \/ Before(d, Invoked(op)) =>
              ~d.return /\ (Free(s.ops, s.linear, d.op) => Exhausted(s.ops, s.value, s.linear, d.op))
    PROVE  LET t == [s EXCEPT !.entry = NextOf(s, Invoked(op))] IN SearchInv(t)
<1> DEFINE t == [s EXCEPT !.entry = NextOf(s, Invoked(op))]
           E == {d \in Listed(s) : Before(Invoked(op), d)}
<1>0. PathInv(s) /\ s \in Searchers /\ Usable(s.ops)
    BY DEF BaseInv, PathInv
<1>1. /\ t.key = s.key /\ t.ops = s.ops /\ t.value = s.value /\ t.linear = s.linear /\ t.stack = s.stack
      /\ t.memo = s.memo /\ t.states = s.states /\ t.share = s.share /\ t.entry = FirstOf(E)
    BY <1>0 DEF Searchers, NextOf
<1>2. Listed(t) = Listed(s)
    BY <1>1 DEF Listed, Events
<1>4. Listed(s) \in SUBSET EventsOf(s.ops) /\ Invoked(op) \in Listed(s)
    BY <1>0, ListedIs
<1>3. /\ E = {} => t.entry = ListEnd
      /\ E # {} => t.entry \in E /\ \A d \in E : d = t.entry \/ Before(t.entry, d)
    <2>1. E \in SUBSET EventsOf(s.ops)
        BY <1>4
    <2> HIDE DEF E, t
    <2> QED BY <1>0, <1>1, <2>1, FirstIs
<1>5. t.entry \in EventsOf(s.ops) \cup {ListEnd}
    BY <1>3, <1>4
<1>6. t \in Searchers
    <2>1. EventsOf(s.ops) \subseteq [op : Operations, return : BOOLEAN]
        BY <1>0 DEF EventsOf, Searchers
    <2> QED BY <1>0, <1>1, <1>5, <2>1 DEF Searchers
<1>7. ASSUME NEW d \in Listed(s), t.entry = ListEnd \/ Before(d, t.entry)
      PROVE  d = Invoked(op) \/ Before(d, Invoked(op))
    <2> SUFFICES ASSUME Before(Invoked(op), d) PROVE FALSE
        BY <1>0, <1>4, OrderOfEvents
    <2>1. d \in E
        OBVIOUS
    <2>2. t.entry \in E /\ (d = t.entry \/ Before(t.entry, d))
        BY <1>3, <2>1
    <2>3. t.entry # ListEnd /\ t.entry \in EventsOf(s.ops) /\ d \in EventsOf(s.ops)
        BY <1>0, <1>4, <2>2, ListedIs
    <2> HIDE DEF t, E
    <2>4. ~Before(d, t.entry)
        BY <1>0, <2>2, <2>3, OrderOfEvents
    <2> QED BY <1>7, <2>3, <2>4
<1>8. EntryInv(t)
    <2>1. t.entry \in Listed(t) \cup {ListEnd}
        BY <1>2, <1>3
    <2>2. ASSUME NEW d \in Listed(t), t.entry = ListEnd \/ Before(d, t.entry)
          PROVE  ~d.return /\ (Free(t.ops, t.linear, d.op) => Exhausted(t.ops, t.value, t.linear, d.op))
        BY <1>1, <1>2, <1>7, <2>2
    <2> HIDE DEF t
    <2> QED BY <2>1, <2>2 DEF EntryInv
<1>9. \A j : PathValue(t, j) = PathValue(s, j) /\ PathLinear(t, j) = PathLinear(s, j)
    BY <1>1 DEF PathValue, PathLinear
<1> HIDE DEF t
<1>10. BaseInv(t)
    BY <1>1, <1>6, <1>9 DEF BaseInv, PathInv, TriedInv, MemoInv
<1>11. SearchInv(t)
    BY <1>8, <1>10 DEF SearchInv
<1> QED BY <1>11 DEF t

\* No searcher is NoSearch.
LEMMA SearchersAreSome ==
    ASSUME NEW s \in Searchers
    PROVE  s # NoSearch /\ s # Stuck
<1>1. "stack" \in DOMAIN s
    BY DEF Searchers
<1>2. "stack" \notin DOMAIN [key |-> 0]
    OBVIOUS
<1> QED BY <1>1, <1>2 DEF NoSearch, Stuck

\* A pair that is one longer than the way here is not on it.
LEMMA MemoSays ==
    ASSUME NEW s, BaseInv(s), NEW op \in s.ops, op \notin s.linear, NEW w,
           <<w, s.linear \cup {op}>> \in s.memo
    PROVE  ~Alive(s.ops, w, s.linear \cup {op})
<1>1. PathInv(s) /\ MemoInv(s)
    BY DEF BaseInv
<1>2. ASSUME NEW j \in 2 .. Len(s.stack) + 1,
             <<w, s.linear \cup {op}>> = <<PathValue(s, j), PathLinear(s, j)>>
      PROVE  FALSE
    <2>1. s.linear \cup {op} = PathLinear(s, j)
        BY <1>2
    <2>2. PathLinear(s, j) \subseteq s.linear
        BY <1>1, PathIs
    <2> QED BY <2>1, <2>2
<1> DEFINE p == <<w, s.linear \cup {op}>>
<1>3. p[1] = w /\ p[2] = s.linear \cup {op}
    OBVIOUS
<1>4. ~Alive(s.ops, p[1], p[2]) \/ \E j \in 2 .. Len(s.stack) + 1 : p = <<PathValue(s, j), PathLinear(s, j)>>
    BY <1>1 DEF MemoInv
<1> QED BY <1>2, <1>3, <1>4

Placed(s, op, a, t) ==
    /\ t.key = s.key /\ t.ops = s.ops /\ t.share = s.share
    /\ t.value = Alternatives(s.value, op)[a]
    /\ t.linear = s.linear \cup {op}
    /\ t.memo \subseteq s.memo \cup {<<Alternatives(s.value, op)[a], s.linear \cup {op}>>}
    /\ t.states = s.states + 1
    /\ t.stack = Append(s.stack, [call |-> op, value |-> s.value, alt |-> a])

\* An operation placed with one of the values it allows.
LEMMA ChoiceKeeps ==
    ASSUME NEW s, BaseInv(s), s.states < s.share, NEW op \in s.ops, Free(s.ops, s.linear, op),
           NEW a \in 1 .. Len(Alternatives(s.value, op)), NEW t \in Searchers, Placed(s, op, a, t),
           \A b \in 1 .. a - 1 : ~Alive(s.ops, Alternatives(s.value, op)[b], s.linear \cup {op}),
           \A d \in s.ops : Free(s.ops, s.linear, d) /\ Before(Invoked(d), Invoked(op)) =>
              Exhausted(s.ops, s.value, s.linear, d)
    PROVE  BaseInv(t)
<1> DEFINE n == Len(s.stack)
           f == [call |-> op, value |-> s.value, alt |-> a]
<1>0. PathInv(s) /\ TriedInv(s) /\ MemoInv(s) /\ s \in Searchers /\ Usable(s.ops)
    BY DEF BaseInv, PathInv
<1>1. n \in Nat /\ s.stack \in Seq(Frames) /\ PathValue(s, n + 1) = s.value
    BY <1>0, PathIs
<1>2. op \in Operations /\ s.value \in Registers /\ a \in Nat
    BY <1>0 DEF Searchers
<1>3. f \in Frames /\ f.call = op /\ f.value = s.value /\ f.alt = a
    BY <1>2 DEF Frames
<1> HIDE DEF f
<1>4. Len(t.stack) = n + 1 /\ t.stack[n + 1] = f /\ \A j \in 1 .. n : t.stack[j] = s.stack[j]
    BY <1>1, <1>3 DEF Placed, f
<1>5. \A j \in 1 .. n + 1 : PathValue(t, j) = PathValue(s, j) /\ PathLinear(t, j) = PathLinear(s, j)
    <2> TAKE j \in 1 .. n + 1
    <2>1. CASE j \in 1 .. n
        <3>1. PathLinear(t, j) = PathLinear(s, j)
            <4>1. \A i \in 1 .. j - 1 : i \in 1 .. n
                BY <1>1, <2>1
            <4>2. \A i \in 1 .. j - 1 : t.stack[i] = s.stack[i]
                BY <1>4, <4>1
            <4> QED BY <4>2 DEF PathLinear
        <3>2. PathValue(t, j) = PathValue(s, j)
            BY <1>1, <1>4, <2>1 DEF PathValue
        <3> QED BY <3>1, <3>2
    <2>2. CASE j = n + 1
        <3>1. PathLinear(t, j) = PathLinear(s, j)
            <4>1. \A i \in 1 .. j - 1 : t.stack[i] = s.stack[i]
                BY <1>1, <1>4, <2>2
            <4> QED BY <4>1 DEF PathLinear
        <3>2. PathValue(t, j) = PathValue(s, j)
            BY <1>1, <1>3, <1>4, <2>2 DEF PathValue
        <3> QED BY <3>1, <3>2
    <2> QED BY <1>1, <2>1, <2>2
<1>6. PathLinear(s, n + 1) = s.linear
    BY <1>0 DEF PathInv
<1>7. PathLinear(t, n + 2) = t.linear /\ PathValue(t, n + 2) = t.value
    <2>1. PathLinear(t, n + 2) = {t.stack[i].call : i \in 1 .. n + 1}
        BY <1>1 DEF PathLinear
    <2>2. PathLinear(t, n + 1) = {t.stack[i].call : i \in 1 .. n}
        BY <1>1 DEF PathLinear
    <2>3. 1 .. n + 1 = 1 .. n \cup {n + 1}
        BY <1>1
    <2>4. PathLinear(t, n + 2) = PathLinear(t, n + 1) \cup {op}
        BY <1>3, <1>4, <2>1, <2>2, <2>3
    <2>5. PathLinear(t, n + 1) = s.linear
        BY <1>1, <1>5, <1>6
    <2>6. PathValue(t, n + 2) = t.value
        BY <1>1, <1>4 DEF PathValue
    <2> QED BY <2>4, <2>5, <2>6 DEF Placed
<1>8. PathInv(t)
    <2>1. t.states <= t.share
        BY <1>0 DEF Placed, Searchers
    <2>2. PathValue(t, 1) = Undetermined
        BY <1>0, <1>1, <1>5 DEF PathInv
    <2>3. ASSUME NEW j \in 1 .. n + 1
          PROVE  /\ Free(t.ops, PathLinear(t, j), t.stack[j].call)
                 /\ t.stack[j].alt \in 1 .. Len(Alternatives(t.stack[j].value, t.stack[j].call))
                 /\ PathValue(t, j + 1) = Alternatives(t.stack[j].value, t.stack[j].call)[t.stack[j].alt]
        <3>1. CASE j \in 1 .. n
            <4>1. j + 1 \in 1 .. n + 1 /\ j \in 1 .. n + 1
                BY <1>1, <3>1
            <4> QED BY <1>0, <1>1, <1>4, <1>5, <3>1, <4>1 DEF PathInv, Placed
        <3>2. CASE j = n + 1
            <4>1. PathLinear(t, j) = s.linear /\ PathValue(t, j + 1) = t.value
                BY <1>1, <1>5, <1>6, <1>7, <3>2
            <4> QED BY <1>3, <1>4, <3>2, <4>1 DEF Placed
        <3> QED BY <1>1, <3>1, <3>2
    <2>4. Len(t.stack) + 1 = n + 2
        BY <1>1, <1>4
    <2>5. t.linear = PathLinear(t, Len(t.stack) + 1)
        BY <1>7, <2>4
    <2>6. Usable(t.ops)
        BY <1>0 DEF Placed
    <2>7. \A j \in 1 .. Len(t.stack) :
             /\ Free(t.ops, PathLinear(t, j), t.stack[j].call)
             /\ t.stack[j].alt \in 1 .. Len(Alternatives(t.stack[j].value, t.stack[j].call))
             /\ PathValue(t, j + 1) = Alternatives(t.stack[j].value, t.stack[j].call)[t.stack[j].alt]
        BY <1>4, <2>3
    <2> QED BY <2>1, <2>2, <2>5, <2>6, <2>7 DEF PathInv
<1>9. TriedInv(t)
    <2> SUFFICES ASSUME NEW j \in 1 .. n + 1
                 PROVE  /\ \A d \in t.ops :
                              Free(t.ops, PathLinear(t, j), d) /\ Before(Invoked(d), Invoked(t.stack[j].call)) =>
                                  Exhausted(t.ops, t.stack[j].value, PathLinear(t, j), d)
                        /\ \A b \in 1 .. t.stack[j].alt - 1 :
                              ~Alive(t.ops, Alternatives(t.stack[j].value, t.stack[j].call)[b],
                                     PathLinear(t, j) \cup {t.stack[j].call})
        BY <1>4 DEF TriedInv
    <2>1. CASE j \in 1 .. n
        BY <1>0, <1>1, <1>4, <1>5, <2>1 DEF TriedInv, Placed
    <2>2. CASE j = n + 1
        <3>1. PathLinear(t, j) = s.linear /\ t.stack[j] = f /\ t.ops = s.ops
            BY <1>1, <1>4, <1>5, <1>6, <2>2 DEF Placed
        <3>2. t.stack[j].call = op /\ t.stack[j].value = s.value /\ t.stack[j].alt = a
            BY <1>3, <3>1
        <3>3. \A d \in t.ops :
                  Free(t.ops, PathLinear(t, j), d) /\ Before(Invoked(d), Invoked(t.stack[j].call)) =>
                      Exhausted(t.ops, t.stack[j].value, PathLinear(t, j), d)
            BY <3>1, <3>2
        <3>4. \A b \in 1 .. t.stack[j].alt - 1 :
                  ~Alive(t.ops, Alternatives(t.stack[j].value, t.stack[j].call)[b],
                         PathLinear(t, j) \cup {t.stack[j].call})
            BY <3>1, <3>2
        <3> QED BY <3>3, <3>4
    <2>3. j \in 1 .. n \/ j = n + 1
        BY <1>1
    <2> QED BY <2>1, <2>2, <2>3, Zenon
<1>10. MemoInv(t)
    <2> SUFFICES ASSUME NEW p \in t.memo
                 PROVE  \/ ~Alive(t.ops, p[1], p[2])
                        \/ \E j \in 2 .. n + 2 : p = <<PathValue(t, j), PathLinear(t, j)>>
        BY <1>1, <1>4 DEF MemoInv
    <2>1. CASE p \in s.memo
        <3>1. CASE ~Alive(s.ops, p[1], p[2])
            BY <3>1 DEF Placed
        <3>2. CASE \E j \in 2 .. n + 1 : p = <<PathValue(s, j), PathLinear(s, j)>>
            <4>1. PICK j \in 2 .. n + 1 : p = <<PathValue(s, j), PathLinear(s, j)>>
                BY <3>2
            <4>2. j \in 1 .. n + 1 /\ j \in 2 .. n + 2
                BY <1>1
            <4> QED BY <1>5, <4>1, <4>2
        <3> QED BY <1>0, <2>1, <3>1, <3>2 DEF MemoInv
    <2>2. CASE p = <<Alternatives(s.value, op)[a], s.linear \cup {op}>>
        <3>1. n + 2 \in 2 .. n + 2
            BY <1>1
        <3> QED BY <1>7, <2>2, <3>1 DEF Placed
    <2> QED BY <2>1, <2>2 DEF Placed
<1> QED BY <1>8, <1>9, <1>10 DEF BaseInv

\* tryFrom leaves a searcher that the invariant holds of, or the operation leads nowhere.
LEMMA TryKeeps ==
    ASSUME MemoMax \in Nat,
           NEW s, BaseInv(s), s.states < s.share, NEW op \in s.ops, Free(s.ops, s.linear, op),
           NEW from \in Nat \ {0}, from <= Len(Alternatives(s.value, op)) + 1,
           \A b \in 1 .. from - 1 : ~Alive(s.ops, Alternatives(s.value, op)[b], s.linear \cup {op}),
           \A d \in s.ops : Free(s.ops, s.linear, d) /\ Before(Invoked(d), Invoked(op)) =>
              Exhausted(s.ops, s.value, s.linear, d)
    PROVE  /\ TryFrom(s, op, from) = Stuck => Exhausted(s.ops, s.value, s.linear, op)
           /\ TryFrom(s, op, from) # Stuck => SearchInv(TryFrom(s, op, from))
<1> DEFINE alts == Alternatives(s.value, op)
           pair(a) == <<alts[a], s.linear \cup {op}>>
           fresh == {a \in from .. Len(alts) : IsNew(s, pair(a))}
           m == Min(fresh)
           next == [s EXCEPT !.value = alts[m],
                             !.linear = @ \cup {op},
                             !.memo = Remember(s, pair(m)),
                             !.states = @ + 1,
                             !.stack = Append(@, [call |-> op, value |-> s.value, alt |-> m])]
<1>0. PathInv(s) /\ s \in Searchers /\ Usable(s.ops) /\ s.value \in Registers /\ op \notin s.linear /\ op \in Operations
    BY DEF BaseInv, PathInv, Searchers, Free
<1>1. alts \in Seq(Registers) /\ Len(alts) \in Nat
    BY <1>0, AlternativesAre
<1>2. TryFrom(s, op, from) = IF fresh = {} THEN Stuck ELSE [next EXCEPT !.entry = HeadNext(next)]
    BY DEF TryFrom
<1>3. ASSUME NEW b \in from .. Len(alts), b \notin fresh
      PROVE  ~Alive(s.ops, alts[b], s.linear \cup {op})
    <2>1. pair(b) \in s.memo
        BY <1>3 DEF IsNew
    <2> QED BY <1>0, <2>1, MemoSays
<1>4. CASE fresh = {}
    <2>1. \A b \in 1 .. Len(alts) : ~Alive(s.ops, alts[b], s.linear \cup {op})
        <3> TAKE b \in 1 .. Len(alts)
        <3>1. CASE b \in 1 .. from - 1
            BY <3>1
        <3>2. CASE b \in from .. Len(alts)
            BY <1>3, <1>4, <3>2
        <3> QED BY <1>1, <3>1, <3>2
    <2>2. Exhausted(s.ops, s.value, s.linear, op)
        BY <2>1 DEF Exhausted, Outcomes
    <2> QED BY <1>2, <1>4, <2>2
<1>5. CASE fresh # {}
    <2>1. m \in fresh /\ \A b \in fresh : m <= b
        <3>1. fresh \subseteq Nat
            BY <1>1
        <3> HIDE DEF fresh
        <3> QED BY <1>5, <3>1, SmallestNumber
    <2>2. m \in from .. Len(alts) /\ m \in 1 .. Len(alts)
        BY <1>1, <2>1
    <2>3. \A b \in 1 .. m - 1 : ~Alive(s.ops, alts[b], s.linear \cup {op})
        <3> TAKE b \in 1 .. m - 1
        <3>1. CASE b \in 1 .. from - 1
            BY <3>1
        <3>2. CASE b \in from .. Len(alts)
            <4>1. b \notin fresh
                <5> HIDE DEF fresh, m
                <5> QED BY <1>1, <2>1, <2>2
            <4> QED BY <1>3, <3>2, <4>1
        <3> QED BY <1>1, <2>2, <3>1, <3>2
    <2> HIDE DEF m, fresh
    <2>4. /\ next.key = s.key /\ next.ops = s.ops /\ next.share = s.share /\ next.value = alts[m]
          /\ next.linear = s.linear \cup {op} /\ next.memo = Remember(s, pair(m))
          /\ next.states = s.states + 1 /\ next.entry = s.entry
          /\ next.stack = Append(s.stack, [call |-> op, value |-> s.value, alt |-> m])
        BY <1>0 DEF Searchers
    <2>5. pair(m) \in Registers \X SUBSET Operations
        <3>1. alts[m] \in Registers
            BY <1>1, <2>2
        <3>2. s.linear \cup {op} \in SUBSET Operations
            BY <1>0 DEF Searchers
        <3> QED BY <3>1, <3>2
    <2>6. Remember(s, pair(m)) \subseteq s.memo \cup {pair(m)}
        BY DEF Remember
    <2>7. next \in Searchers
        <3>1. next.memo \in SUBSET (Registers \X SUBSET Operations)
            BY <1>0, <2>4, <2>5, <2>6 DEF Searchers
        <3>2. next.stack \in Seq(Frames)
            <4>1. [call |-> op, value |-> s.value, alt |-> m] \in Frames
                BY <1>0, <2>2 DEF Frames
            <4> QED BY <1>0, <2>4, <4>1 DEF Searchers
        <3>3. next.value \in Registers /\ next.linear \in SUBSET Operations
            BY <2>4, <2>5
        <3>4. next.states \in Nat /\ next.key \in Nat /\ next.share \in Nat /\ next.ops \in SUBSET Operations
              /\ next.entry \in [op : Operations, return : BOOLEAN] \cup {ListEnd}
            BY <1>0, <2>4 DEF Searchers
        <3> QED BY <1>0, <2>4, <3>1, <3>2, <3>3, <3>4 DEF Searchers
    <2>8. Placed(s, op, m, next)
        BY <2>4, <2>6 DEF Placed
    <2> HIDE DEF next
    <2>9. BaseInv(next)
        BY <1>0, <2>2, <2>3, <2>7, <2>8, ChoiceKeeps
    <2>10. SearchInv([next EXCEPT !.entry = HeadNext(next)])
        BY <2>9, HeadKeeps
    <2>11. TryFrom(s, op, from) = [next EXCEPT !.entry = HeadNext(next)]
        BY <1>2, <1>5
    <2>12. [next EXCEPT !.entry = HeadNext(next)] \in Searchers
        BY <2>10 DEF SearchInv, BaseInv, PathInv
    <2> QED BY <2>10, <2>11, <2>12, SearchersAreSome
<1> QED BY <1>4, <1>5

\* At the invocation of an operation that may be placed.
LEMMA EntryIsFree ==
    ASSUME NEW s, SearchInv(s), s.entry # ListEnd, ~s.entry.return
    PROVE  /\ s.entry = Invoked(s.entry.op) /\ s.entry.op \in s.ops /\ s.entry.op \notin s.linear
           /\ Free(s.ops, s.linear, s.entry.op)
<1> DEFINE op == s.entry.op
<1>1. PathInv(s) /\ EntryInv(s) /\ Usable(s.ops)
    BY DEF SearchInv, BaseInv, PathInv
<1>2. s.entry \in Listed(s)
    BY <1>1 DEF EntryInv
<1>3. s.entry \in EventsOf(s.ops) /\ op \in s.ops /\ op \notin s.linear
    BY <1>1, <1>2, ListedIs
<1>4. s.entry = Invoked(op)
    BY <1>1, <1>3, EventParts
<1>5. ASSUME NEW d \in s.ops \ s.linear, Real(d, op)
      PROVE  FALSE
    <2>1. Returned(d) \in Listed(s)
        BY <1>1, ListedIs
    <2>2. Before(Returned(d), s.entry)
        BY <1>1, <1>3, <1>4, <1>5, ReturnBeforeInvoke
    <2>3. ~Returned(d).return
        BY <1>1, <2>1, <2>2 DEF EntryInv
    <2> QED BY <2>3 DEF Returned
<1> QED BY <1>3, <1>4, <1>5 DEF Free

\* Where no operation can be placed next, nothing that was placed was placed rightly.
LEMMA ReturnIsDead ==
    ASSUME NEW s, SearchInv(s), Listed(s) # {}, s.entry = ListEnd \/ s.entry.return
    PROVE  ~Alive(s.ops, s.value, s.linear)
<1>1. PathInv(s) /\ EntryInv(s) /\ Usable(s.ops)
    BY DEF SearchInv, BaseInv, PathInv
<1>2. s.value \in Registers /\ s.linear \in SUBSET s.ops
    BY <1>1, PathIs
<1>3. PICK e \in Listed(s) : e.op \in s.ops /\ e.op \notin s.linear
    BY <1>1, ListedIs
<1>4. s.linear # s.ops
    BY <1>3
<1>5. s.entry # ListEnd
    <2>1. Returned(e.op) \in Listed(s)
        BY <1>1, <1>3, ListedIs
    <2>2. Returned(e.op).return
        BY DEF Returned
    <2> QED BY <1>1, <2>1, <2>2 DEF EntryInv
<1>6. s.entry \in EventsOf(s.ops) /\ s.entry.op \in s.ops /\ s.entry.op \notin s.linear /\ s.entry = Returned(s.entry.op)
    <2>1. s.entry \in Listed(s)
        BY <1>1, <1>5 DEF EntryInv
    <2>2. s.entry \in EventsOf(s.ops) /\ s.entry.op \in s.ops /\ s.entry.op \notin s.linear
        BY <1>1, <2>1, ListedIs
    <2> QED BY <1>1, <1>5, <2>2, EventParts
<1>7. ASSUME NEW op \in s.ops, Free(s.ops, s.linear, op)
      PROVE  Exhausted(s.ops, s.value, s.linear, op)
    <2>1. op \notin s.linear /\ ~Real(s.entry.op, op)
        BY <1>6, <1>7 DEF Free
    <2>2. ~Before(s.entry, Invoked(op))
        BY <1>1, <1>6, <2>1, ReturnBeforeInvoke
    <2>3. Invoked(op) \in EventsOf(s.ops) /\ Invoked(op) \in Listed(s) /\ Invoked(op).op = op
        BY <1>1, <2>1, ListedIs DEF EventsOf, Invoked
    <2>4. Invoked(op) # s.entry
        <3>1. Invoked(op).return # Returned(s.entry.op).return
            BY DEF Invoked, Returned
        <3> QED BY <1>6, <3>1
    <2>5. Before(Invoked(op), s.entry)
        BY <1>1, <1>6, <2>2, <2>3, <2>4, OrderOfEvents
    <2> QED BY <1>1, <1>7, <2>3, <2>5 DEF EntryInv
<1> QED BY <1>2, <1>4, <1>7, DeadEnd DEF Exhausted

\* What the entry's predecessors say, by the operation.
LEMMA PassedOver ==
    ASSUME NEW s, SearchInv(s), s.entry # ListEnd, ~s.entry.return,
           NEW d \in s.ops, Free(s.ops, s.linear, d), Before(Invoked(d), Invoked(s.entry.op))
    PROVE  Exhausted(s.ops, s.value, s.linear, d)
<1>1. PathInv(s) /\ EntryInv(s)
    BY DEF SearchInv, BaseInv
<1>2. Invoked(d) \in Listed(s)
    BY <1>1, ListedIs DEF Free
<1>3. s.entry = Invoked(s.entry.op)
    BY EntryIsFree
<1> QED BY <1>1, <1>2, <1>3 DEF EntryInv, Invoked

\* Try keeps what is true of the search.
LEMMA TryStep ==
    ASSUME MemoMax \in Nat,
           NEW s, SearchInv(s), s.states < s.share, s.entry # ListEnd, ~s.entry.return,
           NEW t, t = LET next == TryFrom(s, s.entry.op, 1)
                      IN IF next # Stuck THEN next ELSE [s EXCEPT !.entry = NextOf(s, s.entry)]
    PROVE  SearchInv(t)
<1> DEFINE op == s.entry.op
<1>1. BaseInv(s) /\ EntryInv(s) /\ PathInv(s) /\ Usable(s.ops) /\ s.value \in Registers
    BY DEF SearchInv, BaseInv, PathInv, Searchers
<1>2. s.entry = Invoked(op) /\ op \in s.ops /\ op \notin s.linear /\ Free(s.ops, s.linear, op)
    BY EntryIsFree
<1>3. Alternatives(s.value, op) \in Seq(Registers)
    <2>1. op \in Operations
        BY <1>1, <1>2 DEF Usable
    <2> QED BY <1>1, <2>1, AlternativesAre
<1>4. \A d \in s.ops : Free(s.ops, s.linear, d) /\ Before(Invoked(d), Invoked(op)) =>
          Exhausted(s.ops, s.value, s.linear, d)
    BY PassedOver
<1>5. /\ TryFrom(s, op, 1) = Stuck => Exhausted(s.ops, s.value, s.linear, op)
      /\ TryFrom(s, op, 1) # Stuck => SearchInv(TryFrom(s, op, 1))
    <2>1. 1 \in Nat \ {0} /\ 1 <= Len(Alternatives(s.value, op)) + 1
        BY <1>3
    <2>2. \A b \in 1 .. 1 - 1 : ~Alive(s.ops, Alternatives(s.value, op)[b], s.linear \cup {op})
        OBVIOUS
    <2> HIDE DEF op
    <2> QED BY <1>1, <1>2, <1>4, <2>1, <2>2, TryKeeps
<1>6. CASE TryFrom(s, op, 1) # Stuck
    BY <1>5, <1>6
<1>7. CASE TryFrom(s, op, 1) = Stuck
    <2>1. \A d \in Listed(s) : d = Invoked(op) \/ Before(d, Invoked(op)) =>
             ~d.return /\ (Free(s.ops, s.linear, d.op) => Exhausted(s.ops, s.value, s.linear, d.op))
        <3> TAKE d \in Listed(s)
        <3>1. CASE d = Invoked(op)
            BY <1>5, <1>7, <3>1 DEF Invoked
        <3>2. CASE Before(d, Invoked(op))
            BY <1>1, <1>2, <3>2 DEF EntryInv
        <3> QED BY <3>1, <3>2
    <2>2. SearchInv([s EXCEPT !.entry = NextOf(s, Invoked(op))])
        BY <1>1, <1>2, <2>1, NextKeeps
    <2> QED BY <1>2, <1>7, <2>2
<1> QED BY <1>6, <1>7

\* The last choice taken back.
Undone(s) ==
    [s EXCEPT !.value = Last(s.stack).value, !.linear = @ \ {Last(s.stack).call}, !.stack = Front(@)]

\* Undoing the last choice keeps what is true of the search, and rules that choice out.
LEMMA UndoneKeeps ==
    ASSUME NEW s, BaseInv(s), s.stack # <<>>, ~Alive(s.ops, s.value, s.linear),
           NEW f, f = Last(s.stack), NEW t, t = Undone(s)
    PROVE  /\ BaseInv(t) /\ t.ops = s.ops /\ t.states = s.states /\ t.share = s.share
           /\ f \in Frames /\ t.value = f.value /\ f.call \in t.ops /\ Free(t.ops, t.linear, f.call)
           /\ f.alt \in 1 .. Len(Alternatives(t.value, f.call))
           /\ \A b \in 1 .. f.alt : ~Alive(t.ops, Alternatives(t.value, f.call)[b], t.linear \cup {f.call})
           /\ \A d \in t.ops : Free(t.ops, t.linear, d) /\ Before(Invoked(d), Invoked(f.call)) =>
                 Exhausted(t.ops, t.value, t.linear, d)
<1> DEFINE n == Len(s.stack)
<1>0. PathInv(s) /\ TriedInv(s) /\ MemoInv(s) /\ s \in Searchers /\ Usable(s.ops)
    BY DEF BaseInv, PathInv
<1>1. n \in Nat \ {0} /\ s.stack \in Seq(Frames) /\ n \in 1 .. n
    <2>1. s.stack \in Seq(Frames)
        BY <1>0, PathIs
    <2> QED BY <2>1
<1>2. f = s.stack[n] /\ f \in Frames /\ f.value \in Registers /\ f.call \in s.ops /\ f.alt \in Nat
    <2>1. f = s.stack[n]
        BY DEF Last
    <2>2. f \in Frames /\ f.call \in s.ops
        BY <1>0, <1>1, <2>1, PathIs
    <2> QED BY <2>1, <2>2 DEF Frames
<1>3. /\ t.key = s.key /\ t.ops = s.ops /\ t.share = s.share /\ t.value = f.value
      /\ t.linear = s.linear \ {f.call} /\ t.memo = s.memo
      /\ t.states = s.states /\ t.entry = s.entry /\ t.stack = Front(s.stack)
    BY <1>0 DEF Searchers, Undone
<1>4. t.stack \in Seq(Frames) /\ Len(t.stack) = n - 1 /\ \A j \in 1 .. n - 1 : t.stack[j] = s.stack[j]
    BY <1>1, <1>3 DEF Front
<1>5. t \in Searchers
    <2>1. t.linear \in SUBSET Operations
        BY <1>0, <1>3 DEF Searchers
    <2> QED BY <1>0, <1>2, <1>3, <1>4, <2>1 DEF Searchers, Undone
<1> HIDE DEF n
<1>6. \A j \in 1 .. n : PathLinear(t, j) = PathLinear(s, j) /\ PathValue(t, j) = PathValue(s, j)
    <2> TAKE j \in 1 .. n
    <2>1. \A i \in 1 .. j - 1 : t.stack[i] = s.stack[i]
        BY <1>1, <1>4
    <2>2. PathLinear(t, j) = PathLinear(s, j)
        BY <2>1 DEF PathLinear
    <2>6. n = Len(s.stack)
        BY DEF n
    <2>3. CASE j \in 1 .. n - 1
        <3>1. j <= Len(t.stack) /\ j <= Len(s.stack)
            BY <1>1, <1>4, <2>3, <2>6
        <3> QED BY <1>4, <2>2, <2>3, <3>1 DEF PathValue
    <2>4. CASE j = n
        <3>1. ~(j <= Len(t.stack)) /\ j <= Len(s.stack)
            BY <1>1, <1>4, <2>4, <2>6
        <3> QED BY <1>2, <1>3, <2>2, <2>4, <3>1 DEF PathValue
    <2>5. j \in 1 .. n - 1 \/ j = n
        BY <1>1
    <2> QED BY <2>2, <2>3, <2>4, <2>5
<1>7. t.linear = PathLinear(s, n) /\ Free(s.ops, PathLinear(s, n), f.call)
    <2>1. Free(s.ops, PathLinear(s, n), f.call)
        BY <1>0, <1>1, <1>2 DEF PathInv, n
    <2>2. f.call \notin PathLinear(s, n)
        BY <2>1 DEF Free
    <2>3. s.linear = {s.stack[i].call : i \in 1 .. n}
        <3>1. s.linear = PathLinear(s, n + 1)
            BY <1>0 DEF PathInv, n
        <3> QED BY <1>1, <3>1 DEF PathLinear
    <2>4. 1 .. n = 1 .. n - 1 \cup {n}
        BY <1>1
    <2>5. s.linear = PathLinear(s, n) \cup {f.call}
        BY <1>2, <2>3, <2>4 DEF PathLinear
    <2> QED BY <1>3, <2>1, <2>2, <2>5
<1>8. s.linear = t.linear \cup {f.call}
    <2>1. f.call \in s.linear
        <3>1. s.linear = PathLinear(s, n + 1)
            BY <1>0 DEF PathInv, n
        <3> QED BY <1>1, <1>2, <3>1 DEF PathLinear
    <2> QED BY <1>3, <2>1
<1>9. PathInv(t)
    <2>1. t.states <= t.share /\ Usable(t.ops)
        BY <1>0, <1>3 DEF PathInv
    <2>2. Len(t.stack) + 1 = n /\ n \in 1 .. n /\ 1 \in 1 .. n
        BY <1>1, <1>4
    <2>3. t.linear = PathLinear(t, Len(t.stack) + 1)
        BY <1>6, <1>7, <2>2
    <2>4. PathValue(t, 1) = Undetermined
        BY <1>0, <1>6, <2>2 DEF PathInv
    <2>5. ASSUME NEW j \in 1 .. Len(t.stack)
          PROVE  /\ Free(t.ops, PathLinear(t, j), t.stack[j].call)
                 /\ t.stack[j].alt \in 1 .. Len(Alternatives(t.stack[j].value, t.stack[j].call))
                 /\ PathValue(t, j + 1) = Alternatives(t.stack[j].value, t.stack[j].call)[t.stack[j].alt]
        <3>1. j \in 1 .. n /\ j + 1 \in 1 .. n /\ t.stack[j] = s.stack[j]
            BY <1>1, <1>4
        <3>2. PathLinear(t, j) = PathLinear(s, j) /\ PathValue(t, j + 1) = PathValue(s, j + 1)
            BY <1>6, <3>1
        <3> QED BY <1>0, <1>3, <3>1, <3>2 DEF PathInv, n
    <2> QED BY <1>5, <2>1, <2>3, <2>4, <2>5 DEF PathInv
<1>10. TriedInv(t)
    <2> SUFFICES ASSUME NEW j \in 1 .. Len(t.stack)
                 PROVE  /\ \A d \in t.ops :
                              Free(t.ops, PathLinear(t, j), d) /\ Before(Invoked(d), Invoked(t.stack[j].call)) =>
                                  Exhausted(t.ops, t.stack[j].value, PathLinear(t, j), d)
                        /\ \A b \in 1 .. t.stack[j].alt - 1 :
                              ~Alive(t.ops, Alternatives(t.stack[j].value, t.stack[j].call)[b],
                                     PathLinear(t, j) \cup {t.stack[j].call})
        BY DEF TriedInv
    <2>1. j \in 1 .. n /\ t.stack[j] = s.stack[j]
        BY <1>1, <1>4
    <2>2. PathLinear(t, j) = PathLinear(s, j)
        BY <1>6, <2>1
    <2> QED BY <1>0, <1>3, <2>1, <2>2 DEF TriedInv, n
<1>11. MemoInv(t)
    <2> SUFFICES ASSUME NEW p \in s.memo
                 PROVE  \/ ~Alive(s.ops, p[1], p[2])
                        \/ \E j \in 2 .. n : p = <<PathValue(t, j), PathLinear(t, j)>>
        BY <1>1, <1>3, <1>4 DEF MemoInv
    <2>1. CASE \E j \in 2 .. n + 1 : p = <<PathValue(s, j), PathLinear(s, j)>>
        <3>1. PICK j \in 2 .. n + 1 : p = <<PathValue(s, j), PathLinear(s, j)>>
            BY <2>1
        <3>2. CASE j \in 2 .. n
            <4>1. j \in 1 .. n
                BY <3>2
            <4> QED BY <1>6, <3>1, <3>2, <4>1
        <3>3. CASE j = n + 1
            <4>1. PathValue(s, j) = s.value /\ PathLinear(s, j) = s.linear
                BY <1>0, <3>3, PathIs DEF PathInv, n
            <4> QED BY <3>1, <4>1
        <3> QED BY <1>1, <3>2, <3>3
    <2> QED BY <1>0, <2>1 DEF MemoInv, n
<1>12. f.alt \in 1 .. Len(Alternatives(f.value, f.call)) /\ PathValue(s, n + 1) = Alternatives(f.value, f.call)[f.alt]
    BY <1>0, <1>1, <1>2 DEF PathInv, n
<1>13. \A b \in 1 .. f.alt : ~Alive(t.ops, Alternatives(t.value, f.call)[b], t.linear \cup {f.call})
    <2> TAKE b \in 1 .. f.alt
    <2>1. CASE b \in 1 .. f.alt - 1
        BY <1>0, <1>1, <1>2, <1>3, <1>7, <2>1 DEF TriedInv, n
    <2>2. CASE b = f.alt
        <3>1. PathValue(s, n + 1) = s.value
            BY <1>0, PathIs DEF n
        <3> QED BY <1>3, <1>8, <1>12, <2>2, <3>1
    <2> QED BY <1>2, <2>1, <2>2
<1>14. \A d \in t.ops : Free(t.ops, t.linear, d) /\ Before(Invoked(d), Invoked(f.call)) =>
          Exhausted(t.ops, t.value, t.linear, d)
    BY <1>0, <1>1, <1>2, <1>3, <1>7 DEF TriedInv, n
<1> HIDE DEF PathLinear
<1>15. BaseInv(t)
    BY <1>9, <1>10, <1>11 DEF BaseInv
<1>16. Free(t.ops, t.linear, f.call)
    BY <1>3, <1>7
<1> QED BY <1>2, <1>3, <1>12, <1>13, <1>14, <1>15, <1>16

\* Backtrack keeps what is true of the search.
LEMMA BacktrackStep ==
    ASSUME MemoMax \in Nat,
           NEW s, SearchInv(s), s.states < s.share, Listed(s) # {}, s.entry = ListEnd \/ s.entry.return,
           s.stack # <<>>,
           NEW f, f = Last(s.stack),
           NEW undone, undone = Undone(s),
           NEW t, t = LET next == TryFrom(undone, f.call, f.alt + 1)
                      IN IF next # Stuck THEN next
                         ELSE [undone EXCEPT !.entry = NextOf(undone, [op |-> f.call, return |-> FALSE])]
    PROVE  SearchInv(t)
<1>1. ~Alive(s.ops, s.value, s.linear)
    BY ReturnIsDead
<1>2. /\ BaseInv(undone) /\ undone.ops = s.ops /\ undone.states = s.states /\ undone.share = s.share
      /\ f \in Frames /\ undone.value = f.value /\ f.call \in undone.ops /\ Free(undone.ops, undone.linear, f.call)
      /\ f.alt \in 1 .. Len(Alternatives(undone.value, f.call))
      /\ \A b \in 1 .. f.alt : ~Alive(undone.ops, Alternatives(undone.value, f.call)[b], undone.linear \cup {f.call})
      /\ \A d \in undone.ops : Free(undone.ops, undone.linear, d) /\ Before(Invoked(d), Invoked(f.call)) =>
            Exhausted(undone.ops, undone.value, undone.linear, d)
    <2>1. BaseInv(s)
        BY DEF SearchInv
    <2> QED BY <1>1, <2>1, UndoneKeeps
<1>3. PathInv(undone) /\ Usable(undone.ops) /\ f.call \notin undone.linear
    BY <1>2 DEF BaseInv, PathInv, Free
<1>4. f.alt \in Nat \ {0} /\ f.alt + 1 \in Nat \ {0} /\ f.alt + 1 - 1 = f.alt
    BY <1>2 DEF Frames
<1>5. f.alt + 1 <= Len(Alternatives(undone.value, f.call)) + 1
    <2>1. Alternatives(undone.value, f.call) \in Seq(Registers)
        <3>1. f.call \in Operations /\ undone.value \in Registers
            BY <1>2, <1>3, PathIs DEF Frames
        <3> QED BY <3>1, AlternativesAre
    <2> QED BY <1>2, <1>4, <2>1
<1>6. /\ TryFrom(undone, f.call, f.alt + 1) = Stuck =>
            Exhausted(undone.ops, undone.value, undone.linear, f.call)
      /\ TryFrom(undone, f.call, f.alt + 1) # Stuck => SearchInv(TryFrom(undone, f.call, f.alt + 1))
    <2>2. undone.states < undone.share
        BY <1>2
    <2> DEFINE from == f.alt + 1
    <2>3. from \in Nat \ {0} /\ from <= Len(Alternatives(undone.value, f.call)) + 1
        BY <1>4, <1>5
    <2> HIDE DEF from
    <2>4. /\ TryFrom(undone, f.call, from) = Stuck => Exhausted(undone.ops, undone.value, undone.linear, f.call)
          /\ TryFrom(undone, f.call, from) # Stuck => SearchInv(TryFrom(undone, f.call, from))
        <3>1. \A b \in 1 .. from - 1 :
              ~Alive(undone.ops, Alternatives(undone.value, f.call)[b], undone.linear \cup {f.call})
            <4> TAKE b \in 1 .. from - 1
            <4>1. b \in 1 .. f.alt
                BY <1>4 DEF from
            <4> QED BY <1>2, <4>1
        <3> QED BY <1>2, <2>2, <2>3, <3>1, TryKeeps
    <2> QED BY <2>4 DEF from
<1>7. CASE TryFrom(undone, f.call, f.alt + 1) # Stuck
    BY <1>6, <1>7
<1>8. CASE TryFrom(undone, f.call, f.alt + 1) = Stuck
    <2>1. \A d \in Listed(undone) : d = Invoked(f.call) \/ Before(d, Invoked(f.call)) =>
             ~d.return /\ (Free(undone.ops, undone.linear, d.op) =>
                              Exhausted(undone.ops, undone.value, undone.linear, d.op))
        <3> TAKE d \in Listed(undone)
        <3>1. CASE d = Invoked(f.call)
            BY <1>6, <1>8, <3>1 DEF Invoked
        <3>2. CASE Before(d, Invoked(f.call))
            <4>1. d \in EventsOf(undone.ops) /\ d.op \in undone.ops /\ d.op \notin undone.linear
                BY <1>3, ListedIs
            <4>2. d.return \in BOOLEAN /\ d = IF d.return THEN Returned(d.op) ELSE Invoked(d.op)
                BY <1>3, <4>1, EventParts
            <4>3. ~d.return
                <5> SUFFICES ASSUME d.return PROVE FALSE
                    OBVIOUS
                <5>1. Real(d.op, f.call)
                    BY <1>2, <1>3, <3>2, <4>1, <4>2, ReturnBeforeInvoke
                <5> QED BY <1>2, <4>1, <5>1 DEF Free
            <4> QED BY <1>2, <3>2, <4>1, <4>2, <4>3
        <3> QED BY <3>1, <3>2
    <2>2. SearchInv([undone EXCEPT !.entry = NextOf(undone, Invoked(f.call))])
        BY <1>2, <1>3, <2>1, NextKeeps
    <2> QED BY <1>8, <2>2 DEF Invoked
<1> QED BY <1>7, <1>8

\* The searcher as it is made.
LEMMA NewSearcher ==
    ASSUME NEW key \in Nat, NEW K, Usable(K), NEW share \in Nat,
           NEW s, s = [key |-> key, ops |-> K, value |-> Undetermined, linear |-> {}, stack |-> <<>>,
                       memo |-> {}, states |-> 0, share |-> share, entry |-> ListEnd]
    PROVE  BaseInv(s)
<1>1. /\ s.key = key /\ s.ops = K /\ s.value = Undetermined /\ s.linear = {} /\ s.stack = <<>>
      /\ s.memo = {} /\ s.states = 0 /\ s.share = share /\ s.entry = ListEnd
    OBVIOUS
<1>2. s \in Searchers
    <2>1. <<>> \in Seq(Frames) /\ {} \in SUBSET Operations /\ {} \in SUBSET (Registers \X SUBSET Operations)
        OBVIOUS
    <2>2. Undetermined \in Registers /\ K \in SUBSET Operations
        BY DEF Registers, Usable
    <2> QED BY <2>1, <2>2 DEF Searchers
<1>3. Len(s.stack) = 0 /\ 1 .. Len(s.stack) = {} /\ 2 .. Len(s.stack) + 1 = {} /\ Len(s.stack) + 1 = 1
    BY <1>1
<1>4. PathValue(s, 1) = Undetermined /\ PathLinear(s, 1) = {}
    <2>1. ~(1 <= Len(s.stack)) /\ 1 .. 1 - 1 = {}
        BY <1>3
    <2> QED BY <1>1, <2>1 DEF PathValue, PathLinear
<1>5. PathInv(s)
    <2>1. Usable(s.ops) /\ s.states <= s.share
        BY <1>1
    <2>2. s.linear = PathLinear(s, Len(s.stack) + 1) /\ PathValue(s, 1) = Undetermined
        BY <1>1, <1>3, <1>4
    <2>3. PICK r : r = s
        OBVIOUS
    <2>4. /\ r \in Searchers /\ Usable(r.ops) /\ r.states <= r.share
          /\ r.linear = PathLinear(r, Len(r.stack) + 1) /\ PathValue(r, 1) = Undetermined
          /\ 1 .. Len(r.stack) = {}
        BY <1>2, <1>3, <2>1, <2>2, <2>3
    <2>5. PathInv(r)
        BY <2>4 DEF PathInv
    <2> QED BY <2>3, <2>5
<1>6. TriedInv(s) /\ MemoInv(s)
    BY <1>1, <1>3 DEF TriedInv, MemoInv
<1> QED BY <1>5, <1>6 DEF BaseInv

\* What the search refutes cannot be placed at all.
LEMMA RefutedIs ==
    ASSUME NEW s, SearchInv(s), Listed(s) # {}, s.entry = ListEnd \/ s.entry.return, s.stack = <<>>
    PROVE  ~Alive(s.ops, Undetermined, {})
<1>1. ~Alive(s.ops, s.value, s.linear)
    BY ReturnIsDead
<1>2. PathInv(s) /\ Len(s.stack) = 0
    BY DEF SearchInv, BaseInv
<1>3. s.value = Undetermined
    <2>1. PathValue(s, Len(s.stack) + 1) = s.value
        BY <1>2, PathIs
    <2> QED BY <1>2, <2>1 DEF PathInv
<1>4. s.linear = {}
    <2>1. 1 .. Len(s.stack) + 1 - 1 = {}
        BY <1>2
    <2> QED BY <1>2, <2>1 DEF PathInv, PathLinear
<1> QED BY <1>1, <1>3, <1>4

\* The operations one after another, each free when it is placed, with the values
\* the register has between them.
ChainOf(K, n, c, v) ==
    /\ n \in Nat /\ c \in [1 .. n -> K] /\ v \in [1 .. n + 1 -> Registers]
    /\ v[1] = Undetermined
    /\ \A j \in 1 .. n : /\ Free(K, {c[i] : i \in 1 .. j - 1}, c[j])
                         /\ v[j + 1] \in Outcomes(v[j], c[j])
    /\ K = {c[i] : i \in 1 .. n}

Chained(K) == \E n, c, v : ChainOf(K, n, c, v)

\* A search that has placed every operation has placed them in a chain.
LEMMA CompletedIs ==
    ASSUME NEW s, SearchInv(s), Listed(s) = {}
    PROVE  Chained(s.ops)
<1> DEFINE n == Len(s.stack)
           c == [j \in 1 .. n |-> s.stack[j].call]
           v == [j \in 1 .. n + 1 |-> PathValue(s, j)]
<1>1. PathInv(s)
    BY DEF SearchInv, BaseInv
<1>2. n \in Nat /\ c \in [1 .. n -> s.ops] /\ v \in [1 .. n + 1 -> Registers]
    BY <1>1, PathIs
<1>3. s.linear = s.ops
    BY <1>1, ListedIs, PathIs
<1>4. \A j \in 1 .. n + 1 : PathLinear(s, j) = {c[i] : i \in 1 .. j - 1}
    <2> TAKE j \in 1 .. n + 1
    <2>1. \A i \in 1 .. j - 1 : c[i] = s.stack[i].call
        BY <1>2
    <2> HIDE DEF c
    <2> QED BY <2>1 DEF PathLinear
<1>5. \A j \in 1 .. n + 1 : v[j] = PathValue(s, j)
    OBVIOUS
<1>6. \A j \in 1 .. n : c[j] = s.stack[j].call
    OBVIOUS
<1> HIDE DEF c, v
<1>7. ASSUME NEW j \in 1 .. n
      PROVE  Free(s.ops, {c[i] : i \in 1 .. j - 1}, c[j]) /\ v[j + 1] \in Outcomes(v[j], c[j])
    <2>1. j \in 1 .. n + 1 /\ j + 1 \in 1 .. n + 1
        BY <1>2
    <2>2. v[j] = s.stack[j].value /\ v[j + 1] = PathValue(s, j + 1)
        <3>1. j <= Len(s.stack)
            BY <1>2
        <3>2. PathValue(s, j) = s.stack[j].value
            BY <3>1 DEF PathValue
        <3> QED BY <1>5, <2>1, <3>2
    <2>3. /\ Free(s.ops, PathLinear(s, j), s.stack[j].call)
          /\ s.stack[j].alt \in 1 .. Len(Alternatives(s.stack[j].value, s.stack[j].call))
          /\ PathValue(s, j + 1) = Alternatives(s.stack[j].value, s.stack[j].call)[s.stack[j].alt]
        BY <1>1 DEF PathInv
    <2> HIDE DEF n
    <2>4. c[j] = s.stack[j].call /\ PathLinear(s, j) = {c[i] : i \in 1 .. j - 1}
        BY <1>4, <1>6, <2>1
    <2>5. v[j + 1] \in Outcomes(v[j], c[j])
        BY <2>2, <2>3, <2>4 DEF Outcomes
    <2> QED BY <2>3, <2>4, <2>5
<1>8. v[1] = Undetermined /\ s.ops = {c[i] : i \in 1 .. n}
    <2>1. 1 \in 1 .. n + 1 /\ n + 1 \in 1 .. n + 1 /\ n + 1 - 1 = n
        BY <1>2
    <2>2. PathLinear(s, n + 1) = {c[i] : i \in 1 .. n}
        BY <1>4, <2>1
    <2> QED BY <1>1, <1>3, <1>5, <2>1, <2>2 DEF PathInv
<1>9. ChainOf(s.ops, n, c, v)
    BY <1>2, <1>7, <1>8 DEF ChainOf
<1> QED BY <1>9 DEF Chained

OfKey(S, key) == {op \in S : op.key = key}

Values(S) == {op.value : op \in S} \cup {Null}

\* One more operation of the order.
LEMMA ValueOf ==
    ASSUME NEW S, Usable(S), NEW N \in Nat, NEW order \in [1 .. N -> S],
           NEW initial \in [Keys -> Values(S)], NEW key \in Keys
    PROVE  /\ \A n \in 0 .. N : ValueAfter(order, n, initial, key) \in Nat
           /\ \A n \in 1 .. N :
                 ValueAfter(order, n, initial, key) =
                    IF order[n].kind = "write" /\ order[n].key = key
                      THEN order[n].value ELSE ValueAfter(order, n - 1, initial, key)
<1> DEFINE writes(n) == {i \in 1 .. n : order[i].kind = "write" /\ order[i].key = key}
<1>1. \A n : ValueAfter(order, n, initial, key) =
                 IF writes(n) = {} THEN initial[key] ELSE order[Max(writes(n))].value
    BY DEF ValueAfter
<1>2. ASSUME NEW n \in 0 .. N, writes(n) # {}
      PROVE  Max(writes(n)) \in writes(n) /\ \A m \in writes(n) : m <= Max(writes(n))
    <2>1. IsFiniteSet(1 .. n)
        BY FS_Interval
    <2>2. IsFiniteSet(writes(n))
        BY <2>1, FS_Subset
    <2>3. writes(n) \subseteq Nat
        OBVIOUS
    <2> HIDE DEF writes
    <2> QED BY <1>2, <2>2, <2>3, GreatestNumber
<1>3. \A op \in S : op.value \in Nat
    BY DEF Usable, Operations
<1>4. initial[key] \in Nat
    BY <1>3 DEF Values, Null
<1>5. \A n \in 0 .. N : ValueAfter(order, n, initial, key) \in Nat
    <2> TAKE n \in 0 .. N
    <2>1. CASE writes(n) = {}
        BY <1>1, <1>4, <2>1
    <2>2. CASE writes(n) # {}
        <3>1. Max(writes(n)) \in writes(n)
            BY <1>2, <2>2
        <3>2. order[Max(writes(n))] \in S
            BY <3>1
        <3> QED BY <1>1, <1>3, <2>2, <3>2
    <2> QED BY <2>1, <2>2
<1>6. ASSUME NEW n \in 1 .. N
      PROVE  ValueAfter(order, n, initial, key) =
                IF order[n].kind = "write" /\ order[n].key = key
                  THEN order[n].value ELSE ValueAfter(order, n - 1, initial, key)
    <2>1. CASE order[n].kind = "write" /\ order[n].key = key
        <3>1. n \in writes(n)
            BY <2>1
        <3>2. Max(writes(n)) \in writes(n) /\ n <= Max(writes(n))
            BY <1>2, <3>1
        <3>3. Max(writes(n)) \in 1 .. n
            BY <3>2
        <3>4. Max(writes(n)) = n
            BY <3>2, <3>3
        <3> HIDE DEF writes
        <3> QED BY <1>1, <2>1, <3>1, <3>4
    <2>2. CASE ~(order[n].kind = "write" /\ order[n].key = key)
        <3>1. writes(n) = writes(n - 1)
            <4>1. 1 .. n = 1 .. n - 1 \cup {n}
                OBVIOUS
            <4> QED BY <2>2, <4>1
        <3> HIDE DEF writes
        <3> QED BY <1>1, <2>2, <3>1
    <2> QED BY <2>1, <2>2
<1> QED BY <1>5, <1>6

\* A linearization of all, cut down to one key: the search can follow it to the end.
LEMMA EachKeyIsAlive ==
    ASSUME NEW S, Usable(S), IsLinearizable(S), NEW key \in Keys
    PROVE  Alive(OfKey(S, key), Undetermined, {})
<1> DEFINE K == OfKey(S, key)
           maybe == {op \in S : op.maybe}
<1>1. PICK applied \in SUBSET maybe, initial \in [Keys -> Values(S)] :
         \E order \in Orders((S \ maybe) \cup applied) : Explains(order, initial)
    BY DEF IsLinearizable, Values
<1> DEFINE T == (S \ maybe) \cup applied
<1>2. PICK order \in Orders(T) : Explains(order, initial)
    BY <1>1
<1> DEFINE N == Cardinality(T)
<1>3. T \subseteq S /\ IsFiniteSet(T) /\ N \in Nat
    <2>1. T \subseteq S
        BY <1>1
    <2> HIDE DEF T
    <2> QED BY <2>1, FS_Subset, FS_CardinalityType DEF Usable
<1>4. order \in [1 .. N -> T] /\ \A i, j \in 1 .. N : i # j => order[i] # order[j]
    <2> HIDE DEF T
    <2> QED BY <1>2 DEF Orders
<1>5. \A op \in T : \E i \in 1 .. N : order[i] = op
    <2> HIDE DEF T
    <2>1. order \in Injection(1 .. N, T)
        BY <1>4 DEF Injection, IsInjective
    <2>2. Cardinality(1 .. N) = N
        BY <1>3, FS_Interval
    <2>3. order \in Surjection(1 .. N, T)
        BY <1>3, <2>1, <2>2, FS_Injection
    <2> QED BY <2>3 DEF Surjection
<1>6. \A op \in S \ T : op.maybe
    OBVIOUS
<1> HIDE DEF T, N, maybe
<1> DEFINE V(n) == ValueAfter(order, n, initial, key)
           L(n) == {op \in K : \E i \in 1 .. n : order[i] = op}
           W(n) == IF L(n) = {} THEN Undetermined ELSE V(n)
           A == {<<W(n), L(n)>> : n \in 0 .. N} \cup {<<W(N), L(N) \cup Z>> : Z \in SUBSET (K \ L(N))}
<1>7. order \in [1 .. N -> S] /\ K \subseteq S /\ Usable(K)
    BY <1>3, <1>4, LoadedParts DEF OfKey
<1>8. /\ \A n \in 0 .. N : V(n) \in Nat
      /\ \A n \in 1 .. N : V(n) = IF order[n].kind = "write" /\ order[n].key = key
                                    THEN order[n].value ELSE V(n - 1)
    BY <1>3, <1>7, ValueOf
<1>9. \A n \in 1 .. N : L(n) = IF order[n].key = key THEN L(n - 1) \cup {order[n]} ELSE L(n - 1)
    <2> TAKE n \in 1 .. N
    <2>1. 1 .. n = 1 .. n - 1 \cup {n}
        OBVIOUS
    <2>2. order[n] \in S
        BY <1>7
    <2> QED BY <2>1, <2>2 DEF OfKey
<1>10. \A n \in 0 .. N : W(n) \in Registers /\ L(n) \subseteq K
    BY <1>8 DEF Registers
<1>11. L(0) = {} /\ W(0) = Undetermined
    OBVIOUS
<1>12. \A op \in K \ L(N) : op.maybe
    <2> TAKE op \in K \ L(N)
    <2>1. op \notin T
        BY <1>5
    <2> QED BY <1>6, <1>7, <2>1
<1>13. \A op \in K : /\ op \in Operations /\ op.value \in Nat /\ op.kind \in {"read", "write"}
                     /\ op.maybe => op.kind = "write" /\ op.openAtEnd
                     /\ ~Real(op, op)
    BY <1>7 DEF Usable, Operations, Real
<1> HIDE DEF V, K
\* The operation after the first n, when it is one of this key.
<1>14. ASSUME NEW n \in 0 .. N - 1, order[n + 1].key = key
       PROVE  /\ Free(K, L(n), order[n + 1])
              /\ W(n + 1) \in Outcomes(W(n), order[n + 1])
              /\ L(n + 1) = L(n) \cup {order[n + 1]}
    <2> DEFINE op == order[n + 1]
    <2>1. n + 1 \in 1 .. N /\ n + 1 - 1 = n /\ n \in 0 .. N
        BY <1>3
    <2>2. op \in K
        BY <1>7, <1>14, <2>1 DEF OfKey, K
    <2>3. L(n + 1) = L(n) \cup {op}
        BY <1>9, <1>14, <2>1
    <2>4. op \notin L(n)
        BY <1>3, <1>4, <2>1
    <2>5. ASSUME NEW d \in K \ L(n), Real(d, op)
          PROVE  FALSE
        <3>1. CASE d \in L(N)
            <4>1. PICK j \in 1 .. N : order[j] = d
                BY <3>1
            <4>2. j \notin 1 .. n
                BY <2>5, <4>1
            <4>3. j # n + 1
                BY <1>13, <2>2, <2>5, <4>1
            <4>4. n + 1 < j
                BY <1>3, <4>2, <4>3
            <4>5. DOMAIN order = 1 .. N
                BY <1>4
            <4> QED BY <1>2, <2>1, <2>5, <4>1, <4>4, <4>5 DEF Explains
        <3>2. CASE d \notin L(N)
            BY <1>12, <1>13, <2>5, <3>2 DEF Real
        <3> QED BY <3>1, <3>2
    <2>6. W(n + 1) = V(n + 1)
        BY <2>3
    <2>7. CASE op.kind = "write"
        <3>1. V(n + 1) = op.value
            BY <1>8, <1>14, <2>1, <2>7
        <3>2. op.value \in Outcomes(W(n), op)
            BY <1>10, <1>13, <2>1, <2>2, <2>7, AlternativesAre
        <3> HIDE DEF W, L
        <3> QED BY <2>2, <2>3, <2>4, <2>5, <2>6, <3>1, <3>2 DEF Free
    <2>8. CASE op.kind = "read"
        <3>1. V(n + 1) = V(n)
            BY <1>8, <2>1, <2>8
        <3>2. op.value = V(n + 1)
            <4>1. DOMAIN order = 1 .. N
                BY <1>4
            <4> QED BY <1>2, <1>14, <2>1, <2>8, <4>1 DEF Explains, V
        <3>3. W(n) \in {Undetermined, op.value}
            BY <3>1, <3>2
        <3>4. Outcomes(W(n), op) = {op.value}
            <4> HIDE DEF W, op
            <4> QED BY <1>10, <1>13, <2>1, <2>2, <2>8, <3>3, AlternativesAre
        <3> HIDE DEF W, L
        <3> QED BY <2>2, <2>3, <2>4, <2>5, <2>6, <3>2, <3>4 DEF Free
    <2> QED BY <1>13, <2>2, <2>7, <2>8
\* Those that may not have executed come last, without effect.
<1>15. ASSUME NEW Z \in SUBSET (K \ L(N)), L(N) \cup Z # K
       PROVE  \E op \in K : \E w \in Outcomes(W(N), op) :
                 Free(K, L(N) \cup Z, op) /\ <<w, (L(N) \cup Z) \cup {op}>> \in A
    <2>1. N \in 0 .. N
        BY <1>3
    <2>2. PICK op \in K : op \notin L(N) \cup Z
        BY <1>10, <1>15, <2>1
    <2>3. op.maybe /\ op.kind = "write"
        BY <1>12, <1>13, <2>2
    <2>4. W(N) \in Outcomes(W(N), op)
        <3>1. W(N) \in Registers
            <4> HIDE DEF W, L
            <4> QED BY <1>10, <2>1
        <3> HIDE DEF W, L
        <3> QED BY <1>13, <2>2, <2>3, <3>1, AlternativesAre
    <2>5. Free(K, L(N) \cup Z, op)
        BY <1>12, <1>13, <2>2 DEF Free, Real
    <2>6. Z \cup {op} \in SUBSET (K \ L(N)) /\ (L(N) \cup Z) \cup {op} = L(N) \cup (Z \cup {op})
        BY <2>2
    <2>7. <<W(N), (L(N) \cup Z) \cup {op}>> \in A
        <3> HIDE DEF W, L
        <3> QED BY <2>6
    <2> QED BY <2>4, <2>5, <2>7
<1>16. Closed(K, A)
    <2> SUFFICES ASSUME NEW c \in A, c[2] # K
                 PROVE  \E op \in K : \E w \in Outcomes(c[1], op) :
                           Free(K, c[2], op) /\ <<w, c[2] \cup {op}>> \in A
        BY DEF Closed
    <2>1. ASSUME NEW Z \in SUBSET (K \ L(N)), c = <<W(N), L(N) \cup Z>>
          PROVE  \E op \in K : \E w \in Outcomes(c[1], op) :
                    Free(K, c[2], op) /\ <<w, c[2] \cup {op}>> \in A
        <3>1. c[1] = W(N) /\ c[2] = L(N) \cup Z
            BY <2>1
        <3> HIDE DEF A, W, L
        <3> QED BY <1>15, <3>1
    <2>2. ASSUME \E n \in 0 .. N : c = <<W(n), L(n)>>
          PROVE  \E op \in K : \E w \in Outcomes(c[1], op) :
                    Free(K, c[2], op) /\ <<w, c[2] \cup {op}>> \in A
        <3> DEFINE M == {n \in 0 .. N : c = <<W(n), L(n)>>}
        <3>1. M \subseteq Nat /\ IsFiniteSet(M) /\ M # {}
            <4>1. IsFiniteSet(0 .. N)
                BY <1>3, FS_Interval
            <4> HIDE DEF W, L
            <4>2. M \in SUBSET (0 .. N) /\ M # {}
                BY <2>2
            <4> HIDE DEF M
            <4>3. M \subseteq Nat
                BY <1>3, <4>2
            <4>4. IsFiniteSet(M)
                BY <4>1, <4>2, FS_Subset
            <4> QED BY <4>2, <4>3, <4>4
        <3> DEFINE n == Max(M)
        <3>2. n \in M /\ \A m \in M : m <= n
            <4> HIDE DEF M
            <4> QED BY <3>1, GreatestNumber
        <3>3. n \in 0 .. N /\ c = <<W(n), L(n)>>
            <4> HIDE DEF n, W, L
            <4> QED BY <3>2
        <3> HIDE DEF n
        <3>4. c[1] = W(n) /\ c[2] = L(n)
            <4> HIDE DEF W, L
            <4> QED BY <3>3
        <3>5. CASE n = N
            <4>1. {} \in SUBSET (K \ L(N)) /\ c = <<W(N), L(N) \cup {}>>
                BY <3>3, <3>5
            <4> HIDE DEF A, W, L
            <4> QED BY <2>1, <4>1
        <3>6. CASE n # N
            <4>1. n \in 0 .. N - 1 /\ n + 1 \in 1 .. N /\ n + 1 \in 0 .. N /\ n + 1 - 1 = n
                BY <1>3, <3>3, <3>6
            <4>2. order[n + 1].key = key
                <5> SUFFICES ASSUME order[n + 1].key # key PROVE FALSE
                    OBVIOUS
                <5>1. L(n + 1) = L(n)
                    <6> HIDE DEF L
                    <6> QED BY <1>9, <4>1
                <5>2. V(n + 1) = V(n)
                    BY <1>8, <4>1
                <5> HIDE DEF L
                <5>3. W(n + 1) = W(n)
                    BY <5>1, <5>2
                <5> HIDE DEF W
                <5>4. n + 1 \in M
                    BY <3>3, <4>1, <5>1, <5>3
                <5> QED BY <3>2, <3>3, <4>1, <5>4
            <4> DEFINE op == order[n + 1]
            <4>3. Free(K, L(n), op) /\ W(n + 1) \in Outcomes(W(n), op) /\ L(n + 1) = L(n) \cup {op}
                <5> HIDE DEF W, L
                <5> QED BY <1>14, <4>1, <4>2
            <4>4. <<W(n + 1), L(n + 1)>> \in A
                <5> HIDE DEF W, L
                <5> QED BY <4>1
            <4>5. op \in K
                BY <4>3 DEF Free
            <4> HIDE DEF A, W, L, op
            <4> QED BY <3>4, <4>3, <4>4, <4>5
        <3> QED BY <3>5, <3>6
    <2> HIDE DEF W, L
    <2>3. (\E n \in 0 .. N : c = <<W(n), L(n)>>) \/ (\E Z \in SUBSET (K \ L(N)) : c = <<W(N), L(N) \cup Z>>)
        OBVIOUS
    <2> HIDE DEF A
    <2> QED BY <2>1, <2>2, <2>3
<1>17. A \in SUBSET (Registers \X SUBSET K)
    <2>1. N \in 0 .. N
        BY <1>3
    <2>2. \A n \in 0 .. N : <<W(n), L(n)>> \in Registers \X SUBSET K
        <3> HIDE DEF W, L
        <3> QED BY <1>10
    <2>3. \A Z \in SUBSET (K \ L(N)) : <<W(N), L(N) \cup Z>> \in Registers \X SUBSET K
        <3> TAKE Z \in SUBSET (K \ L(N))
        <3>1. L(N) \cup Z \in SUBSET K /\ W(N) \in Registers
            <4> HIDE DEF W, L
            <4> QED BY <1>10, <2>1
        <3> HIDE DEF W, L
        <3> QED BY <3>1
    <2> HIDE DEF W, L
    <2> QED BY <2>2, <2>3
<1>18. <<Undetermined, {}>> \in A
    <2>1. 0 \in 0 .. N /\ <<W(0), L(0)>> = <<Undetermined, {}>>
        BY <1>3, <1>11
    <2> HIDE DEF W, L
    <2> QED BY <2>1
<1> HIDE DEF A
<1>19. Alive(K, Undetermined, {})
    BY <1>16, <1>17, <1>18 DEF Alive
<1> QED BY <1>19 DEF K

\* The i-th operation of the chain is a write that took effect.
Effective(c, v, i) == c[i].kind = "write" /\ v[i + 1] = c[i].value

\* What the register holds before the j-th operation.
HeldAt(c, v, j) ==
    /\ \A q \in 1 .. j - 1 :
          Effective(c, v, q) /\ (\A i \in q + 1 .. j - 1 : ~Effective(c, v, i)) => v[j] = c[q].value
    /\ (\A q \in 1 .. j - 1 : ~Effective(c, v, q)) =>
          \A i \in 1 .. j - 1 : c[i].kind = "read" => v[j] = c[i].value

\* What a chain is made of, place by place.
LEMMA ChainParts ==
    ASSUME NEW K, Usable(K), NEW n, NEW c, NEW v, ChainOf(K, n, c, v)
    PROVE  /\ n \in Nat
           /\ \A j \in 1 .. n :
                 /\ c[j] \in K /\ c[j].value \in Nat /\ c[j].kind \in {"read", "write"}
                 /\ v[j] \in Registers /\ v[j + 1] \in Registers
                 /\ c[j].kind = "write" => v[j + 1] \in {c[j].value, v[j]}
                 /\ c[j].kind = "write" /\ ~c[j].maybe => Effective(c, v, j)
                 /\ c[j].kind = "read" => v[j] \in {Undetermined, c[j].value} /\ v[j + 1] = c[j].value
                 /\ \A i \in 1 .. j - 1 : c[i] # c[j] /\ ~Real(c[j], c[i])
           /\ \A op \in K : \E j \in 1 .. n : c[j] = op
<1>1. n \in Nat /\ c \in [1 .. n -> K] /\ v \in [1 .. n + 1 -> Registers] /\ K \in SUBSET Operations
    BY DEF ChainOf, Usable
<1>2. ASSUME NEW j \in 1 .. n
      PROVE  /\ c[j] \in K /\ c[j].value \in Nat /\ c[j].kind \in {"read", "write"}
             /\ v[j] \in Registers /\ v[j + 1] \in Registers
             /\ c[j].kind = "write" => v[j + 1] \in {c[j].value, v[j]}
             /\ c[j].kind = "write" /\ ~c[j].maybe => Effective(c, v, j)
             /\ c[j].kind = "read" => v[j] \in {Undetermined, c[j].value} /\ v[j + 1] = c[j].value
             /\ \A i \in 1 .. j - 1 : c[i] # c[j] /\ ~Real(c[j], c[i])
    <2>1. c[j] \in K /\ c[j] \in Operations /\ v[j] \in Registers /\ v[j + 1] \in Registers
        BY <1>1
    <2>2. Free(K, {c[i] : i \in 1 .. j - 1}, c[j]) /\ v[j + 1] \in Outcomes(v[j], c[j])
        BY DEF ChainOf
    <2>3. c[j].value \in Nat /\ c[j].kind \in {"read", "write"}
        BY <2>1 DEF Operations
    <2>4. /\ Outcomes(v[j], c[j]) \subseteq {c[j].value, v[j]}
          /\ c[j].kind = "read" =>
                Outcomes(v[j], c[j]) = IF v[j] \in {Undetermined, c[j].value} THEN {c[j].value} ELSE {}
          /\ c[j].kind = "write" /\ ~c[j].maybe => Outcomes(v[j], c[j]) = {c[j].value}
        BY <2>1, AlternativesAre
    <2>5. ASSUME NEW i \in 1 .. j - 1
          PROVE  c[i] # c[j] /\ ~Real(c[j], c[i])
        <3>5. i \in 1 .. n
            BY <1>1
        <3>1. Free(K, {c[h] : h \in 1 .. i - 1}, c[i])
            BY <3>5 DEF ChainOf
        <3>2. c[i] # c[j]
            BY <2>2 DEF Free
        <3>3. ASSUME NEW h \in 1 .. i - 1
              PROVE  c[h] # c[j]
            <4>1. h \in 1 .. j - 1
                BY <1>1
            <4> QED BY <2>2, <4>1 DEF Free
        <3>4. c[j] \in K \ {c[h] : h \in 1 .. i - 1}
            BY <2>1, <3>3
        <3> QED BY <3>1, <3>2, <3>4 DEF Free
    <2> QED BY <2>1, <2>2, <2>3, <2>4, <2>5 DEF Effective
<1>3. \A op \in K : \E j \in 1 .. n : c[j] = op
    BY DEF ChainOf
<1> QED BY <1>1, <1>2, <1>3

\* The register at a place of the chain is what the writes before it left.
LEMMA ChainHolds ==
    ASSUME NEW K, Usable(K), NEW n, NEW c, NEW v, ChainOf(K, n, c, v)
    PROVE  \A j \in 1 .. n : HeldAt(c, v, j)
<1>1. n \in Nat
    BY ChainParts
<1> DEFINE T == {j \in 1 .. n : ~HeldAt(c, v, j)}
<1> SUFFICES ASSUME T # {} PROVE FALSE
    OBVIOUS
<1>2. PICK m \in T : \A y \in T : m <= y
    <2>1. T \subseteq Nat
        BY <1>1
    <2> HIDE DEF T
    <2> QED BY <2>1, LeastNumber
<1>3. m \in 1 .. n /\ ~HeldAt(c, v, m)
    BY <1>2
<1>4. m # 1
    <2> SUFFICES ASSUME m = 1 PROVE FALSE
        OBVIOUS
    <2>1. 1 .. m - 1 = {}
        OBVIOUS
    <2> QED BY <1>3, <2>1 DEF HeldAt
<1> DEFINE j == m - 1
<1>5. j \in 1 .. n /\ j + 1 = m /\ m - 1 = j /\ 1 .. j = 1 .. j - 1 \cup {j}
    BY <1>1, <1>3, <1>4
<1>6. HeldAt(c, v, j)
    BY <1>2, <1>5
<1> HIDE DEF T, j
<1>7. /\ c[j].value \in Nat /\ c[j].kind \in {"read", "write"} /\ v[j] \in Registers /\ v[m] \in Registers
      /\ c[j].kind = "write" => v[m] \in {c[j].value, v[j]}
      /\ c[j].kind = "read" => v[j] \in {Undetermined, c[j].value} /\ v[m] = c[j].value
      /\ Effective(c, v, j) <=> c[j].kind = "write" /\ v[m] = c[j].value
    BY <1>5, ChainParts DEF Effective
<1>8. \A q \in 1 .. j : c[q].value \in Nat /\ c[q].value # Undetermined
    <2> TAKE q \in 1 .. j
    <2>1. q \in 1 .. n
        BY <1>1, <1>5
    <2> QED BY <2>1, ChainParts DEF Undetermined
<1>9. CASE Effective(c, v, j)
    <2>1. ASSUME NEW q \in 1 .. m - 1, Effective(c, v, q), \A i \in q + 1 .. m - 1 : ~Effective(c, v, i)
          PROVE  v[m] = c[q].value
        <3>1. q = j
            BY <1>5, <1>9, <2>1
        <3> QED BY <1>7, <1>9, <3>1
    <2>2. ~\A q \in 1 .. m - 1 : ~Effective(c, v, q)
        BY <1>5, <1>9
    <2> QED BY <1>3, <2>1, <2>2 DEF HeldAt
<1>10. CASE ~Effective(c, v, j)
    <2>1. ASSUME NEW w \in Nat, v[j] = w, w # Undetermined
          PROVE  v[m] = w
        BY <1>7, <1>10, <2>1
    <2>2. ASSUME NEW q \in 1 .. m - 1, Effective(c, v, q), \A i \in q + 1 .. m - 1 : ~Effective(c, v, i)
          PROVE  v[m] = c[q].value
        <3>1. q \in 1 .. j - 1
            BY <1>5, <1>10, <2>2
        <3>2. \A i \in q + 1 .. j - 1 : ~Effective(c, v, i)
            <4> TAKE i \in q + 1 .. j - 1
            <4>1. i \in q + 1 .. m - 1
                BY <1>5
            <4> QED BY <2>2, <4>1
        <3>3. v[j] = c[q].value
            BY <1>6, <2>2, <3>1, <3>2 DEF HeldAt
        <3> QED BY <1>5, <1>8, <2>1, <3>3
    <2>3. ASSUME \A q \in 1 .. m - 1 : ~Effective(c, v, q), NEW i \in 1 .. m - 1, c[i].kind = "read"
          PROVE  v[m] = c[i].value
        <3>1. CASE i = j
            BY <1>7, <2>3, <3>1
        <3>2. CASE i \in 1 .. j - 1
            <4>1. \A q \in 1 .. j - 1 : ~Effective(c, v, q)
                BY <1>5, <2>3
            <4>2. v[j] = c[i].value
                BY <1>6, <2>3, <3>2, <4>1 DEF HeldAt
            <4> QED BY <1>5, <1>8, <2>1, <4>2
        <3> QED BY <1>5, <3>1, <3>2
    <2> QED BY <1>3, <2>2, <2>3 DEF HeldAt
<1> QED BY <1>9, <1>10

\* A read nothing was written before.
ReadsFirst(n, c, v, p) ==
    p \in 1 .. n /\ c[p].kind = "read" /\ \A q \in 1 .. p - 1 : ~Effective(c, v, q)

\* What the reads of a chain return.
LEMMA ChainReads ==
    ASSUME NEW K, Usable(K), NEW n, NEW c, NEW v, ChainOf(K, n, c, v)
    PROVE  /\ \A p, r : ReadsFirst(n, c, v, p) /\ ReadsFirst(n, c, v, r) => c[p].value = c[r].value
           /\ \A p \in 1 .. n : \A q \in 1 .. p - 1 :
                 /\ c[p].kind = "read" /\ Effective(c, v, q)
                 /\ \A i \in q + 1 .. p - 1 : ~Effective(c, v, i)
                 => c[p].value = c[q].value
<1>1. n \in Nat
    BY ChainParts
<1>2. ASSUME NEW p \in 1 .. n, c[p].kind = "read", NEW i \in 1 .. n, v[p] = c[i].value
      PROVE  c[p].value = c[i].value
    <2>1. c[i].value \in Nat /\ v[p] \in {Undetermined, c[p].value}
        BY <1>2, ChainParts
    <2> QED BY <1>2, <2>1 DEF Undetermined
<1>3. ASSUME NEW p, NEW r, ReadsFirst(n, c, v, p), ReadsFirst(n, c, v, r), r < p
      PROVE  c[p].value = c[r].value
    <2>1. r \in 1 .. p - 1 /\ p \in 1 .. n /\ r \in 1 .. n /\ c[p].kind = "read" /\ c[r].kind = "read"
        BY <1>1, <1>3 DEF ReadsFirst
    <2>2. v[p] = c[r].value
        BY <1>3, <2>1, ChainHolds DEF HeldAt, ReadsFirst
    <2> QED BY <1>2, <2>1, <2>2
<1>4. ASSUME NEW p, NEW r, ReadsFirst(n, c, v, p), ReadsFirst(n, c, v, r)
      PROVE  c[p].value = c[r].value
    <2>1. p < r \/ r < p \/ p = r
        BY <1>1, <1>4 DEF ReadsFirst
    <2> QED BY <1>3, <1>4, <2>1
<1>5. ASSUME NEW p \in 1 .. n, NEW q \in 1 .. p - 1, c[p].kind = "read", Effective(c, v, q),
             \A i \in q + 1 .. p - 1 : ~Effective(c, v, i)
      PROVE  c[p].value = c[q].value
    <2>1. v[p] = c[q].value
        BY <1>5, ChainHolds DEF HeldAt
    <2>2. q \in 1 .. n
        BY <1>1
    <2> QED BY <1>2, <1>5, <2>1, <2>2
<1> QED BY <1>4, <1>5

StartOf(op) == IF op.openAtStart THEN 0 ELSE op.from

\* The latest start among the operations placed up to the j-th.
Reached(c, j) == Max({StartOf(c[i]) : i \in 1 .. j})

\* In the order of what was reached, each operation comes after those that ended
\* before it began.
LEMMA ReachedIs ==
    ASSUME NEW K, Usable(K), NEW n, NEW c, NEW v, ChainOf(K, n, c, v)
    PROVE  /\ \A j \in 1 .. n : Reached(c, j) \in Nat /\ StartOf(c[j]) <= Reached(c, j)
           /\ \A j \in 1 .. n : \A i \in 1 .. j : Reached(c, i) <= Reached(c, j)
           /\ \A j \in 1 .. n : ~c[j].openAtEnd => Reached(c, j) <= c[j].to
<1> DEFINE starts(j) == {StartOf(c[i]) : i \in 1 .. j}
<1>0. n \in Nat
    BY ChainParts
<1>1. \A j \in 1 .. n : /\ c[j] \in K /\ StartOf(c[j]) \in Nat /\ c[j].to \in Nat /\ c[j].from \in Nat
                        /\ c[j].openAtStart \in BOOLEAN /\ c[j].openAtEnd \in BOOLEAN
    <2> TAKE j \in 1 .. n
    <2>1. c[j] \in K
        BY ChainParts
    <2>2. c[j] \in Operations
        BY <2>1 DEF Usable
    <2> QED BY <2>1, <2>2 DEF Operations, StartOf
<1>2. ASSUME NEW j \in 1 .. n
      PROVE  Reached(c, j) \in starts(j) /\ \A y \in starts(j) : y <= Reached(c, j)
    <2>1. starts(j) \subseteq Nat
        BY <1>0, <1>1
    <2>2. IsFiniteSet(starts(j))
        <3>1. IsFiniteSet(1 .. j)
            BY FS_Interval
        <3> DEFINE g == [i \in 1 .. j |-> StartOf(c[i])]
        <3>2. g \in Surjection(1 .. j, starts(j))
            <4>1. g \in [1 .. j -> starts(j)] /\ \A y \in starts(j) : \E i \in 1 .. j : g[i] = y
                OBVIOUS
            <4> HIDE DEF g, starts
            <4> QED BY <4>1 DEF Surjection
        <3> HIDE DEF g, starts
        <3> QED BY <3>1, <3>2, FS_Surjection
    <2>3. starts(j) # {}
        <3>1. j \in 1 .. j
            OBVIOUS
        <3> QED BY <3>1
    <2> HIDE DEF starts
    <2>4. Max(starts(j)) \in starts(j) /\ \A y \in starts(j) : y <= Max(starts(j))
        BY <2>1, <2>2, <2>3, GreatestNumber
    <2> QED BY <2>4 DEF Reached, starts
<1>3. ASSUME NEW j \in 1 .. n
      PROVE  Reached(c, j) \in Nat /\ \A i \in 1 .. j : StartOf(c[i]) <= Reached(c, j)
    <2>1. starts(j) \subseteq Nat
        BY <1>0, <1>1
    <2>2. \A i \in 1 .. j : StartOf(c[i]) \in starts(j)
        OBVIOUS
    <2> HIDE DEF starts
    <2> QED BY <1>2, <2>1, <2>2
<1>4. ASSUME NEW j \in 1 .. n, NEW i \in 1 .. j
      PROVE  Reached(c, i) <= Reached(c, j)
    <2>1. i \in 1 .. n
        BY <1>0
    <2>2. PICK h \in 1 .. i : Reached(c, i) = StartOf(c[h])
        BY <1>2, <2>1
    <2>3. h \in 1 .. j
        OBVIOUS
    <2> QED BY <1>3, <2>2, <2>3
<1>5. ASSUME NEW j \in 1 .. n, ~c[j].openAtEnd
      PROVE  Reached(c, j) <= c[j].to
    <2>1. PICK h \in 1 .. j : Reached(c, j) = StartOf(c[h])
        BY <1>2
    <2>2. h \in 1 .. n
        BY <1>0
    <2>3. CASE h = j
        <3>1. ~c[j].openAtStart => c[j].from <= c[j].to
            BY <1>1, <1>5 DEF Usable
        <3> QED BY <1>1, <2>1, <2>3, <3>1 DEF StartOf
    <2>4. CASE h \in 1 .. j - 1
        <3>1. ~Real(c[j], c[h])
            BY <2>4, ChainParts
        <3> QED BY <1>1, <1>5, <2>1, <2>2, <3>1 DEF Real, StartOf
    <2> QED BY <2>3, <2>4
<1>6. \A j \in 1 .. n : StartOf(c[j]) <= Reached(c, j)
    <2> TAKE j \in 1 .. n
    <2>1. j \in 1 .. j
        OBVIOUS
    <2> QED BY <1>3, <2>1
<1> QED BY <1>3, <1>4, <1>5, <1>6

\* The last of the writes of T to the key before op, in the order R.
LastBefore(T, R, w, op) ==
    /\ w \in T /\ w.kind = "write" /\ w.key = op.key /\ <<w, op>> \in R
    /\ \A u \in T : u.kind = "write" /\ u.key = op.key /\ <<u, op>> \in R => u = w \/ <<u, w>> \in R

\* What an order of operations has to satisfy to explain them.
LEMMA OrderExplains ==
    ASSUME NEW S, Usable(S), \A op \in S : op.key \in Keys,
           NEW T \in SUBSET S, \A op \in S \ T : op.maybe,
           NEW R, InOrder(T, R),
           \A x, y \in T : Real(x, y) => <<x, y>> \in R,
           NEW start,
           \A op \in T : op.kind = "read" =>
              \/ \E w \in T : LastBefore(T, R, w, op) /\ w.value = op.value
              \/ /\ \A u \in T : ~(u.kind = "write" /\ u.key = op.key /\ <<u, op>> \in R)
                 /\ op.value = start[op.key]
    PROVE  IsLinearizable(S)
<1> DEFINE maybe == {op \in S : op.maybe}
           applied == {op \in T : op.maybe}
           N == Cardinality(T)
           initial == [key \in Keys |-> IF start[key] \in Values(S) THEN start[key] ELSE Null]
<1>1. T = (S \ maybe) \cup applied /\ applied \in SUBSET maybe
    OBVIOUS
<1>2. IsFiniteSet(T) /\ N \in Nat
    BY FS_Subset, FS_CardinalityType DEF Usable
<1>3. PICK order : Lists(order, T, R)
    BY <1>2, Enumerated
<1>4. /\ order \in [1 .. N -> T] /\ DOMAIN order = 1 .. N
      /\ \A op \in T : \E i \in 1 .. N : order[i] = op
      /\ \A i, j \in 1 .. N : i < j <=> <<order[i], order[j]>> \in R
    BY <1>3 DEF Lists
<1>5. initial \in [Keys -> Values(S)]
    BY DEF Values
<1>6. \A op \in S : start[op.key] = op.value => initial[op.key] = op.value
    BY DEF Values
<1> HIDE DEF N, initial, maybe, applied
<1>7. order \in Orders(T)
    <2>1. \A i, j \in 1 .. N : i # j => order[i] # order[j]
        <3> TAKE i, j \in 1 .. N
        <3> SUFFICES ASSUME i # j, order[i] = order[j] PROVE FALSE
            OBVIOUS
        <3>1. i < j \/ j < i
            BY <1>2
        <3>2. order[i] \in T
            BY <1>4
        <3> QED BY <1>4, <3>1, <3>2 DEF InOrder
    <2> QED BY <1>4, <2>1 DEF Orders, N
<1>8. ASSUME NEW i \in 1 .. N, order[i].kind = "read"
      PROVE  order[i].value = ValueAfter(order, i, initial, order[i].key)
    <2> DEFINE op == order[i]
               writes == {m \in 1 .. i : order[m].kind = "write" /\ order[m].key = op.key}
    <2>1. op \in T /\ op \in S /\ op.kind = "read"
        BY <1>4, <1>8
    <2>2. ValueAfter(order, i, initial, op.key) = IF writes = {} THEN initial[op.key] ELSE order[Max(writes)].value
        BY DEF ValueAfter
    <2>3. \A m \in writes : /\ m \in 1 .. N /\ m # i /\ order[m] \in T /\ <<order[m], op>> \in R
                            /\ order[m].kind = "write" /\ order[m].key = op.key
        <3> TAKE m \in writes
        <3>1. m \in 1 .. N /\ m # i /\ m \in 1 .. i /\ order[m].kind = "write" /\ order[m].key = op.key
            BY <1>2, <1>8
        <3>2. m < i
            BY <1>2, <3>1
        <3> QED BY <1>4, <3>1, <3>2
    <2>4. \A u \in T : u.kind = "write" /\ u.key = op.key /\ <<u, op>> \in R => \E m \in writes : order[m] = u
        <3> TAKE u \in T
        <3> SUFFICES ASSUME u.kind = "write", u.key = op.key, <<u, op>> \in R PROVE \E m \in writes : order[m] = u
            OBVIOUS
        <3>1. PICK m \in 1 .. N : order[m] = u
            BY <1>4
        <3>2. m < i
            BY <1>4, <3>1
        <3>3. m \in writes
            BY <1>2, <3>1, <3>2
        <3> QED BY <3>1, <3>3
    <2>5. ASSUME writes # {}
          PROVE  Max(writes) \in writes /\ \A x \in writes : x <= Max(writes)
        <3>1. IsFiniteSet(writes)
            <4>1. IsFiniteSet(1 .. i)
                BY FS_Interval
            <4>2. writes \subseteq 1 .. i
                OBVIOUS
            <4> HIDE DEF writes
            <4> QED BY <4>1, <4>2, FS_Subset
        <3>2. writes \subseteq Nat
            OBVIOUS
        <3> HIDE DEF writes
        <3> QED BY <2>5, <3>1, <3>2, GreatestNumber
    <2>6. CASE \E w \in T : LastBefore(T, R, w, op) /\ w.value = op.value
        <3>1. PICK w \in T : LastBefore(T, R, w, op) /\ w.value = op.value
            BY <2>6
        <3> HIDE DEF writes, op
        <3>2. PICK m \in writes : order[m] = w
            BY <2>4, <3>1 DEF LastBefore
        <3> DEFINE x == Max(writes)
        <3>3. x \in writes /\ m <= x
            BY <2>5, <3>2
        <3> HIDE DEF x
        <3>4. order[x] = w \/ <<order[x], w>> \in R
            BY <2>3, <3>1, <3>3 DEF LastBefore
        <3>5. order[x] = w
            <4> SUFFICES ASSUME <<order[x], w>> \in R PROVE FALSE
                BY <3>4
            <4>1. x < m
                BY <1>4, <2>3, <3>2, <3>3
            <4>2. x \in 1 .. N /\ m \in 1 .. N
                BY <2>3, <3>2, <3>3
            <4> QED BY <1>2, <3>3, <4>1, <4>2
        <3> QED BY <2>2, <3>1, <3>3, <3>5 DEF x, op
    <2>7. CASE /\ \A u \in T : ~(u.kind = "write" /\ u.key = op.key /\ <<u, op>> \in R)
               /\ op.value = start[op.key]
        <3>1. writes = {}
            <4> HIDE DEF writes, op
            <4> QED BY <2>3, <2>7
        <3>2. initial[op.key] = op.value
            BY <1>6, <2>1, <2>7
        <3> QED BY <2>2, <3>1, <3>2
    <2> QED BY <2>1, <2>6, <2>7
<1>9. ASSUME NEW i \in 1 .. N, NEW j \in 1 .. N, i < j
      PROVE  ~Real(order[j], order[i])
    <2>1. order[i] \in T /\ order[j] \in T /\ <<order[i], order[j]>> \in R
        BY <1>4, <1>9
    <2> QED BY <2>1 DEF InOrder
<1>10. Explains(order, initial)
    BY <1>4, <1>8, <1>9 DEF Explains
<1>11. \E o \in Orders((S \ maybe) \cup applied) : Explains(o, initial)
    BY <1>1, <1>7, <1>10
<1>12. \E a \in SUBSET maybe, ini \in [Keys -> {op.value : op \in S} \cup {Null}] :
          \E o \in Orders((S \ maybe) \cup a) : Explains(o, ini)
    BY <1>1, <1>5, <1>11 DEF Values
<1> QED BY <1>12 DEF IsLinearizable, maybe

\* The chains of the keys interleave into one order of all.
LEMMA ChainsInterleave ==
    ASSUME NEW S, Usable(S), \A op \in S : op.key \in Keys,
           \A key \in Keys : Chained(OfKey(S, key))
    PROVE  IsLinearizable(S)
<1> DEFINE chain(key) == CHOOSE t : ChainOf(OfKey(S, key), t[1], t[2], t[3])
           n(key) == chain(key)[1]
           c(key) == chain(key)[2]
           v(key) == chain(key)[3]
<1>1. \A key \in Keys : ChainOf(OfKey(S, key), n(key), c(key), v(key)) /\ Usable(OfKey(S, key))
    <2> TAKE key \in Keys
    <2>1. PICK n0, c0, v0 : ChainOf(OfKey(S, key), n0, c0, v0)
        BY DEF Chained
    <2> DEFINE t0 == <<n0, c0, v0>>
    <2>2. t0[1] = n0 /\ t0[2] = c0 /\ t0[3] = v0
        OBVIOUS
    <2> HIDE DEF t0
    <2>3. \E t : ChainOf(OfKey(S, key), t[1], t[2], t[3])
        BY <2>1, <2>2
    <2>4. Usable(OfKey(S, key))
        BY LoadedParts DEF OfKey
    <2> QED BY <2>3, <2>4
<1> HIDE DEF chain
<1> DEFINE place(op) == CHOOSE j \in 1 .. n(op.key) : c(op.key)[j] = op
           high(op) == Reached(c(op.key), place(op))
           lower(x, y) == \/ high(x) < high(y)
                          \/ /\ high(x) = high(y)
                             /\ x.key < y.key \/ (x.key = y.key /\ place(x) < place(y))
           R == {p \in S \X S : lower(p[1], p[2])}
<1>2. \A op \in S : op \in OfKey(S, op.key) /\ op.key \in Keys
    BY DEF OfKey
<1>3. \A op \in S : place(op) \in 1 .. n(op.key) /\ c(op.key)[place(op)] = op
    <2> TAKE op \in S
    <2>1. \E j \in 1 .. n(op.key) : c(op.key)[j] = op
        <3> HIDE DEF n, c, v
        <3> QED BY <1>1, <1>2, ChainParts
    <2> HIDE DEF n, c, v
    <2> QED BY <2>1
<1> HIDE DEF n, c, v, place
<1>4. \A key \in Keys : /\ n(key) \in Nat
                        /\ \A j \in 1 .. n(key) : c(key)[j] \in S /\ c(key)[j].key = key /\ place(c(key)[j]) = j
    <2> TAKE key \in Keys
    <2>1. n(key) \in Nat
        BY <1>1, ChainParts
    <2>2. ASSUME NEW j \in 1 .. n(key)
          PROVE  c(key)[j] \in S /\ c(key)[j].key = key /\ place(c(key)[j]) = j
        <3>1. c(key)[j] \in OfKey(S, key)
            BY <1>1, ChainParts
        <3>2. c(key)[j] \in S /\ c(key)[j].key = key
            BY <3>1 DEF OfKey
        <3> DEFINE h == place(c(key)[j])
        <3>3. h \in 1 .. n(key) /\ c(key)[h] = c(key)[j]
            BY <1>3, <3>2
        <3> HIDE DEF h
        <3>4. ~(h < j)
            <4> SUFFICES ASSUME h < j PROVE FALSE
                OBVIOUS
            <4>1. h \in 1 .. j - 1
                BY <2>1, <3>3
            <4> QED BY <1>1, <3>3, <4>1, ChainParts
        <3>5. ~(j < h)
            <4> SUFFICES ASSUME j < h PROVE FALSE
                OBVIOUS
            <4>1. j \in 1 .. h - 1
                BY <2>1, <3>3
            <4> QED BY <1>1, <3>3, <4>1, ChainParts
        <3>6. h = j
            BY <2>1, <3>3, <3>4, <3>5
        <3> QED BY <3>2, <3>6 DEF h
    <2> QED BY <2>1, <2>2
<1>5. \A op \in S : /\ high(op) \in Nat /\ op.key \in Nat /\ place(op) \in Nat
                    /\ StartOf(op) <= high(op) /\ (~op.openAtEnd => high(op) <= op.to)
    <2> TAKE op \in S
    <2>1. ChainOf(OfKey(S, op.key), n(op.key), c(op.key), v(op.key)) /\ Usable(OfKey(S, op.key))
        BY <1>1, <1>2
    <2>2. place(op) \in 1 .. n(op.key) /\ c(op.key)[place(op)] = op /\ n(op.key) \in Nat
        BY <1>2, <1>3, <1>4
    <2>3. /\ Reached(c(op.key), place(op)) \in Nat
          /\ StartOf(op) <= Reached(c(op.key), place(op))
          /\ ~op.openAtEnd => Reached(c(op.key), place(op)) <= op.to
        BY <2>1, <2>2, ReachedIs
    <2>4. op.key \in Nat
        BY DEF Usable, Operations
    <2> QED BY <2>2, <2>3, <2>4
<1>6. \A x, y \in S : x.key = y.key /\ place(x) = place(y) => x = y
    BY <1>3
<1>7. \A x, y \in S : x.key = y.key /\ place(x) <= place(y) => high(x) <= high(y)
    <2> TAKE x, y \in S
    <2> SUFFICES ASSUME x.key = y.key, place(x) <= place(y) PROVE high(x) <= high(y)
        OBVIOUS
    <2>1. ChainOf(OfKey(S, y.key), n(y.key), c(y.key), v(y.key)) /\ Usable(OfKey(S, y.key))
        BY <1>1, <1>2
    <2>2. place(y) \in 1 .. n(y.key) /\ place(x) \in 1 .. place(y)
        BY <1>3, <1>5
    <2>3. Reached(c(y.key), place(x)) <= Reached(c(y.key), place(y))
        BY <2>1, <2>2, ReachedIs
    <2> QED BY <2>3
<1> HIDE DEF high
<1>8. \A x, y \in S : x.key = y.key => (lower(x, y) <=> place(x) < place(y))
    <2> TAKE x, y \in S
    <2> SUFFICES ASSUME x.key = y.key PROVE lower(x, y) <=> place(x) < place(y)
        OBVIOUS
    <2>1. /\ high(x) \in Nat /\ high(y) \in Nat /\ place(x) \in Nat /\ place(y) \in Nat /\ x.key \in Nat
          /\ place(x) <= place(y) => high(x) <= high(y)
          /\ place(y) <= place(x) => high(y) <= high(x)
        BY <1>5, <1>7
    <2> QED BY <2>1
<1>9. \A x, y \in S : Real(x, y) => lower(x, y)
    <2> TAKE x, y \in S
    <2> SUFFICES ASSUME Real(x, y) PROVE lower(x, y)
        OBVIOUS
    <2>1. high(x) <= x.to /\ x.to < y.from /\ y.from <= high(y)
        BY <1>5 DEF Real, StartOf
    <2>2. x.to \in Nat /\ y.from \in Nat /\ high(x) \in Nat /\ high(y) \in Nat
        BY <1>5 DEF Usable, Operations
    <2> QED BY <2>1, <2>2
<1>10. \A x, y, z \in S : /\ ~lower(x, x)
                          /\ x = y \/ lower(x, y) \/ lower(y, x)
                          /\ lower(x, y) => ~lower(y, x)
                          /\ lower(x, y) /\ lower(y, z) => lower(x, z)
    <2> TAKE x, y, z \in S
    <2>1. /\ high(x) \in Nat /\ high(y) \in Nat /\ high(z) \in Nat /\ place(x) \in Nat /\ place(y) \in Nat
          /\ place(z) \in Nat /\ x.key \in Nat /\ y.key \in Nat /\ z.key \in Nat
          /\ x.key = y.key /\ place(x) = place(y) => x = y
        BY <1>5, <1>6
    <2>2. ~lower(x, x)
        BY <2>1
    <2>3. x = y \/ lower(x, y) \/ lower(y, x)
        BY <2>1
    <2>4. lower(x, y) => ~lower(y, x)
        BY <2>1
    <2>5. lower(x, y) /\ lower(y, z) => lower(x, z)
        BY <2>1
    <2> QED BY <2>2, <2>3, <2>4, <2>5
<1> HIDE DEF lower
<1>11. \A x, y \in S : <<x, y>> \in R <=> lower(x, y)
    OBVIOUS
<1> HIDE DEF R
\* Of the writes that may have executed, those that took effect.
<1> DEFINE maybe == {op \in S : op.maybe}
           applied == {op \in maybe : Effective(c(op.key), v(op.key), place(op))}
           T == (S \ maybe) \cup applied
<1>12. applied \in SUBSET maybe /\ T \subseteq S
    OBVIOUS
<1>13. \A op \in S : Effective(c(op.key), v(op.key), place(op)) => op \in T
    OBVIOUS
<1>14. \A op \in T : op.kind = "write" => Effective(c(op.key), v(op.key), place(op))
    <2> TAKE op \in T
    <2> SUFFICES ASSUME op.kind = "write", ~op.maybe PROVE Effective(c(op.key), v(op.key), place(op))
        BY DEF Effective
    <2>1. op \in S
        BY <1>12
    <2> HIDE DEF T
    <2> QED BY <1>1, <1>2, <1>3, <2>1, ChainParts
<1>15. \A op \in S : op.kind = "read" => op \in T
    BY DEF Usable
<1> HIDE DEF T
<1>16. InOrder(T, R)
    BY <1>10, <1>11, <1>12 DEF InOrder
<1> DEFINE start == [key \in Keys |-> c(key)[CHOOSE p : ReadsFirst(n(key), c(key), v(key), p)].value]
<1>17. ASSUME NEW key \in Keys, NEW p, ReadsFirst(n(key), c(key), v(key), p)
       PROVE  start[key] = c(key)[p].value
    <2> DEFINE r == CHOOSE r : ReadsFirst(n(key), c(key), v(key), r)
    <2>1. ReadsFirst(n(key), c(key), v(key), r)
        BY <1>17
    <2>2. start[key] = c(key)[r].value
        OBVIOUS
    <2> HIDE DEF r, start
    <2> QED BY <1>1, <1>17, <2>1, <2>2, ChainReads
<1> HIDE DEF start
\* A read returns what the last effective write before it in its chain wrote.
<1>18. ASSUME NEW op \in T, op.kind = "read"
       PROVE  \/ \E w \in T : LastBefore(T, R, w, op) /\ w.value = op.value
              \/ /\ \A u \in T : ~(u.kind = "write" /\ u.key = op.key /\ <<u, op>> \in R)
                 /\ op.value = start[op.key]
    <2> DEFINE key == op.key
               p == place(op)
               Q == {q \in 1 .. p - 1 : Effective(c(key), v(key), q)}
    <2>1. op \in S /\ key \in Keys /\ p \in 1 .. n(key) /\ c(key)[p] = op /\ n(key) \in Nat
        BY <1>2, <1>3, <1>4, <1>12
    <2>2. ASSUME NEW u \in T, u.kind = "write", u.key = key, <<u, op>> \in R
          PROVE  place(u) \in Q /\ c(key)[place(u)] = u
        <3>1. u \in S /\ lower(u, op)
            BY <1>11, <1>12, <2>1, <2>2
        <3>2. place(u) < p /\ place(u) \in 1 .. n(key) /\ c(key)[place(u)] = u
            BY <1>3, <1>8, <2>1, <2>2, <3>1
        <3>3. Effective(c(key), v(key), place(u))
            BY <1>14, <2>2
        <3> QED BY <2>1, <3>2, <3>3
    <2>3. CASE Q = {}
        <3>1. ReadsFirst(n(key), c(key), v(key), p)
            BY <1>18, <2>1, <2>3 DEF ReadsFirst
        <3>2. start[key] = op.value
            BY <1>17, <2>1, <3>1
        <3> HIDE DEF Q
        <3> QED BY <2>2, <2>3, <3>2
    <2>4. CASE Q # {}
        <3> DEFINE q == Max(Q)
        <3>1. q \in Q /\ \A x \in Q : x <= q
            <4>1. IsFiniteSet(Q) /\ Q \subseteq Nat
                <5>1. IsFiniteSet(1 .. p - 1)
                    BY <2>1, FS_Interval
                <5>2. Q \subseteq 1 .. p - 1 /\ Q \subseteq Nat
                    OBVIOUS
                <5> HIDE DEF Q
                <5> QED BY <5>1, <5>2, FS_Subset
            <4> HIDE DEF Q
            <4> QED BY <2>4, <4>1, GreatestNumber
        <3> HIDE DEF q
        <3> DEFINE w == c(key)[q]
        <3>2. q \in 1 .. p - 1 /\ q \in 1 .. n(key) /\ q < p /\ Effective(c(key), v(key), q)
            BY <2>1, <3>1
        <3>3. w \in S /\ w.key = key /\ place(w) = q
            BY <1>4, <2>1, <3>2
        <3>4. w \in T /\ w.kind = "write"
            BY <1>13, <3>2, <3>3 DEF Effective
        <3>5. <<w, op>> \in R
            BY <1>8, <1>11, <2>1, <3>2, <3>3
        <3> HIDE DEF Q
        <3>6. \A u \in T : u.kind = "write" /\ u.key = key /\ <<u, op>> \in R => u = w \/ <<u, w>> \in R
            <4> TAKE u \in T
            <4> SUFFICES ASSUME u.kind = "write", u.key = key, <<u, op>> \in R PROVE u = w \/ <<u, w>> \in R
                OBVIOUS
            <4>1. place(u) \in Q /\ place(u) <= q /\ u \in S
                BY <1>12, <2>2, <3>1
            <4>2. place(u) = q => u = w
                BY <1>6, <3>3, <4>1
            <4>3. place(u) < q => lower(u, w)
                BY <1>8, <3>3, <4>1
            <4>4. place(u) \in Nat /\ q \in Nat
                BY <1>5, <3>2, <4>1
            <4> QED BY <1>11, <3>3, <4>1, <4>2, <4>3, <4>4
        <3>7. \A i \in q + 1 .. p - 1 : ~Effective(c(key), v(key), i)
            <4> TAKE i \in q + 1 .. p - 1
            <4>1. i \in 1 .. p - 1 /\ ~(i <= q)
                BY <2>1, <3>2
            <4> QED BY <3>1, <4>1 DEF Q
        <3>8. c(key)[p].value = c(key)[q].value
            BY <1>1, <1>18, <2>1, <3>2, <3>7, ChainReads
        <3>9. w.value = op.value
            BY <2>1, <3>8
        <3> HIDE DEF w
        <3>10. LastBefore(T, R, w, op)
            BY <3>3, <3>4, <3>5, <3>6 DEF LastBefore
        <3> QED BY <3>4, <3>9, <3>10
    <2> QED BY <2>3, <2>4
<1>19. \A op \in S \ T : op.maybe
    BY DEF T
<1>20. \A x, y \in T : Real(x, y) => <<x, y>> \in R
    BY <1>9, <1>11, <1>12
<1> QED BY <1>12, <1>16, <1>18, <1>19, <1>20, OrderExplains

Kinds == {"read", "write", "txn"}
Requests == [op : Nat, f : Kinds, key : Keys, executed : BOOLEAN, value : Nat]
Records == [op : Nat, type : {"invoke", "ok", "fail", "info"}, f : Kinds, key : Keys, value : Nat, t : Nat]

DriverTypes ==
    /\ mix \subseteq Kinds /\ inFlight \subseteq Requests /\ doubtful \subseteq Requests
    /\ register \in [Keys -> Nat] /\ nextOp \in Nat /\ clock \in Nat /\ lies \in Nat
    /\ recording \in BOOLEAN /\ driving \in BOOLEAN
    /\ hist \subseteq Records /\ IsFiniteSet(hist)

\* The requests under way, and those given up that may still execute.
RequestsInv ==
    /\ \A q \in inFlight \cup doubtful : q.op < nextOp
    /\ \A p, q \in inFlight \cup doubtful : p.op = q.op => p = q
    /\ inFlight \cap doubtful = {}
    /\ \A q \in doubtful : q.f # "read" /\ ~q.executed
    /\ \A q \in inFlight : q.executed /\ q.f # "read" => q.value = q.op

\* One invocation and one completion of an operation, in this order.
PairsInv ==
    /\ \A r, s \in hist : r.op = s.op =>
          /\ r.f = s.f /\ r.key = s.key
          /\ r.type = "invoke" /\ s.type = "invoke" => r = s
          /\ r.type # "invoke" /\ s.type # "invoke" => r = s
          /\ r.type = "invoke" /\ s.type # "invoke" => r.t < s.t
    /\ \A r \in hist : r.f # "read" /\ r.type # "fail" => r.value = r.op

\* What the driver still waits for has no completion; what it gave up on has one
\* that leaves it open.
WaitingInv ==
    /\ ~recording => hist = {}
    /\ driving => \A r \in hist : r.t <= clock /\ r.op < nextOp
    /\ \A q \in inFlight : \A r \in hist : r.op = q.op => r.type = "invoke" /\ r.f = q.f /\ r.key = q.key
    /\ \A q \in doubtful : \A r \in hist :
          r.op = q.op => r.type \in {"invoke", "info"} /\ r.f = q.f /\ r.key = q.key
    /\ recording => \A q \in doubtful : \E r \in hist : r.op = q.op
    /\ ~driving => recording /\ inFlight = {} /\ doubtful = {}

DriverInv == DriverTypes /\ RequestsInv /\ PairsInv /\ WaitingInv

RecordOf(type, q, value, t) == [op |-> q.op, type |-> type, f |-> q.f, key |-> q.key, value |-> value, t |-> t]

\* The driver begins in DriverInv.
LEMMA DriverStarts == DriverInit => DriverInv
<1> SUFFICES ASSUME DriverInit PROVE DriverInv
    OBVIOUS
<1>1. DriverTypes
    <2>1. mix \subseteq Kinds
        BY LoadgenAssumption DEF DriverInit, Kinds
    <2>2. IsFiniteSet(hist)
        BY FS_EmptySet DEF DriverInit
    <2>3. register \in [Keys -> Nat]
        BY DEF DriverInit, Null
    <2> QED BY <2>1, <2>2, <2>3 DEF DriverInit, DriverTypes
<1>2. RequestsInv /\ PairsInv /\ WaitingInv
    BY DEF DriverInit, RequestsInv, PairsInv, WaitingInv
<1> QED BY <1>1, <1>2 DEF DriverInv

\* What a log line leaves.
LEMMA Logged ==
    ASSUME NEW type, NEW q, NEW value, NEW times, Log(type, q, value, times), DriverTypes
    PROVE  \/ ~recording /\ clock' = clock /\ hist' = hist
           \/ recording /\ \E t \in times : clock' = t /\ hist' = hist \cup {RecordOf(type, q, value, t)}
BY DEF Log, RecordOf, DriverTypes

\* A completion of a request the driver waited for.
LEMMA Completing ==
    ASSUME DriverInv, driving, NEW q \in inFlight,
           NEW type \in {"ok", "fail", "info"}, NEW value \in Nat, Log(type, q, value, {clock + 1}),
           q.f # "read" /\ type # "fail" => value = q.op,
           inFlight' = inFlight \ {q},
           \/ doubtful' = doubtful
           \/ doubtful' = doubtful \cup {q} /\ type = "info" /\ q.f # "read" /\ ~q.executed,
           UNCHANGED <<mix, register, nextOp, recording, lies, driving>>
    PROVE  DriverInv'
<1> DEFINE rec == RecordOf(type, q, value, clock + 1)
<1>0. DriverTypes /\ RequestsInv /\ PairsInv /\ WaitingInv
    BY DEF DriverInv
<1>1. q \in Requests /\ clock \in Nat /\ q.op \in Nat /\ q.f \in Kinds /\ q.key \in Keys /\ q.op < nextOp
    BY <1>0 DEF DriverTypes, RequestsInv, Requests
<1>2. \/ ~recording /\ clock' = clock /\ hist' = hist
      \/ recording /\ clock' = clock + 1 /\ hist' = hist \cup {rec}
    BY <1>0, Logged
<1>3. /\ rec \in Records /\ rec.op = q.op /\ rec.type = type /\ rec.f = q.f /\ rec.key = q.key /\ rec.value = value
      /\ rec.t = clock + 1
    BY <1>1 DEF Records, RecordOf
<1> HIDE DEF rec
<1>4. DriverTypes'
    <2>1. hist' \subseteq Records /\ IsFiniteSet(hist')
        <3>1. IsFiniteSet(hist \cup {rec})
            BY <1>0, FS_AddElement DEF DriverTypes
        <3> QED BY <1>0, <1>2, <1>3, <3>1 DEF DriverTypes
    <2>2. clock' \in Nat
        BY <1>1, <1>2
    <2>3. inFlight' \subseteq Requests /\ doubtful' \subseteq Requests
        BY <1>0, <1>1 DEF DriverTypes
    <2> QED BY <1>0, <2>1, <2>2, <2>3 DEF DriverTypes
<1>5. RequestsInv'
    <2>1. inFlight' \cup doubtful' \subseteq inFlight \cup doubtful
        OBVIOUS
    <2>2. inFlight' \cap doubtful' = {}
        BY <1>0 DEF RequestsInv
    <2>3. \A p \in doubtful' : p.f # "read" /\ ~p.executed
        BY <1>0 DEF RequestsInv
    <2> QED BY <1>0, <2>1, <2>2, <2>3 DEF RequestsInv
<1>6. \A r \in hist : r.op = q.op => r.type = "invoke" /\ r.f = q.f /\ r.key = q.key
    BY <1>0 DEF WaitingInv
<1>7. \A r \in hist : r.t <= clock /\ r.t \in Nat /\ r.op < nextOp /\ r.op \in Nat
    BY <1>0 DEF WaitingInv, DriverTypes, Records
<1>8. PairsInv'
    <2>1. CASE hist' = hist
        BY <1>0, <2>1 DEF PairsInv
    <2>2. CASE hist' = hist \cup {rec}
        <3>1. ASSUME NEW r \in hist', NEW s \in hist', r.op = s.op
              PROVE  /\ r.f = s.f /\ r.key = s.key
                     /\ r.type = "invoke" /\ s.type = "invoke" => r = s
                     /\ r.type # "invoke" /\ s.type # "invoke" => r = s
                     /\ r.type = "invoke" /\ s.type # "invoke" => r.t < s.t
            <4>1. CASE r \in hist /\ s \in hist
                BY <1>0, <3>1, <4>1 DEF PairsInv
            <4>2. CASE r \in hist /\ s = rec
                BY <1>1, <1>3, <1>6, <1>7, <3>1, <4>2
            <4>3. CASE r = rec /\ s \in hist
                BY <1>1, <1>3, <1>6, <1>7, <3>1, <4>3
            <4>4. CASE r = rec /\ s = rec
                BY <1>3, <4>4
            <4> QED BY <2>2, <3>1, <4>1, <4>2, <4>3, <4>4
        <3>2. \A r \in hist' : r.f # "read" /\ r.type # "fail" => r.value = r.op
            BY <1>0, <1>3, <2>2 DEF PairsInv
        <3> QED BY <3>1, <3>2 DEF PairsInv
    <2> QED BY <1>2, <2>1, <2>2
<1>9. WaitingInv'
    <2>1. ~recording' => hist' = {}
        BY <1>0, <1>2 DEF WaitingInv
    <2>2. \A r \in hist' : r.t <= clock' /\ r.op < nextOp'
        BY <1>1, <1>2, <1>3, <1>7
    <2>3. ASSUME NEW p \in inFlight', NEW r \in hist', r.op = p.op
          PROVE  r.type = "invoke" /\ r.f = p.f /\ r.key = p.key
        <3>1. p \in inFlight /\ p # q /\ p.op # q.op
            BY <1>0 DEF RequestsInv
        <3>2. r \in hist
            BY <1>2, <1>3, <2>3, <3>1
        <3> QED BY <1>0, <2>3, <3>1, <3>2 DEF WaitingInv
    <2>4. ASSUME NEW p \in doubtful', NEW r \in hist', r.op = p.op
          PROVE  r.type \in {"invoke", "info"} /\ r.f = p.f /\ r.key = p.key
        <3>1. CASE p \in doubtful
            <4>1. p.op # q.op
                BY <1>0, <3>1 DEF RequestsInv
            <4>2. r \in hist
                BY <1>2, <1>3, <2>4, <4>1
            <4> QED BY <1>0, <2>4, <3>1, <4>2 DEF WaitingInv
        <3>2. CASE p = q /\ type = "info"
            BY <1>2, <1>3, <1>6, <2>4, <3>2
        <3> QED BY <3>1, <3>2
    <2>5. recording' => \A p \in doubtful' : \E r \in hist' : r.op = p.op
        BY <1>0, <1>2, <1>3 DEF WaitingInv
    <2> QED BY <2>1, <2>2, <2>3, <2>4, <2>5 DEF WaitingInv
<1> QED BY <1>4, <1>5, <1>8, <1>9 DEF DriverInv

\* A new request, and the record of it.
LEMMA CallKeeps == DriverInv /\ Call => DriverInv'
<1> SUFFICES ASSUME DriverInv, Call PROVE DriverInv'
    OBVIOUS
<1>0. DriverTypes /\ RequestsInv /\ PairsInv /\ WaitingInv /\ driving
    BY DEF DriverInv, Call
<1>1. PICK f \in mix, k \in Keys :
         LET q == [op |-> nextOp, f |-> f, key |-> k, executed |-> FALSE, value |-> Null]
         IN inFlight' = inFlight \cup {q} /\ Log("invoke", q, Asked(q), {clock + 1} \cup Ties)
    BY DEF Call
<1> DEFINE q == [op |-> nextOp, f |-> f, key |-> k, executed |-> FALSE, value |-> Null]
<1>2. /\ q \in Requests /\ q.op = nextOp /\ q.f \in Kinds /\ q.key \in Keys /\ ~q.executed /\ nextOp \in Nat
      /\ Asked(q) \in Nat /\ (q.f # "read" => Asked(q) = q.op)
    BY <1>0 DEF DriverTypes, Requests, Asked, Null
<1>3. inFlight' = inFlight \cup {q} /\ Log("invoke", q, Asked(q), {clock + 1} \cup Ties)
    BY <1>1
<1> HIDE DEF q
<1>4. nextOp' = nextOp + 1 /\ UNCHANGED <<mix, register, doubtful, recording, lies, driving>>
    BY DEF Call
<1>5. PICK t \in {clock, clock + 1} :
         \/ ~recording /\ clock' = clock /\ hist' = hist
         \/ recording /\ clock' = t /\ hist' = hist \cup {RecordOf("invoke", q, Asked(q), t)}
    <2>1. {clock + 1} \cup Ties \subseteq {clock, clock + 1}
        BY DEF Ties
    <2> QED BY <1>0, <1>3, <2>1, Logged
<1> DEFINE rec == RecordOf("invoke", q, Asked(q), t)
<1>6. /\ rec \in Records /\ rec.op = q.op /\ rec.type = "invoke" /\ rec.f = q.f /\ rec.key = q.key
      /\ rec.value = Asked(q) /\ rec.t = t
      /\ t \in Nat /\ clock <= t
    <2>1. t \in Nat /\ clock <= t
        BY <1>0 DEF DriverTypes
    <2> QED BY <1>2, <2>1 DEF Records, RecordOf
<1>7. \/ ~recording /\ clock' = clock /\ hist' = hist
      \/ recording /\ clock' = t /\ hist' = hist \cup {rec}
    BY <1>5
<1> HIDE DEF rec
<1>8. \A r \in hist : r.t <= clock /\ r.t \in Nat /\ r.op < nextOp /\ r.op \in Nat
    BY <1>0 DEF WaitingInv, DriverTypes, Records
<1>9. \A p \in inFlight \cup doubtful : p.op < nextOp /\ p.op \in Nat /\ p.op # q.op
    BY <1>0, <1>2 DEF RequestsInv, DriverTypes, Requests
<1>10. DriverTypes'
    <2>1. hist' \subseteq Records /\ IsFiniteSet(hist')
        <3>1. IsFiniteSet(hist \cup {rec})
            BY <1>0, FS_AddElement DEF DriverTypes
        <3> QED BY <1>0, <1>6, <1>7, <3>1 DEF DriverTypes
    <2>2. clock' \in Nat /\ nextOp' \in Nat
        BY <1>0, <1>2, <1>4, <1>6, <1>7 DEF DriverTypes
    <2>3. inFlight' \subseteq Requests
        BY <1>0, <1>2, <1>3 DEF DriverTypes
    <2> QED BY <1>0, <1>4, <2>1, <2>2, <2>3 DEF DriverTypes
<1>11. RequestsInv'
    <2>1. \A p \in inFlight' \cup doubtful' : p.op < nextOp'
        BY <1>2, <1>3, <1>4, <1>9
    <2>2. \A p, r \in inFlight' \cup doubtful' : p.op = r.op => p = r
        BY <1>0, <1>3, <1>4, <1>9 DEF RequestsInv
    <2>3. inFlight' \cap doubtful' = {}
        BY <1>0, <1>3, <1>4, <1>9 DEF RequestsInv
    <2> QED BY <1>0, <1>2, <1>3, <1>4, <2>1, <2>2, <2>3 DEF RequestsInv
<1>12. PairsInv'
    <2>1. CASE hist' = hist
        BY <1>0, <2>1 DEF PairsInv
    <2>2. CASE hist' = hist \cup {rec}
        <3>1. \A r \in hist : r.op # rec.op
            BY <1>2, <1>6, <1>8
        <3> QED BY <1>0, <1>2, <1>6, <2>2, <3>1 DEF PairsInv
    <2> QED BY <1>7, <2>1, <2>2
<1>13. WaitingInv'
    <2>1. ~recording' => hist' = {}
        BY <1>0, <1>4, <1>7 DEF WaitingInv
    <2>2. \A r \in hist' : r.t <= clock' /\ r.op < nextOp'
        <3> TAKE r \in hist'
        <3>1. CASE r \in hist
            BY <1>0, <1>2, <1>4, <1>6, <1>7, <1>8, <3>1 DEF DriverTypes
        <3>2. CASE r = rec /\ clock' = t
            BY <1>2, <1>4, <1>6, <3>2
        <3> QED BY <1>7, <3>1, <3>2
    <2>3. ASSUME NEW p \in inFlight', NEW r \in hist', r.op = p.op
          PROVE  r.type = "invoke" /\ r.f = p.f /\ r.key = p.key
        <3>1. CASE p \in inFlight
            <4>1. r \in hist
                BY <1>6, <1>7, <1>9, <2>3, <3>1
            <4> QED BY <1>0, <2>3, <3>1, <4>1 DEF WaitingInv
        <3>2. CASE p = q
            <4>1. r = rec
                BY <1>2, <1>7, <1>8, <2>3, <3>2
            <4> QED BY <1>6, <3>2, <4>1
        <3> QED BY <1>3, <3>1, <3>2
    <2>4. ASSUME NEW p \in doubtful', NEW r \in hist', r.op = p.op
          PROVE  r.type \in {"invoke", "info"} /\ r.f = p.f /\ r.key = p.key
        <3>1. r \in hist
            BY <1>4, <1>6, <1>7, <1>9, <2>4
        <3> QED BY <1>0, <1>4, <2>4, <3>1 DEF WaitingInv
    <2>5. recording' => \A p \in doubtful' : \E r \in hist' : r.op = p.op
        BY <1>0, <1>4, <1>7 DEF WaitingInv
    <2> QED BY <1>0, <1>4, <2>1, <2>2, <2>3, <2>4, <2>5 DEF WaitingInv
<1> QED BY <1>10, <1>11, <1>12, <1>13 DEF DriverInv

\* An execution by the cluster, of a request the driver waits for.
LEMMA ExecuteKeeps == DriverInv /\ Execute => DriverInv'
<1> SUFFICES ASSUME DriverInv, Execute PROVE DriverInv'
    OBVIOUS
<1>0. DriverTypes /\ RequestsInv /\ PairsInv /\ WaitingInv /\ driving
    BY DEF DriverInv, Execute
<1>1. PICK q \in inFlight : ~q.executed /\ (ExecuteRead(q) \/ ExecuteWrite(q))
    BY DEF Execute
<1>2. UNCHANGED <<mix, doubtful, nextOp, clock, recording, hist, driving>>
    BY DEF Execute
<1>3. q \in Requests /\ q.op \in Nat /\ nextOp \in Nat
    BY <1>0 DEF DriverTypes, Requests
<1>4. PICK v \in Nat : /\ inFlight' = (inFlight \ {q}) \cup {[q EXCEPT !.executed = TRUE, !.value = v]}
                       /\ q.f # "read" => v = q.op
                       /\ \/ register' = register
                          \/ q.f # "read" /\ register' = [register EXCEPT ![q.key] = q.op]
                       /\ lies' \in Nat
    <2>1. CASE ExecuteRead(q)
        <3>1. PICK v \in {Null} \cup (1 .. (nextOp - 1)) :
                 /\ inFlight' = (inFlight \ {q}) \cup {[q EXCEPT !.executed = TRUE, !.value = v]}
                 /\ lies' = IF v = register[q.key] THEN lies ELSE lies + 1
            BY <2>1 DEF ExecuteRead
        <3>2. v \in Nat
            BY <1>3 DEF Null
        <3>3. lies' \in Nat
            BY <1>0, <3>1 DEF DriverTypes
        <3>4. q.f = "read" /\ register' = register
            BY <2>1 DEF ExecuteRead
        <3> WITNESS v \in Nat
        <3> QED BY <3>1, <3>3, <3>4
    <2>2. CASE ExecuteWrite(q)
        BY <1>0, <1>3, <2>2 DEF ExecuteWrite, DriverTypes
    <2> QED BY <1>1, <2>1, <2>2
<1> DEFINE e == [q EXCEPT !.executed = TRUE, !.value = v]
<1>5. e \in Requests /\ e.op = q.op /\ e.f = q.f /\ e.key = q.key /\ e.value = v /\ e.executed
    BY <1>3 DEF Requests
<1>6. inFlight' = (inFlight \ {q}) \cup {e}
    BY <1>4
<1> HIDE DEF e
<1>7. DriverTypes'
    <2>1. register' \in [Keys -> Nat]
        BY <1>0, <1>3, <1>4 DEF DriverTypes
    <2> QED BY <1>0, <1>2, <1>4, <1>5, <1>6, <2>1 DEF DriverTypes
<1>8. RequestsInv'
    <2>1. \A p \in inFlight' \cup doubtful' : p.op < nextOp'
        BY <1>0, <1>2, <1>5, <1>6 DEF RequestsInv
    <2>2. \A p, r \in inFlight' \cup doubtful' : p.op = r.op => p = r
        BY <1>0, <1>2, <1>5, <1>6 DEF RequestsInv
    <2>3. inFlight' \cap doubtful' = {}
        BY <1>0, <1>2, <1>5, <1>6 DEF RequestsInv
    <2> QED BY <1>0, <1>2, <1>4, <1>5, <1>6, <2>1, <2>2, <2>3 DEF RequestsInv
<1>9. PairsInv'
    BY <1>0, <1>2 DEF PairsInv
<1>10. WaitingInv'
    BY <1>0, <1>2, <1>5, <1>6 DEF WaitingInv
<1> QED BY <1>7, <1>8, <1>9, <1>10 DEF DriverInv

\* A request executed after its client gave up.
LEMMA LateKeeps == DriverInv /\ ExecuteLate => DriverInv'
<1> SUFFICES ASSUME DriverInv, ExecuteLate PROVE DriverInv'
    OBVIOUS
<1>0. DriverTypes /\ RequestsInv /\ PairsInv /\ WaitingInv /\ driving
    BY DEF DriverInv, ExecuteLate
<1>1. PICK q \in doubtful : doubtful' = doubtful \ {q} /\ register' = [register EXCEPT ![q.key] = q.op]
    BY DEF ExecuteLate
<1>2. UNCHANGED <<mix, inFlight, nextOp, clock, recording, hist, lies, driving>>
    BY DEF ExecuteLate
<1>3. q.op \in Nat
    BY <1>0 DEF DriverTypes, Requests
<1>4. DriverTypes'
    BY <1>0, <1>1, <1>2, <1>3 DEF DriverTypes
<1>5. RequestsInv'
    BY <1>0, <1>1, <1>2 DEF RequestsInv
<1>6. PairsInv' /\ WaitingInv'
    BY <1>0, <1>1, <1>2 DEF PairsInv, WaitingInv
<1> QED BY <1>4, <1>5, <1>6 DEF DriverInv

\* The history begins.
LEMMA StartKeeps == DriverInv /\ StartRecording => DriverInv'
<1> SUFFICES ASSUME DriverInv, StartRecording PROVE DriverInv'
    OBVIOUS
<1>1. DriverTypes' /\ RequestsInv' /\ PairsInv'
    BY DEF DriverInv, StartRecording, DriverTypes, RequestsInv, PairsInv
<1>2. WaitingInv'
    BY DEF DriverInv, StartRecording, WaitingInv
<1> QED BY <1>1, <1>2 DEF DriverInv

\* The driver ends.
LEMMA EndKeeps == DriverInv /\ End => DriverInv'
<1> SUFFICES ASSUME DriverInv, End PROVE DriverInv'
    OBVIOUS
<1>1. DriverTypes'
    <2>1. register' \in [Keys -> Nat]
        BY DEF End, Null
    <2> QED BY <2>1 DEF DriverInv, DriverTypes, End
<1>2. RequestsInv' /\ PairsInv' /\ WaitingInv'
    BY DEF DriverInv, End, RequestsInv, PairsInv, WaitingInv
<1> QED BY <1>1, <1>2 DEF DriverInv

\* A request that is answered, refused or given up.
LEMMA AnsweredKeeps == DriverInv /\ (Fail \/ Answer \/ GiveUp) => DriverInv'
<1> SUFFICES ASSUME DriverInv, Fail \/ Answer \/ GiveUp PROVE DriverInv'
    OBVIOUS
<1>0. DriverTypes /\ RequestsInv /\ driving
    BY DEF DriverInv, Fail, Answer, GiveUp
<1>1. \A q \in inFlight : q \in Requests /\ q.op \in Nat /\ q.value \in Nat
    BY <1>0 DEF DriverTypes, Requests
<1>2. CASE Fail
    <2>1. PICK q \in inFlight : Log("fail", q, Null, {clock + 1}) /\ inFlight' = inFlight \ {q}
        BY <1>2 DEF Fail
    <2>2. doubtful' = doubtful /\ UNCHANGED <<mix, register, nextOp, recording, lies, driving>>
        BY <1>2 DEF Fail
    <2>3. Null \in Nat
        BY DEF Null
    <2> QED BY <1>0, <2>1, <2>2, <2>3, Completing
<1>3. CASE Answer
    <2>1. PICK q \in inFlight : q.executed /\ Log("ok", q, q.value, {clock + 1}) /\ inFlight' = inFlight \ {q}
        BY <1>3 DEF Answer
    <2>2. doubtful' = doubtful /\ UNCHANGED <<mix, register, nextOp, recording, lies, driving>>
        BY <1>3 DEF Answer
    <2>3. q.value \in Nat /\ (q.f # "read" => q.value = q.op)
        BY <1>0, <1>1, <2>1 DEF RequestsInv
    <2> QED BY <1>0, <2>1, <2>2, <2>3, Completing
<1>4. CASE GiveUp
    <2>1. PICK q \in inFlight : /\ Log(Unanswered, q, Asked(q), {clock + 1})
                                /\ doubtful' = IF q.executed \/ q.f = "read" THEN doubtful ELSE doubtful \cup {q}
                                /\ inFlight' = inFlight \ {q}
        BY <1>4 DEF GiveUp
    <2>2. UNCHANGED <<mix, register, nextOp, recording, lies, driving>>
        BY <1>4 DEF GiveUp
    <2>3. Log("info", q, Asked(q), {clock + 1})
        BY <2>1 DEF Unanswered
    <2>4. Asked(q) \in Nat /\ (q.f # "read" => Asked(q) = q.op)
        BY <1>1 DEF Asked, Null
    <2>5. \/ doubtful' = doubtful
          \/ doubtful' = doubtful \cup {q} /\ q.f # "read" /\ ~q.executed
        BY <2>1
    <2> QED BY <1>0, <2>1, <2>2, <2>3, <2>4, <2>5, Completing
<1> QED BY <1>2, <1>3, <1>4

\* Every step of the driver keeps DriverInv.
LEMMA DriverKeeps == DriverInv /\ [Drive]_driverVars => DriverInv'
<1>1. DriverInv /\ Drive => DriverInv'
    BY CallKeeps, ExecuteKeeps, AnsweredKeeps, LateKeeps, StartKeeps, EndKeeps DEF Drive
<1>2. DriverInv /\ UNCHANGED driverVars => DriverInv'
    BY DEF DriverInv, DriverTypes, RequestsInv, PairsInv, WaitingInv, driverVars
<1> QED BY <1>1, <1>2

\* What the cluster executed, in the order it did.
Enacted == [op : Nat, f : Kinds, key : Keys, value : Nat, tick : Nat, at : Nat]

Sets(d, key) == d.f # "read" /\ d.key = key

\* The key holds that value after what was executed before the place.
Shows(E, start, key, at, value) ==
    \/ /\ \A d \in E : ~(Sets(d, key) /\ d.at < at)
       /\ value = start[key]
    \/ \E d \in E : /\ Sets(d, key) /\ d.at < at /\ d.value = value
                    /\ \A u \in E : Sets(u, key) /\ u.at < at => u.at <= d.at

\* The effects are an execution of a register per key.
Execution(E, start) ==
    /\ E \subseteq Enacted
    /\ \A d, e \in E : d.op = e.op \/ d.at = e.at => d = e
    /\ \A d, e \in E : d.at < e.at => d.tick <= e.tick
    /\ \A e \in E : IF e.f = "read" THEN Shows(E, start, e.key, e.at, e.value) ELSE e.value = e.op

\* The records are about these effects.
Recounted(E) ==
    /\ \A r \in hist : r.type = "ok" => \E e \in E : e.op = r.op
    /\ \A e \in E : \A r \in hist : r.op = e.op =>
          /\ r.f = e.f /\ r.key = e.key /\ r.type # "fail"
          /\ r.type = "invoke" => r.t <= e.tick
          /\ r.type = "ok" => r.value = e.value /\ e.tick < r.t
    /\ \A e \in E : (\E r \in hist : r.op = e.op) \/ (\E q \in inFlight : q.op = e.op)

\* The requests under way are in the state the effects leave them in.
UpToNow(E, start, n) ==
    /\ n \in Nat
    /\ \A e \in E : e.op < nextOp /\ e.tick <= clock /\ e.at < n
    /\ \A key \in Keys : Shows(E, start, key, n, register[key])
    /\ \A q \in inFlight :
          IF q.executed THEN \E e \in E : e.op = q.op /\ e.f = q.f /\ e.key = q.key /\ e.value = q.value
                        ELSE \A e \in E : e.op # q.op
    /\ \A q \in doubtful : \A e \in E : e.op # q.op

AccountOf(E, start, n) ==
    /\ Execution(E, start) /\ Recounted(E)
    /\ driving => UpToNow(E, start, n)

HonestInv == recording /\ lies = 0 => \E E, start, n : AccountOf(E, start, n)

\* An effect after all the others changes nothing of what was before it.
LEMMA LaterEffect ==
    ASSUME NEW E, E \subseteq Enacted, NEW start, NEW n \in Nat, \A d \in E : d.at < n,
           NEW e \in Enacted, e.at = n
    PROVE  /\ \A key, value : \A at \in 0 .. n : Shows(E, start, key, at, value) => Shows(E \cup {e}, start, key, at, value)
           /\ \A key, value : ~Sets(e, key) /\ Shows(E, start, key, n, value) =>
                 Shows(E \cup {e}, start, key, n + 1, value)
           /\ \A key : Sets(e, key) => Shows(E \cup {e}, start, key, n + 1, e.value)
<1>1. \A d \in E : d.at \in Nat /\ d.at < n /\ d.at < n + 1
    BY DEF Enacted
<1>2. ASSUME NEW key, NEW value, NEW at \in 0 .. n, Shows(E, start, key, at, value)
      PROVE  Shows(E \cup {e}, start, key, at, value)
    BY <1>1, <1>2 DEF Shows
<1>3. ASSUME NEW key, NEW value, ~Sets(e, key), Shows(E, start, key, n, value)
      PROVE  Shows(E \cup {e}, start, key, n + 1, value)
    BY <1>1, <1>3 DEF Shows
<1>4. ASSUME NEW key, Sets(e, key)
      PROVE  Shows(E \cup {e}, start, key, n + 1, e.value)
    BY <1>1, <1>4 DEF Shows
<1> QED BY <1>2, <1>3, <1>4

\* One more effect, of an operation not executed before.
LEMMA EffectExecutes ==
    ASSUME NEW E, NEW start, Execution(E, start), NEW n \in Nat,
           \A d \in E : d.at < n, NEW e \in Enacted, e.at = n,
           \A d \in E : d.op # e.op /\ d.tick <= e.tick,
           IF e.f = "read" THEN Shows(E, start, e.key, n, e.value) ELSE e.value = e.op
    PROVE  Execution(E \cup {e}, start)
<1>1. E \subseteq Enacted
    BY DEF Execution
<1>2. \A d \in E : d.at \in Nat /\ d.at \in 0 .. n /\ d.at < n /\ ~(n < d.at) /\ d.at # n
    BY <1>1 DEF Enacted
<1>3. \A d, c \in E \cup {e} : d.op = c.op \/ d.at = c.at => d = c
    BY <1>2 DEF Execution
<1>4. \A d, c \in E \cup {e} : d.at < c.at => d.tick <= c.tick
    BY <1>2 DEF Execution
<1>5. ASSUME NEW d \in E \cup {e}
      PROVE  IF d.f = "read" THEN Shows(E \cup {e}, start, d.key, d.at, d.value) ELSE d.value = d.op
    <2>1. CASE d \in E
        <3>1. CASE d.f = "read"
            <4>1. Shows(E, start, d.key, d.at, d.value)
                BY <2>1, <3>1 DEF Execution
            <4>2. Shows(E \cup {e}, start, d.key, d.at, d.value)
                BY <1>1, <1>2, <2>1, <4>1, LaterEffect
            <4> QED BY <3>1, <4>2
        <3>2. CASE d.f # "read"
            BY <2>1, <3>2 DEF Execution
        <3> QED BY <3>1, <3>2
    <2>2. CASE d = e
        <3>1. CASE e.f = "read"
            <4>1. Shows(E, start, e.key, n, e.value) /\ n \in 0 .. n
                BY <3>1
            <4>2. Shows(E \cup {e}, start, e.key, n, e.value)
                BY <1>1, <4>1, LaterEffect
            <4> QED BY <2>2, <3>1, <4>2
        <3>2. CASE e.f # "read"
            BY <2>2, <3>2
        <3> QED BY <3>1, <3>2
    <2> QED BY <2>1, <2>2
<1> QED BY <1>1, <1>3, <1>4, <1>5 DEF Execution

\* A completion recorded for a request under way.
LEMMA CompletingAccounts ==
    ASSUME DriverInv, driving, recording, NEW q \in inFlight,
           NEW type \in {"ok", "fail", "info"}, NEW value, Log(type, q, value, {clock + 1}),
           type = "ok" => q.executed /\ value = q.value,
           type = "fail" => ~q.executed,
           inFlight' = inFlight \ {q},
           doubtful' = doubtful \/ (doubtful' = doubtful \cup {q} /\ ~q.executed),
           UNCHANGED <<mix, register, nextOp, recording, lies, driving>>,
           NEW E, NEW start, NEW n, AccountOf(E, start, n)
    PROVE  AccountOf(E, start, n)'
<1> DEFINE rec == RecordOf(type, q, value, clock + 1)
<1>0. DriverTypes /\ RequestsInv /\ Execution(E, start) /\ Recounted(E) /\ UpToNow(E, start, n)
    BY DEF DriverInv, AccountOf
<1>1. clock' = clock + 1 /\ hist' = hist \cup {rec} /\ clock \in Nat
    BY <1>0, Logged DEF DriverTypes
<1>2. /\ rec.op = q.op /\ rec.type = type /\ rec.f = q.f /\ rec.key = q.key /\ rec.value = value
      /\ rec.t = clock + 1
    BY DEF RecordOf
<1> HIDE DEF rec
<1>3. \A e \in E : e.tick <= clock /\ e.tick \in Nat /\ e.tick <= clock + 1 /\ e.tick < clock + 1
    BY <1>0, <1>1 DEF UpToNow, Execution, Enacted
<1>4. \A e \in E : e.op = q.op => q.executed /\ e.f = q.f /\ e.key = q.key /\ e.value = q.value
    BY <1>0 DEF UpToNow, Execution
<1>5. Recounted(E)'
    <2>1. \A r \in hist' : r.type = "ok" => \E e \in E : e.op = r.op
        <3> TAKE r \in hist'
        <3>1. CASE r \in hist
            BY <1>0, <3>1 DEF Recounted
        <3>2. CASE r = rec /\ type = "ok"
            BY <1>0, <1>2, <3>2 DEF UpToNow
        <3> QED BY <1>1, <1>2, <3>1, <3>2
    <2>2. ASSUME NEW e \in E, NEW r \in hist', r.op = e.op
          PROVE  /\ r.f = e.f /\ r.key = e.key /\ r.type # "fail"
                 /\ r.type = "invoke" => r.t <= e.tick
                 /\ r.type = "ok" => r.value = e.value /\ e.tick < r.t
        <3>1. CASE r \in hist
            BY <1>0, <2>2, <3>1 DEF Recounted
        <3>2. CASE r = rec
            BY <1>2, <1>3, <1>4, <2>2, <3>2
        <3> QED BY <1>1, <3>1, <3>2
    <2>3. ASSUME NEW e \in E
          PROVE  (\E r \in hist' : r.op = e.op) \/ (\E p \in inFlight' : p.op = e.op)
        <3>1. CASE \E r \in hist : r.op = e.op
            BY <1>1, <3>1
        <3>2. CASE \E p \in inFlight : p.op = e.op
            BY <1>1, <1>2, <3>2
        <3> QED BY <1>0, <3>1, <3>2 DEF Recounted
    <2> QED BY <2>1, <2>2, <2>3 DEF Recounted
<1>6. UpToNow(E, start, n)'
    <2>1. \A e \in E : e.op < nextOp' /\ e.tick <= clock' /\ e.at < n
        BY <1>0, <1>1, <1>3 DEF UpToNow
    <2>2. \A p \in doubtful' : \A e \in E : e.op # p.op
        BY <1>0, <1>4 DEF UpToNow
    <2> QED BY <1>0, <2>1, <2>2 DEF UpToNow
<1>7. Execution(E, start)'
    BY <1>0
<1> QED BY <1>5, <1>6, <1>7 DEF AccountOf

\* An answer, a refusal or a timeout leaves an account of the history.
LEMMA AnsweredAccounts ==
    ASSUME DriverInv, Fail \/ Answer \/ GiveUp, recording, NEW E, NEW start, NEW n, AccountOf(E, start, n)
    PROVE  AccountOf(E, start, n)'
<1>0. driving
    BY DEF Fail, Answer, GiveUp
<1>1. CASE Fail
    <2>1. PICK q \in inFlight : ~q.executed /\ Log("fail", q, Null, {clock + 1}) /\ inFlight' = inFlight \ {q}
        BY <1>1 DEF Fail
    <2>2. doubtful' = doubtful /\ UNCHANGED <<mix, register, nextOp, recording, lies, driving>>
        BY <1>1 DEF Fail
    <2> QED BY <1>0, <2>1, <2>2, CompletingAccounts
<1>2. CASE Answer
    <2>1. PICK q \in inFlight : q.executed /\ Log("ok", q, q.value, {clock + 1}) /\ inFlight' = inFlight \ {q}
        BY <1>2 DEF Answer
    <2>2. doubtful' = doubtful /\ UNCHANGED <<mix, register, nextOp, recording, lies, driving>>
        BY <1>2 DEF Answer
    <2> QED BY <1>0, <2>1, <2>2, CompletingAccounts
<1>3. CASE GiveUp
    <2>1. PICK q \in inFlight : /\ Log(Unanswered, q, Asked(q), {clock + 1})
                                /\ doubtful' = IF q.executed \/ q.f = "read" THEN doubtful ELSE doubtful \cup {q}
                                /\ inFlight' = inFlight \ {q}
        BY <1>3 DEF GiveUp
    <2>2. UNCHANGED <<mix, register, nextOp, recording, lies, driving>>
        BY <1>3 DEF GiveUp
    <2>3. Log("info", q, Asked(q), {clock + 1})
        BY <2>1 DEF Unanswered
    <2>4. doubtful' = doubtful \/ (doubtful' = doubtful \cup {q} /\ ~q.executed)
        BY <2>1
    <2> QED BY <1>0, <2>1, <2>2, <2>3, <2>4, CompletingAccounts
<1> QED BY <1>1, <1>2, <1>3

\* So does a new request.
LEMMA CallAccounts ==
    ASSUME DriverInv, Call, recording, NEW E, NEW start, NEW n, AccountOf(E, start, n)
    PROVE  AccountOf(E, start, n)'
<1>0. DriverTypes /\ Execution(E, start) /\ Recounted(E) /\ UpToNow(E, start, n)
    BY DEF DriverInv, AccountOf, Call
<1>1. PICK f \in mix, k \in Keys :
         LET q == [op |-> nextOp, f |-> f, key |-> k, executed |-> FALSE, value |-> Null]
         IN inFlight' = inFlight \cup {q} /\ Log("invoke", q, Asked(q), {clock + 1} \cup Ties)
    BY DEF Call
<1> DEFINE q == [op |-> nextOp, f |-> f, key |-> k, executed |-> FALSE, value |-> Null]
<1>2. q.op = nextOp /\ ~q.executed /\ nextOp \in Nat /\ clock \in Nat
    BY <1>0 DEF DriverTypes
<1>3. inFlight' = inFlight \cup {q} /\ Log("invoke", q, Asked(q), {clock + 1} \cup Ties)
    BY <1>1
<1> HIDE DEF q
<1>4. nextOp' = nextOp + 1 /\ UNCHANGED <<mix, register, doubtful, recording, lies, driving>>
    BY DEF Call
<1>5. PICK t \in {clock, clock + 1} : clock' = t /\ hist' = hist \cup {RecordOf("invoke", q, Asked(q), t)}
    <2>1. {clock + 1} \cup Ties \subseteq {clock, clock + 1}
        BY DEF Ties
    <2> QED BY <1>0, <1>3, <2>1, Logged
<1> DEFINE rec == RecordOf("invoke", q, Asked(q), t)
<1>6. rec.op = nextOp /\ rec.type = "invoke"
    BY <1>2 DEF RecordOf
<1>7. hist' = hist \cup {rec}
    BY <1>5
<1> HIDE DEF rec
<1>8. \A e \in E : e.op \in Nat /\ e.tick \in Nat /\ e.op # nextOp /\ e.op < nextOp /\ e.tick <= clock
    BY <1>0, <1>2 DEF UpToNow, Execution, Enacted
<1>9. Recounted(E)'
    <2>1. \A r \in hist' : r.type = "ok" => \E e \in E : e.op = r.op
        BY <1>0, <1>6, <1>7 DEF Recounted
    <2>2. ASSUME NEW e \in E, NEW r \in hist', r.op = e.op
          PROVE  r \in hist
        BY <1>6, <1>7, <1>8, <2>2
    <2>3. ASSUME NEW e \in E
          PROVE  (\E r \in hist' : r.op = e.op) \/ (\E p \in inFlight' : p.op = e.op)
        BY <1>0, <1>3, <1>7 DEF Recounted
    <2> QED BY <1>0, <2>1, <2>2, <2>3 DEF Recounted
<1>10. UpToNow(E, start, n)'
    <2>1. \A e \in E : e.op < nextOp' /\ e.tick <= clock' /\ e.at < n
        BY <1>0, <1>2, <1>4, <1>5, <1>8 DEF UpToNow
    <2>2. \A p \in inFlight' :
             IF p.executed THEN \E e \in E : e.op = p.op /\ e.f = p.f /\ e.key = p.key /\ e.value = p.value
                           ELSE \A e \in E : e.op # p.op
        BY <1>0, <1>2, <1>3, <1>8 DEF UpToNow
    <2> QED BY <1>0, <1>4, <2>1, <2>2 DEF UpToNow
<1> QED BY <1>0, <1>9, <1>10 DEF AccountOf

\* So does the end of the driver.
LEMMA EndAccounts ==
    ASSUME End, NEW E, NEW start, NEW n, AccountOf(E, start, n)
    PROVE  AccountOf(E, start, n)'
<1>1. Execution(E, start) /\ Recounted(E) /\ ~driving' /\ hist' = hist
    BY DEF AccountOf, End
<1>2. \A q \in inFlight : \E r \in hist : r.op = q.op
    BY DEF End
<1>3. Recounted(E)'
    <2>1. \A e \in E : \E r \in hist : r.op = e.op
        BY <1>1, <1>2 DEF Recounted
    <2> QED BY <1>1, <2>1 DEF Recounted
<1> QED BY <1>1, <1>3 DEF AccountOf

\* A request takes effect now.
LEMMA EffectAccounts ==
    ASSUME DriverInv, driving, recording, NEW E, NEW start, NEW n, AccountOf(E, start, n),
           NEW q \in inFlight \cup doubtful, q \in inFlight => ~q.executed, NEW e, 
           e = [op |-> q.op, f |-> q.f, key |-> q.key, value |-> e.value, tick |-> clock, at |-> n],
           e.value \in Nat,
           IF q.f = "read" THEN e.value = register[q.key] ELSE e.value = q.op,
           register' = IF q.f = "read" THEN register ELSE [register EXCEPT ![q.key] = q.op],
           inFlight' \cap inFlight = inFlight \ {q},
           \A p \in inFlight' : p \in inFlight \/ (p.op = e.op /\ p.f = e.f /\ p.key = e.key /\ p.value = e.value /\ p.executed),
           \A p \in inFlight : \E r \in inFlight' : r.op = p.op,
           doubtful' = doubtful \ {q},
           UNCHANGED <<mix, nextOp, clock, recording, hist, driving>>
    PROVE  AccountOf(E \cup {e}, start, n + 1)'
<1> DEFINE F == E \cup {e}
<1>0. /\ DriverTypes /\ RequestsInv /\ PairsInv /\ WaitingInv
      /\ Execution(E, start) /\ Recounted(E) /\ UpToNow(E, start, n)
    BY DEF DriverInv, AccountOf
<1>1. /\ e.op = q.op /\ e.f = q.f /\ e.key = q.key /\ e.tick = clock /\ e.at = n
      /\ n \in Nat /\ clock \in Nat /\ q \in Requests
    BY <1>0 DEF UpToNow, DriverTypes
<1>2. q.op \in Nat /\ q.f \in Kinds /\ q.key \in Keys /\ q.op < nextOp
    BY <1>0, <1>1 DEF Requests, RequestsInv
<1>3. e \in Enacted
    BY <1>1, <1>2 DEF Enacted
<1>4. E \subseteq Enacted /\ \A d \in E : d.at \in Nat /\ d.at < n /\ d.tick <= clock /\ d.op < nextOp /\ d.op # q.op
    BY <1>0 DEF Execution, Enacted, UpToNow
<1>5. Execution(F, start)
    <2>1. IF e.f = "read" THEN Shows(E, start, e.key, n, e.value) ELSE e.value = e.op
        BY <1>0, <1>1, <1>2 DEF UpToNow
    <2> QED BY <1>0, <1>1, <1>3, <1>4, <2>1, EffectExecutes
<1>6. \A r \in hist : r.op = q.op =>
         /\ r.f = q.f /\ r.key = q.key /\ r.type # "fail" /\ r.type # "ok" /\ r.t <= clock
    BY <1>0 DEF WaitingInv
<1>7. Recounted(F)'
    <2>1. \A r \in hist : r.type = "ok" => \E d \in F : d.op = r.op
        BY <1>0 DEF Recounted
    <2>2. ASSUME NEW d \in F, NEW r \in hist, r.op = d.op
          PROVE  /\ r.f = d.f /\ r.key = d.key /\ r.type # "fail"
                 /\ r.type = "invoke" => r.t <= d.tick
                 /\ r.type = "ok" => r.value = d.value /\ d.tick < r.t
        <3>1. CASE d \in E
            BY <1>0, <2>2, <3>1 DEF Recounted
        <3>2. CASE d = e
            BY <1>1, <1>6, <2>2, <3>2
        <3> QED BY <3>1, <3>2
    <2>3. ASSUME NEW d \in F
          PROVE  (\E r \in hist : r.op = d.op) \/ (\E p \in inFlight' : p.op = d.op)
        <3>1. CASE d \in E
            BY <1>0, <3>1 DEF Recounted
        <3>2. CASE d = e
            <4>1. CASE q \in inFlight
                BY <1>1, <3>2, <4>1
            <4>2. CASE q \in doubtful
                BY <1>0, <1>1, <3>2, <4>2 DEF WaitingInv
            <4> QED BY <4>1, <4>2
        <3> QED BY <3>1, <3>2
    <2> HIDE DEF F
    <2> QED BY <2>1, <2>2, <2>3 DEF Recounted
<1>8. UpToNow(F, start, n + 1)'
    <2>1. \A d \in F : d.op < nextOp /\ d.tick <= clock /\ d.at < n + 1
        BY <1>1, <1>2, <1>4
    <2>2. ASSUME NEW key \in Keys
          PROVE  Shows(F, start, key, n + 1, register'[key])
        <3>1. CASE Sets(e, key)
            <4>1. Shows(F, start, key, n + 1, e.value)
                BY <1>1, <1>3, <1>4, <3>1, LaterEffect
            <4>2. register'[key] = e.value
                BY <1>0, <1>1, <3>1 DEF Sets, DriverTypes
            <4> QED BY <4>1, <4>2
        <3>2. CASE ~Sets(e, key)
            <4>1. register'[key] = register[key]
                BY <1>0, <1>1, <1>2, <3>2 DEF Sets, DriverTypes
            <4>2. Shows(E, start, key, n, register[key])
                BY <1>0 DEF UpToNow
            <4>3. Shows(F, start, key, n + 1, register[key])
                BY <1>1, <1>3, <1>4, <3>2, <4>2, LaterEffect
            <4> QED BY <4>1, <4>3
        <3> QED BY <3>1, <3>2
    <2>3. ASSUME NEW p \in inFlight'
          PROVE  IF p.executed THEN \E d \in F : d.op = p.op /\ d.f = p.f /\ d.key = p.key /\ d.value = p.value
                               ELSE \A d \in F : d.op # p.op
        <3>1. CASE p \in inFlight
            <4>1. p # q
                BY <3>1
            <4>2. p.op # q.op
                BY <1>0, <3>1, <4>1 DEF RequestsInv
            <4> QED BY <1>0, <1>1, <3>1, <4>2 DEF UpToNow
        <3>2. CASE p \notin inFlight
            BY <3>2
        <3> QED BY <3>1, <3>2
    <2>4. \A p \in doubtful' : \A d \in F : d.op # p.op
        <3> TAKE p \in doubtful'
        <3>1. p \in doubtful /\ p # q
            OBVIOUS
        <3>2. p.op # q.op
            BY <1>0, <3>1 DEF RequestsInv
        <3> QED BY <1>0, <1>1, <3>1, <3>2 DEF UpToNow
    <2>5. n + 1 \in Nat
        BY <1>1
    <2> HIDE DEF F
    <2> QED BY <2>1, <2>2, <2>3, <2>4, <2>5 DEF UpToNow
<1> QED BY <1>5, <1>7, <1>8 DEF AccountOf

\* So does a request the cluster executes while its client waits, if it tells the truth.
LEMMA ExecuteAccounts ==
    ASSUME DriverInv, Execute, recording, lies' = 0, NEW E, NEW start, NEW n, AccountOf(E, start, n)
    PROVE  lies = 0 /\ \E F, m : AccountOf(F, start, m)'
<1>0. DriverTypes /\ RequestsInv /\ driving
    BY DEF DriverInv, Execute
<1>1. PICK q \in inFlight : ~q.executed /\ (ExecuteRead(q) \/ ExecuteWrite(q))
    BY DEF Execute
<1>2. UNCHANGED <<mix, doubtful, nextOp, clock, recording, hist, driving>>
    BY DEF Execute
<1>3. q \in Requests /\ q.op \in Nat /\ q.key \in Keys /\ q \notin doubtful /\ doubtful \ {q} = doubtful
    BY <1>0 DEF DriverTypes, Requests, RequestsInv
<1>4. PICK v : /\ inFlight' = (inFlight \ {q}) \cup {[q EXCEPT !.executed = TRUE, !.value = v]}
               /\ IF q.f = "read" THEN v = register[q.key] ELSE v = q.op
               /\ register' = IF q.f = "read" THEN register ELSE [register EXCEPT ![q.key] = q.op]
               /\ lies = 0
    <2>1. CASE ExecuteRead(q)
        <3>1. PICK v \in {Null} \cup (1 .. (nextOp - 1)) :
                 /\ inFlight' = (inFlight \ {q}) \cup {[q EXCEPT !.executed = TRUE, !.value = v]}
                 /\ lies' = IF v = register[q.key] THEN lies ELSE lies + 1
            BY <2>1 DEF ExecuteRead
        <3>2. v = register[q.key] /\ lies = 0
            BY <1>0, <3>1 DEF DriverTypes
        <3>3. q.f = "read" /\ register' = register
            BY <2>1 DEF ExecuteRead
        <3> QED BY <3>1, <3>2, <3>3
    <2>2. CASE ExecuteWrite(q)
        BY <2>2 DEF ExecuteWrite
    <2> QED BY <1>1, <2>1, <2>2
<1>5. v \in Nat
    BY <1>0, <1>3, <1>4 DEF DriverTypes
<1> DEFINE p == [q EXCEPT !.executed = TRUE, !.value = v]
<1>14. PICK e : e = [op |-> q.op, f |-> q.f, key |-> q.key, value |-> v, tick |-> clock, at |-> n]
    OBVIOUS
<1>6. p.op = q.op /\ p.f = q.f /\ p.key = q.key /\ p.value = v /\ p.executed /\ p # q
    BY <1>1, <1>3 DEF Requests
<1>7. inFlight' = (inFlight \ {q}) \cup {p}
    BY <1>4
<1>8. e.value = v /\ e = [op |-> q.op, f |-> q.f, key |-> q.key, value |-> e.value, tick |-> clock, at |-> n]
      /\ e.op = q.op /\ e.f = q.f /\ e.key = q.key
    BY <1>14
<1> HIDE DEF p
<1>9. p \notin inFlight
    BY <1>0, <1>6 DEF RequestsInv
<1>10. inFlight' \cap inFlight = inFlight \ {q}
    BY <1>7, <1>9
<1>11. \A r \in inFlight' : r \in inFlight \/ (r.op = e.op /\ r.f = e.f /\ r.key = e.key /\ r.value = e.value /\ r.executed)
    BY <1>6, <1>7, <1>8
<1>12. \A r \in inFlight : \E s \in inFlight' : s.op = r.op
    BY <1>6, <1>7
<1>13. AccountOf(E \cup {e}, start, n + 1)'
    BY <1>0, <1>1, <1>2, <1>3, <1>4, <1>5, <1>8, <1>10, <1>11, <1>12, EffectAccounts
<1> QED BY <1>4, <1>13

\* So does a request executed late.
LEMMA LateAccounts ==
    ASSUME DriverInv, ExecuteLate, recording, NEW E, NEW start, NEW n, AccountOf(E, start, n)
    PROVE  \E F, m : AccountOf(F, start, m)'
<1>0. DriverTypes /\ RequestsInv /\ driving
    BY DEF DriverInv, ExecuteLate
<1>1. PICK q \in doubtful : doubtful' = doubtful \ {q} /\ register' = [register EXCEPT ![q.key] = q.op]
    BY DEF ExecuteLate
<1>2. UNCHANGED <<mix, inFlight, nextOp, clock, recording, hist, lies, driving>>
    BY DEF ExecuteLate
<1>3. q \in Requests /\ q.op \in Nat /\ q.f # "read" /\ q \notin inFlight
    BY <1>0 DEF DriverTypes, Requests, RequestsInv
<1>7. PICK e : e = [op |-> q.op, f |-> q.f, key |-> q.key, value |-> q.op, tick |-> clock, at |-> n]
    OBVIOUS
<1>4. e.value = q.op /\ e = [op |-> q.op, f |-> q.f, key |-> q.key, value |-> e.value, tick |-> clock, at |-> n]
    BY <1>7
<1>5. inFlight' \cap inFlight = inFlight \ {q}
    BY <1>2, <1>3
<1>6. AccountOf(E \cup {e}, start, n + 1)'
    BY <1>0, <1>1, <1>2, <1>3, <1>4, <1>5, EffectAccounts
<1> QED BY <1>6

\* The history begins with what has executed and waits for its answer: the
\* writes first, then the reads.
LEMMA StartAccounts ==
    ASSUME DriverInv, StartRecording
    PROVE  \E E, start, n : AccountOf(E, start, n)'
<1>0. DriverTypes /\ RequestsInv /\ WaitingInv /\ driving /\ ~recording /\ doubtful = {}
    BY DEF DriverInv, StartRecording
<1>1. \A q \in inFlight : q.executed => q.value = register[q.key]
    BY DEF StartRecording
<1>2. hist = {} /\ nextOp \in Nat /\ clock \in Nat
    BY <1>0 DEF WaitingInv, DriverTypes
<1>3. UNCHANGED <<mix, inFlight, register, doubtful, nextOp, clock, hist, lies, driving>>
    BY DEF StartRecording
<1> DEFINE done == {q \in inFlight : q.executed}
           at(q) == IF q.f = "read" THEN nextOp + q.op ELSE q.op
           effect(q) == [op |-> q.op, f |-> q.f, key |-> q.key, value |-> q.value, tick |-> clock, at |-> at(q)]
           E == {effect(q) : q \in done}
           n == nextOp + nextOp
<1>4. \A q \in done : /\ q \in Requests /\ q.op \in Nat /\ q.op < nextOp /\ q.f \in Kinds /\ q.key \in Keys
                      /\ q.value \in Nat /\ q.value = register[q.key] /\ (q.f # "read" => q.value = q.op)
                      /\ q.executed /\ q \in inFlight
    BY <1>0, <1>1 DEF DriverTypes, Requests, RequestsInv
<1>5. \A p, q \in done : p.op = q.op => p = q
    BY <1>0 DEF RequestsInv
<1>6. \A q \in done : /\ effect(q).op = q.op /\ effect(q).f = q.f /\ effect(q).key = q.key
                      /\ effect(q).value = q.value /\ effect(q).tick = clock /\ effect(q).at = at(q)
                      /\ at(q) \in Nat /\ at(q) < n /\ (q.f = "read" => nextOp <= at(q))
                      /\ (q.f # "read" => at(q) = q.op /\ at(q) < nextOp)
    BY <1>2, <1>4
<1>7. \A q \in done : effect(q) \in Enacted
    BY <1>2, <1>4, <1>6 DEF Enacted
<1>8. \A e \in E : \E q \in done : e = effect(q)
    OBVIOUS
<1> HIDE DEF done, effect, at
<1>9. E \subseteq Enacted
    BY <1>7
<1>10. \A d, e \in E : d.op = e.op \/ d.at = e.at => d = e
    <2> SUFFICES ASSUME NEW p \in done, NEW q \in done,
                        effect(p).op = effect(q).op \/ effect(p).at = effect(q).at
                 PROVE  effect(p) = effect(q)
        BY <1>8
    <2>1. p.op = q.op
        <3>1. CASE at(p) = at(q)
            <4>1. (p.f = "read") <=> (q.f = "read")
                BY <1>2, <1>6, <3>1
            <4> QED BY <1>2, <1>4, <3>1, <4>1 DEF at
        <3> QED BY <1>6, <3>1
    <2> QED BY <1>5, <2>1
\* Of the effective writes of a key there is one, whose value the key still has.
<1>11. ASSUME NEW key \in Keys, NEW place \in Nat, nextOp <= place
       PROVE  Shows(E, register, key, place, register[key])
    <2>1. \A d \in E : Sets(d, key) => d.at < place /\ d.value = register[key] /\ d.op = register[key]
        <3> SUFFICES ASSUME NEW q \in done, Sets(effect(q), key)
                     PROVE  effect(q).at < place /\ effect(q).value = register[key] /\ effect(q).op = register[key]
            BY <1>8
        <3>1. q.f # "read" /\ q.key = key
            BY <1>6 DEF Sets
        <3>2. effect(q).at < nextOp /\ effect(q).at \in Nat /\ effect(q).op = q.op /\ effect(q).value = q.value
            BY <1>6, <3>1
        <3>3. q.value = register[key] /\ q.value = q.op
            BY <1>4, <3>1
        <3> QED BY <1>2, <1>11, <3>2, <3>3
    <2>2. \A d, e \in E : Sets(d, key) /\ Sets(e, key) => d = e
        BY <1>10, <2>1
    <2>3. \A d \in E : d.at \in Nat
        BY <1>9 DEF Enacted
    <2>4. CASE \A d \in E : ~Sets(d, key)
        BY <2>4 DEF Shows
    <2>5. CASE \E d \in E : Sets(d, key)
        <3>1. PICK d \in E : Sets(d, key)
            BY <2>5
        <3>2. \A u \in E : Sets(u, key) /\ u.at < place => u.at <= d.at
            <4> TAKE u \in E
            <4>1. Sets(u, key) => u = d
                BY <2>2, <3>1
            <4> QED BY <2>3, <3>1, <4>1
        <3> HIDE DEF E
        <3> QED BY <2>1, <3>1, <3>2 DEF Shows
    <2> QED BY <2>4, <2>5
<1>12. Execution(E, register)
    <2>1. \A d, e \in E : d.at < e.at => d.tick <= e.tick
        BY <1>2, <1>6, <1>8
    <2>2. ASSUME NEW q \in done
          PROVE  IF effect(q).f = "read"
                   THEN Shows(E, register, effect(q).key, effect(q).at, effect(q).value)
                   ELSE effect(q).value = effect(q).op
        <3>1. CASE q.f = "read"
            <4>1. Shows(E, register, q.key, at(q), register[q.key])
                BY <1>4, <1>6, <1>11, <3>1
            <4> QED BY <1>4, <1>6, <3>1, <4>1
        <3>2. CASE q.f # "read"
            BY <1>4, <1>6, <3>2
        <3> QED BY <3>1, <3>2
    <2>3. \A e \in E : IF e.f = "read" THEN Shows(E, register, e.key, e.at, e.value) ELSE e.value = e.op
        BY <1>8, <2>2
    <2> HIDE DEF E
    <2> QED BY <1>9, <1>10, <2>1, <2>3 DEF Execution
<1>13. Recounted(E)
    <2>1. \A e \in E : \E q \in inFlight : q.op = e.op
        BY <1>4, <1>6, <1>8
    <2> HIDE DEF E
    <2> QED BY <1>2, <2>1 DEF Recounted
<1>14. UpToNow(E, register, n)
    <2>1. n \in Nat /\ nextOp <= n
        BY <1>2
    <2>2. \A e \in E : e.op < nextOp /\ e.tick <= clock /\ e.at < n
        BY <1>2, <1>4, <1>6, <1>8
    <2>3. \A key \in Keys : Shows(E, register, key, n, register[key])
        BY <1>11, <2>1
    <2>4. ASSUME NEW q \in inFlight
          PROVE  IF q.executed THEN \E e \in E : e.op = q.op /\ e.f = q.f /\ e.key = q.key /\ e.value = q.value
                               ELSE \A e \in E : e.op # q.op
        <3>1. CASE q.executed
            <4>1. q \in done
                BY <3>1 DEF done
            <4>2. effect(q) \in E
                BY <4>1
            <4> HIDE DEF E
            <4> QED BY <1>6, <3>1, <4>1, <4>2
        <3>2. CASE ~q.executed
            <4>1. \A p \in done : p.op # q.op
                BY <1>0, <1>4, <3>2 DEF RequestsInv
            <4> QED BY <1>6, <1>8, <3>2, <4>1
        <3> QED BY <3>1, <3>2
    <2> HIDE DEF E, n
    <2> QED BY <1>0, <2>1, <2>2, <2>3, <2>4 DEF UpToNow
<1> HIDE DEF E, n
<1>15. PICK F, start, m : F = E /\ start = register /\ m = n
    OBVIOUS
<1>16. Execution(F, start) /\ Recounted(F) /\ UpToNow(F, start, m)
    BY <1>12, <1>13, <1>14, <1>15
<1>17. Execution(F, start)' /\ Recounted(F)' /\ UpToNow(F, start, m)'
    BY <1>3, <1>16 DEF Recounted, UpToNow
<1>18. AccountOf(F, start, m)'
    BY <1>17 DEF AccountOf
<1> QED BY <1>18

\* Every step of the driver leaves an account of the history while no read is answered falsely.
LEMMA HonestKeeps == DriverInv /\ HonestInv /\ [Drive]_driverVars => HonestInv'
<1> SUFFICES ASSUME DriverInv, HonestInv, [Drive]_driverVars, recording', lies' = 0
             PROVE  \E E, start, n : AccountOf(E, start, n)'
    BY DEF HonestInv
<1>1. CASE StartRecording
    BY <1>1, StartAccounts
<1>2. CASE Execute
    <2>1. recording
        BY <1>2 DEF Execute
    <2>2. lies = 0
        <3>1. lies \in Nat
            BY DEF DriverInv, DriverTypes
        <3>2. PICK q \in inFlight : ExecuteRead(q) \/ ExecuteWrite(q)
            BY <1>2 DEF Execute
        <3>3. lies' = lies \/ lies' = lies + 1
            BY <3>2 DEF ExecuteRead, ExecuteWrite
        <3> QED BY <3>1, <3>3
    <2>3. PICK E, start, n : AccountOf(E, start, n)
        BY <2>1, <2>2 DEF HonestInv
    <2> QED BY <1>2, <2>1, <2>3, ExecuteAccounts
<1>3. CASE ExecuteLate
    <2>1. recording /\ lies = 0
        BY <1>3 DEF ExecuteLate
    <2>2. PICK E, start, n : AccountOf(E, start, n)
        BY <2>1 DEF HonestInv
    <2> QED BY <1>3, <2>1, <2>2, LateAccounts
<1>4. CASE Call \/ Fail \/ Answer \/ GiveUp \/ End
    <2>1. recording /\ lies = 0
        BY <1>4 DEF Call, Fail, Answer, GiveUp, End
    <2>2. PICK E, start, n : AccountOf(E, start, n)
        BY <2>1 DEF HonestInv
    <2>3. AccountOf(E, start, n)'
        BY <1>4, <2>1, <2>2, CallAccounts, AnsweredAccounts, EndAccounts
    <2> QED BY <2>3
<1>5. CASE UNCHANGED driverVars
    <2>1. recording /\ lies = 0
        BY <1>5 DEF driverVars
    <2>2. PICK E, start, n : AccountOf(E, start, n)
        BY <2>1 DEF HonestInv
    <2>3. Execution(E, start)' /\ Recounted(E)' /\ (driving' => UpToNow(E, start, n)')
        BY <1>5, <2>2 DEF AccountOf, Recounted, UpToNow, driverVars
    <2>4. AccountOf(E, start, n)'
        BY <2>3 DEF AccountOf
    <2> QED BY <2>4
<1> QED BY <1>1, <1>2, <1>3, <1>4, <1>5 DEF Drive

-----------------------------------------------------------------------------
Loading == {Operation(i) : i \in Kept}

\* The records of one operation, as the loader reads them.
LEMMA RecordsOf ==
    ASSUME DriverInv, SingleKey, NEW i \in Recorded
    PROVE  /\ \A r \in hist : r.op = i => r \in Invokes(i) \/ r \in Completions(i)
           /\ Invokes(i) # {} => Only(Invokes(i)) \in Invokes(i) /\ Invokes(i) = {Only(Invokes(i))}
           /\ Completions(i) # {} =>
                 Only(Completions(i)) \in Completions(i) /\ Completions(i) = {Only(Completions(i))}
           /\ Only(Invokes(i) \cup Completions(i)) \in hist
           /\ Only(Invokes(i) \cup Completions(i)).op = i
<1>1. \A r \in hist : r.op = i => r \in Invokes(i) \/ r \in Completions(i)
    BY DEF Invokes, Completions
<1>2. Invokes(i) # {} => Only(Invokes(i)) \in Invokes(i) /\ Invokes(i) = {Only(Invokes(i))}
    <2>1. \A r, s \in Invokes(i) : r = s
        BY DEF Invokes, DriverInv, PairsInv
    <2> QED BY <2>1 DEF Only
<1>3. Completions(i) # {} => Only(Completions(i)) \in Completions(i) /\ Completions(i) = {Only(Completions(i))}
    <2>1. \A r, s \in Completions(i) : r = s
        BY DEF Completions, DriverInv, PairsInv
    <2> QED BY <2>1 DEF Only
<1>4. PICK r \in hist : r.op = i
    BY DEF Recorded
<1>5. Only(Invokes(i) \cup Completions(i)) \in Invokes(i) \cup Completions(i)
    BY <1>1, <1>4 DEF Only
<1>6. Only(Invokes(i) \cup Completions(i)) \in hist /\ Only(Invokes(i) \cup Completions(i)).op = i
    BY <1>5 DEF Invokes, Completions
<1> QED BY <1>1, <1>2, <1>3, <1>6

\* An operation of the loader, by the records it was made from.
LEMMA OperationIs ==
    ASSUME DriverInv, SingleKey, NEW i \in Kept, NEW op, op = Operation(i)
    PROVE  /\ op \in Operations /\ op.id = i /\ op.key \in Keys
           /\ \A r \in hist : r.op = i => op.kind = r.f /\ op.key = r.key
           /\ op.openAtEnd = op.maybe /\ (op.maybe => op.kind = "write")
           /\ ~op.openAtStart /\ ~op.openAtEnd => op.from <= op.to
           /\ op.kind = "write" => op.value = i
           /\ ~op.openAtStart => \E r \in hist : r.op = i /\ r.type = "invoke" /\ op.from = r.t
           /\ ~op.openAtEnd => \E r \in hist : r.op = i /\ r.type = "ok" /\ op.to = r.t /\ op.value = r.value
           /\ \A r \in hist : r.op = i => r.type # "fail"
<1> DEFINE any == Only(Invokes(i) \cup Completions(i))
<1>0. DriverTypes /\ PairsInv
    BY DEF DriverInv
<1>1. i \in Recorded /\ ~Failed(i) /\ (NameOf(i) = "read" => Determinate(i))
    BY DEF Kept
<1>2. any \in hist /\ any.op = i /\ any.f = NameOf(i)
    BY <1>1, RecordsOf DEF NameOf
<1>3. \A r \in hist : r \in Records /\ r.f \in {"read", "write"} /\ r.key \in Keys /\ r.key \in Nat
                      /\ r.t \in Nat /\ r.value \in Nat /\ r.op \in Nat
                      /\ r.type \in {"invoke", "ok", "fail", "info"}
    BY <1>0, LoadgenAssumption DEF DriverTypes, Records, SingleKey
<1>4. /\ op.id = i /\ op.kind = any.f /\ op.key = any.key
      /\ op.value = IF Completions(i) # {} THEN Only(Completions(i)).value ELSE any.value
      /\ op.openAtStart = (Invokes(i) = {}) /\ op.openAtEnd = (~Determinate(i))
      /\ op.maybe = (any.f = "write" /\ ~Determinate(i))
      /\ op.from = IF Invokes(i) = {} THEN 0 ELSE Only(Invokes(i)).t
      /\ op.to = IF ~Determinate(i) THEN 0 ELSE Only(Completions(i)).t
      /\ op = [id |-> op.id, kind |-> op.kind, key |-> op.key, value |-> op.value,
               openAtStart |-> op.openAtStart, openAtEnd |-> op.openAtEnd, maybe |-> op.maybe,
               from |-> op.from, to |-> op.to]
    BY DEF Operation, OpenAtEnd
<1> HIDE DEF any
<1>5. Invokes(i) # {} => Only(Invokes(i)) \in hist /\ Only(Invokes(i)).op = i /\ Only(Invokes(i)).type = "invoke"
    <2>1. Invokes(i) # {} => Only(Invokes(i)) \in Invokes(i)
        BY <1>1, RecordsOf
    <2> QED BY <2>1 DEF Invokes
<1>6. Completions(i) # {} =>
          Only(Completions(i)) \in hist /\ Only(Completions(i)).op = i /\ Only(Completions(i)).type # "invoke"
    <2>1. Completions(i) # {} => Only(Completions(i)) \in Completions(i)
        BY <1>1, RecordsOf
    <2> QED BY <2>1 DEF Completions
<1>7. Determinate(i) => Completions(i) # {} /\ Only(Completions(i)).type = "ok"
    <2>1. Completions(i) # {} => Completions(i) = {Only(Completions(i))}
        BY <1>1, RecordsOf
    <2> QED BY <2>1 DEF Determinate
<1>8. \A r \in hist : r.op = i => op.kind = r.f /\ op.key = r.key
    BY <1>0, <1>2, <1>4 DEF PairsInv
<1>9. op.openAtEnd = op.maybe /\ (op.maybe => op.kind = "write") /\ op.kind \in {"read", "write"}
    BY <1>1, <1>2, <1>3, <1>4
<1>10. op.value \in Nat /\ op.from \in Nat /\ op.to \in Nat /\ op.key \in Keys /\ op.key \in Nat /\ op.id \in Nat
    <2>1. op.value \in Nat
        BY <1>2, <1>3, <1>4, <1>6
    <2>2. op.from \in Nat
        BY <1>3, <1>4, <1>5
    <2>3. op.to \in Nat
        BY <1>3, <1>4, <1>6, <1>7
    <2> QED BY <1>2, <1>3, <1>4, <2>1, <2>2, <2>3
<1>11. op \in Operations
    <2>1. op.openAtStart \in BOOLEAN /\ op.openAtEnd \in BOOLEAN /\ op.maybe \in BOOLEAN
        BY <1>4
    <2> QED BY <1>4, <1>9, <1>10, <2>1 DEF Operations
<1>12. \A r \in hist : r.op = i => r.type # "fail"
    BY <1>1 DEF Failed, Completions
<1>13. op.kind = "write" => op.value = i
    <2> SUFFICES ASSUME op.kind = "write" PROVE op.value = i
        OBVIOUS
    <2>1. \A r \in hist : r.op = i => r.value = i
        BY <1>0, <1>8, <1>12 DEF PairsInv
    <2> QED BY <1>2, <1>4, <1>6, <2>1
<1>14. ~op.openAtStart => \E r \in hist : r.op = i /\ r.type = "invoke" /\ op.from = r.t
    BY <1>4, <1>5
<1>15. ~op.openAtEnd => \E r \in hist : r.op = i /\ r.type = "ok" /\ op.to = r.t /\ op.value = r.value
    BY <1>4, <1>6, <1>7
<1>16. ~op.openAtStart /\ ~op.openAtEnd => op.from <= op.to
    <2> SUFFICES ASSUME ~op.openAtStart, ~op.openAtEnd PROVE op.from <= op.to
        OBVIOUS
    <2>1. PICK r \in hist : r.op = i /\ r.type = "invoke" /\ op.from = r.t
        BY <1>14
    <2>2. PICK s \in hist : s.op = i /\ s.type = "ok" /\ op.to = s.t
        BY <1>15
    <2>3. r.t < s.t
        BY <1>0, <2>1, <2>2 DEF PairsInv
    <2> QED BY <1>3, <2>1, <2>2, <2>3
<1> QED BY <1>4, <1>8, <1>9, <1>10, <1>11, <1>12, <1>13, <1>14, <1>15, <1>16

\* What the loader keeps is usable, of keys there are.
LEMMA LoadingIs ==
    ASSUME DriverInv, SingleKey
    PROVE  Usable(Loading) /\ \A op \in Loading : op.key \in Keys
<1>1. \A op \in Loading : \E i \in Kept : op = Operation(i)
    BY DEF Loading
<1>2. \A op \in Loading :
         /\ op \in Operations /\ op.key \in Keys /\ op = Operation(op.id)
         /\ op.openAtEnd = op.maybe /\ (op.maybe => op.kind = "write")
         /\ ~op.openAtStart /\ ~op.openAtEnd => op.from <= op.to
    BY <1>1, OperationIs
<1>3. IsFiniteSet(Loading)
    <2>1. IsFiniteSet(hist)
        BY DEF DriverInv, DriverTypes
    <2> DEFINE g == [r \in hist |-> r.op]
               h == [i \in Kept |-> Operation(i)]
    <2>2. IsFiniteSet(Recorded)
        <3>1. g \in Surjection(hist, Recorded)
            <4>1. g \in [hist -> Recorded] /\ \A i \in Recorded : \E r \in hist : g[r] = i
                BY DEF Recorded
            <4> HIDE DEF g
            <4> QED BY <4>1 DEF Surjection
        <3> HIDE DEF g
        <3> QED BY <2>1, <3>1, FS_Surjection
    <2>3. IsFiniteSet(Kept)
        BY <2>2, FS_Subset DEF Kept
    <2>4. h \in Surjection(Kept, Loading)
        <3>1. h \in [Kept -> Loading] /\ \A op \in Loading : \E i \in Kept : h[i] = op
            BY DEF Loading
        <3> HIDE DEF h
        <3> QED BY <3>1 DEF Surjection
    <2> HIDE DEF h
    <2> QED BY <2>3, <2>4, FS_Surjection
<1>4. \A c, d \in Loading : c.id = d.id => c = d
    BY <1>2
<1>5. Loading \in SUBSET Operations
    BY <1>2
<1> QED BY <1>2, <1>3, <1>4, <1>5 DEF Usable

\* The history of a cluster that answered every read truly has a linearization.
LEMMA HonestIsLinearizable ==
    ASSUME DriverInv, HonestInv, SingleKey, ~driving, lies = 0
    PROVE  IsLinearizable(Loading)
<1>0. /\ DriverTypes /\ PairsInv /\ recording /\ inFlight = {}
      /\ Usable(Loading) /\ \A op \in Loading : op.key \in Keys
    BY LoadingIs DEF DriverInv, WaitingInv
<1>1. PICK E, start, n : Execution(E, start) /\ Recounted(E)
    BY <1>0 DEF HonestInv, AccountOf
<1>2. \A e \in E : e.op \in Nat /\ e.at \in Nat /\ e.tick \in Nat
    BY <1>1 DEF Execution, Enacted
<1>3. \A op \in Loading : op.id \in Kept /\ op = Operation(op.id) /\ \E r \in hist : r.op = op.id
    <2> TAKE op \in Loading
    <2>1. PICK i \in Kept : op = Operation(i)
        BY DEF Loading
    <2>2. op.id = i
        BY <2>1, OperationIs
    <2>3. \E r \in hist : r.op = i
        BY DEF Kept, Recorded
    <2> QED BY <2>1, <2>2, <2>3
<1>4. \A op \in Loading :
         /\ op \in Operations /\ op.kind \in {"read", "write"}
         /\ \A r \in hist : r.op = op.id => op.kind = r.f /\ op.key = r.key
         /\ op.openAtEnd = op.maybe /\ (op.maybe => op.kind = "write") /\ op.maybe \in BOOLEAN
         /\ op.kind = "write" => op.value = op.id
         /\ ~op.openAtStart => \E r \in hist : r.op = op.id /\ r.type = "invoke" /\ op.from = r.t
         /\ ~op.openAtEnd => \E r \in hist : r.op = op.id /\ r.type = "ok" /\ op.to = r.t /\ op.value = r.value
    <2> TAKE op \in Loading
    <2>1. op.id \in Kept /\ op = Operation(op.id)
        BY <1>3
    <2>2. op \in Operations
        BY <2>1, OperationIs
    <2>3. op.kind \in {"read", "write"} /\ op.maybe \in BOOLEAN
        BY <2>2 DEF Operations
    <2> DEFINE i == op.id
    <2>4. i \in Kept /\ op = Operation(i)
        BY <2>1
    <2> HIDE DEF i
    <2>5. /\ op.id = i
          /\ \A r \in hist : r.op = i => op.kind = r.f /\ op.key = r.key
          /\ op.openAtEnd = op.maybe /\ (op.maybe => op.kind = "write")
          /\ op.kind = "write" => op.value = i
          /\ ~op.openAtStart => \E r \in hist : r.op = i /\ r.type = "invoke" /\ op.from = r.t
          /\ ~op.openAtEnd => \E r \in hist : r.op = i /\ r.type = "ok" /\ op.to = r.t /\ op.value = r.value
        BY <2>4, OperationIs
    <2> QED BY <2>2, <2>3, <2>5
<1> DEFINE of(op) == CHOOSE e \in E : e.op = op.id
           T == {op \in Loading : \E e \in E : e.op = op.id}
           R == {p \in T \X T : of(p[1]).at < of(p[2]).at}
<1>5. \A op \in T : of(op) \in E /\ of(op).op = op.id /\ op \in Loading
    OBVIOUS
<1>6. \A op \in Loading : \A e \in E : e.op = op.id => op \in T /\ of(op) = e
    <2> TAKE op \in Loading
    <2> TAKE e \in E
    <2> SUFFICES ASSUME e.op = op.id PROVE op \in T /\ of(op) = e
        OBVIOUS
    <2>1. op \in T
        OBVIOUS
    <2>2. of(op) \in E /\ of(op).op = op.id
        BY <1>5, <2>1
    <2> HIDE DEF of, T
    <2> QED BY <1>1, <2>1, <2>2 DEF Execution
<1>7. \A x, y \in T : <<x, y>> \in R <=> of(x).at < of(y).at
    OBVIOUS
<1>8. \A op \in Loading : op \notin T => op.maybe
    <2> TAKE op \in Loading
    <2> SUFFICES ASSUME ~op.maybe PROVE op \in T
        OBVIOUS
    <2>1. PICK r \in hist : r.op = op.id /\ r.type = "ok"
        BY <1>4
    <2>2. PICK e \in E : e.op = r.op
        BY <1>1, <2>1 DEF Recounted
    <2> QED BY <1>6, <2>1, <2>2
<1>9. T \subseteq Loading
    OBVIOUS
<1> HIDE DEF of, T, R
<1>10. \A x, y \in T : of(x).at \in Nat /\ (of(x).at = of(y).at => x = y)
    <2> TAKE x, y \in T
    <2>1. of(x) \in E /\ of(y) \in E /\ of(x).op = x.id /\ of(y).op = y.id /\ x \in Loading /\ y \in Loading
        BY <1>5
    <2>2. of(x).at = of(y).at => x.id = y.id
        BY <1>1, <2>1 DEF Execution
    <2> QED BY <1>0, <1>2, <2>1, <2>2 DEF Usable
<1>11. InOrder(T, R)
    <2>1. \A x \in T : <<x, x>> \notin R
        BY <1>7, <1>10
    <2>2. \A x, y \in T : x # y => <<x, y>> \in R \/ <<y, x>> \in R
        BY <1>7, <1>10
    <2>3. \A x, y, z \in T : <<x, y>> \in R /\ <<y, z>> \in R => <<x, z>> \in R
        BY <1>7, <1>10
    <2> QED BY <2>1, <2>2, <2>3 DEF InOrder
<1>12. ASSUME NEW x \in T, NEW y \in T, Real(x, y)
       PROVE  <<x, y>> \in R
    <2>1. x \in Loading /\ y \in Loading /\ ~x.openAtEnd /\ ~y.openAtStart /\ x.to < y.from
        BY <1>9, <1>12 DEF Real
    <2>2. of(x) \in E /\ of(y) \in E /\ of(x).op = x.id /\ of(y).op = y.id
        BY <1>5
    <2>3. PICK r \in hist : r.op = x.id /\ r.type = "ok" /\ x.to = r.t
        BY <1>4, <2>1
    <2>4. PICK s \in hist : s.op = y.id /\ s.type = "invoke" /\ y.from = s.t
        BY <1>4, <2>1
    <2>5. of(x).tick < r.t /\ s.t <= of(y).tick
        BY <1>1, <2>2, <2>3, <2>4 DEF Recounted
    <2>6. r.t \in Nat /\ s.t \in Nat /\ of(x).tick \in Nat /\ of(y).tick \in Nat
        BY <1>0, <1>2, <2>2 DEF DriverTypes, Records
    <2>7. of(x).tick < of(y).tick
        BY <2>1, <2>3, <2>4, <2>5, <2>6
    <2>8. ~(of(y).at < of(x).at)
        <3> SUFFICES ASSUME of(y).at < of(x).at PROVE FALSE
            OBVIOUS
        <3>1. of(y).tick <= of(x).tick
            BY <1>1, <2>2 DEF Execution
        <3> QED BY <2>6, <2>7, <3>1
    <2>9. of(x).at # of(y).at
        <3> SUFFICES ASSUME of(x).at = of(y).at PROVE FALSE
            OBVIOUS
        <3>1. of(x) = of(y)
            BY <1>1, <2>2 DEF Execution
        <3> QED BY <2>6, <2>7, <3>1
    <2> QED BY <1>7, <1>10, <2>8, <2>9
<1>13. ASSUME NEW op \in T, op.kind = "read"
       PROVE  \/ \E w \in T : LastBefore(T, R, w, op) /\ w.value = op.value
              \/ /\ \A u \in T : ~(u.kind = "write" /\ u.key = op.key /\ <<u, op>> \in R)
                 /\ op.value = start[op.key]
    <2> DEFINE e == of(op)
    <2>1. e \in E /\ e.op = op.id /\ op \in Loading
        BY <1>5
    <2>2. PICK r \in hist : r.op = op.id /\ r.type = "ok" /\ op.value = r.value
        BY <1>4, <1>13, <2>1
    <2>3. e.f = "read" /\ e.key = op.key /\ e.value = op.value
        BY <1>1, <1>4, <1>13, <2>1, <2>2 DEF Recounted
    <2>4. Shows(E, start, op.key, e.at, op.value)
        BY <1>1, <2>1, <2>3 DEF Execution
\* The writes of T are the effects that set the key.
    <2>5. ASSUME NEW u \in T, u.kind = "write", u.key = op.key
          PROVE  of(u) \in E /\ Sets(of(u), op.key) /\ of(u).value = u.value
        <3>1. u \in Loading /\ of(u) \in E /\ of(u).op = u.id
            BY <1>5
        <3>2. PICK s \in hist : s.op = u.id
            BY <1>3, <3>1
        <3>3. of(u).f = "write" /\ of(u).key = op.key
            BY <1>1, <1>4, <2>5, <3>1, <3>2 DEF Recounted
        <3>4. of(u).value = u.value
            BY <1>1, <1>4, <2>5, <3>1, <3>3 DEF Execution
        <3> QED BY <3>1, <3>3, <3>4 DEF Sets
    <2>6. ASSUME NEW d \in E, Sets(d, op.key)
          PROVE  \E w \in T : of(w) = d /\ w.kind = "write" /\ w.key = op.key /\ w.value = d.value
        <3>1. PICK s \in hist : s.op = d.op
            BY <1>0, <1>1 DEF Recounted
        <3>2. d.f # "read" /\ d.key = op.key /\ d.value = d.op
            BY <1>1, <2>6 DEF Sets, Execution
        <3>3. \A q \in hist : q.op = d.op => q.f = d.f /\ q.key = d.key /\ q.type # "fail" /\ q.f = "write"
            BY <1>1, <3>2 DEF Recounted, SingleKey
        <3>4. d.op \in Recorded
            BY <3>1 DEF Recorded
        <3>5. ~Failed(d.op)
            BY <3>3 DEF Failed, Completions
        <3>6. NameOf(d.op) # "read"
            BY <3>3, <3>4, RecordsOf DEF NameOf
        <3>7. d.op \in Kept
            BY <3>4, <3>5, <3>6 DEF Kept
        <3> DEFINE w == Operation(d.op)
        <3>8. w \in Loading
            BY <3>7 DEF Loading
        <3>9. w.id = d.op
            BY <3>7, OperationIs
        <3> HIDE DEF w
        <3>10. w \in T /\ of(w) = d
            BY <1>6, <3>8, <3>9
        <3>11. w.kind = "write" /\ w.key = op.key /\ w.value = d.value
            BY <1>4, <3>1, <3>2, <3>3, <3>8, <3>9
        <3> QED BY <3>10, <3>11
    <2> HIDE DEF e
    <2>7. CASE /\ \A d \in E : ~(Sets(d, op.key) /\ d.at < e.at)
               /\ op.value = start[op.key]
        <3>1. ASSUME NEW u \in T, u.kind = "write", u.key = op.key, <<u, op>> \in R
              PROVE  FALSE
            <4>1. of(u).at < e.at
                BY <1>7, <3>1 DEF e
            <4> QED BY <2>5, <2>7, <3>1, <4>1
        <3> QED BY <2>7, <3>1
    <2>8. CASE \E d \in E : /\ Sets(d, op.key) /\ d.at < e.at /\ d.value = op.value
                            /\ \A u \in E : Sets(u, op.key) /\ u.at < e.at => u.at <= d.at
        <3>1. PICK d \in E : /\ Sets(d, op.key) /\ d.at < e.at /\ d.value = op.value
                             /\ \A u \in E : Sets(u, op.key) /\ u.at < e.at => u.at <= d.at
            BY <2>8
        <3>2. PICK w \in T : of(w) = d /\ w.kind = "write" /\ w.key = op.key /\ w.value = d.value
            BY <2>6, <3>1
        <3>3. <<w, op>> \in R
            BY <1>7, <3>1, <3>2 DEF e
        <3>4. ASSUME NEW u \in T, u.kind = "write", u.key = op.key, <<u, op>> \in R
              PROVE  u = w \/ <<u, w>> \in R
            <4>1. of(u).at < e.at
                BY <1>7, <3>4 DEF e
            <4>2. of(u).at <= of(w).at
                BY <2>5, <3>1, <3>2, <3>4, <4>1
            <4> QED BY <1>7, <1>10, <4>2
        <3>5. LastBefore(T, R, w, op)
            BY <3>2, <3>3, <3>4 DEF LastBefore
        <3> QED BY <3>1, <3>2, <3>5
    <2> QED BY <2>4, <2>7, <2>8 DEF Shows
<1> QED BY <1>0, <1>8, <1>9, <1>11, <1>12, <1>13, OrderExplains

KeysOf(S) == {op.key : op \in S}

\* A key that uses no more than its share leaves the others theirs.
LEMMA SharesLeave ==
    ASSUME NEW m \in Nat \ {0}, NEW q \in Nat, NEW rest \in Nat \ {0}, m * q <= rest,
           NEW states \in Nat, states <= Max({1, rest \div m})
    PROVE  (m - 1) * q <= rest - states
<1> DEFINE d == rest \div m
<1>1. d \in Nat /\ m * d <= rest /\ rest < m * d + m
    OBVIOUS
<1>2. d \in {1, d} /\ IsFiniteSet({1, d}) /\ {1, d} # {} /\ {1, d} \subseteq Nat
    <2>1. IsFiniteSet({1}) /\ IsFiniteSet({1} \cup {d})
        BY FS_Singleton, FS_AddElement
    <2>2. {1} \cup {d} = {1, d}
        OBVIOUS
    <2> HIDE DEF d
    <2> QED BY <1>1, <2>1, <2>2
<1> HIDE DEF d
<1>3. Max({1, d}) \in {1, d}
    BY <1>2, GreatestNumber
<1>4. states <= Max({1, d})
    BY DEF d
<1>5. q <= d
    <2> SUFFICES ASSUME d + 1 <= q PROVE FALSE
        BY <1>1
    <2>1. m * (d + 1) <= m * q
        BY <1>1
    <2>2. m * (d + 1) = m * d + m
        BY <1>1
    <2>3. m * (d + 1) \in Int /\ m * q \in Int /\ m * d \in Int
        BY <1>1
    <2> QED BY <1>1, <2>1, <2>2, <2>3
<1>6. m * q \in Int /\ m * d \in Int /\ (m - 1) * q = m * q - q /\ (m - 1) * d = m * d - d
    BY <1>1
<1>7. CASE states <= d
    <2>1. (m - 1) * q <= (m - 1) * d
        BY <1>1, <1>5
    <2>2. (m - 1) * q \in Int /\ (m - 1) * d \in Int
        BY <1>1
    <2> QED BY <1>1, <1>6, <1>7, <2>1, <2>2
<1>8. CASE ~(states <= d)
    <2>1. d = 0 /\ states <= 1
        BY <1>1, <1>3, <1>4, <1>8
    <2>2. q = 0
        BY <1>5, <2>1
    <2>3. (m - 1) * q = 0
        BY <2>2
    <2> QED BY <2>1, <2>3
<1> QED BY <1>7, <1>8

\* The equal parts of a whole are no more than it.
LEMMA WholeIsShared ==
    ASSUME NEW m \in Nat \ {0}, NEW whole \in Nat
    PROVE  whole \div m \in Nat /\ m * (whole \div m) <= whole
OBVIOUS

\* What the search leaves alone in the searcher.
LEMMA TryLeaves ==
    ASSUME NEW s \in Searchers, NEW op, NEW from
    PROVE  TryFrom(s, op, from) # Stuck =>
              /\ TryFrom(s, op, from).key = s.key
              /\ TryFrom(s, op, from).ops = s.ops
              /\ TryFrom(s, op, from).share = s.share
BY DEF TryFrom, Searchers

\* A key without operations has a chain.
LEMMA NoneIsChained == Chained({})
<1> DEFINE c == [i \in 1 .. 0 |-> {}]
           v == [i \in 1 .. 1 |-> Undetermined]
<1>1. c \in [1 .. 0 -> {}] /\ v \in [1 .. 0 + 1 -> Registers] /\ v[1] = Undetermined
    BY DEF Registers
<1>2. {} = {c[i] : i \in 1 .. 0} /\ \A j \in 1 .. 0 : FALSE
    OBVIOUS
<1> HIDE DEF c, v
<1>3. ChainOf({}, 0, c, v)
    BY <1>1, <1>2 DEF ChainOf
<1> QED BY <1>3 DEF Chained

-----------------------------------------------------------------------------
LoadInv ==
    stage = "load" => status = "none" /\ results = {} /\ used = 0

ResultsInv ==
    /\ \A r \in results :
          /\ r.key \in KeysOf(ops)
          /\ r.outcome = "linearizable" => Chained(OfKey(ops, r.key))
          /\ r.outcome = "violated" => ~Alive(OfKey(ops, r.key), Undetermined, {})
    /\ (\A r \in results : r.outcome # "violated") =>
          \A key \in KeysOf(ops) : key \in left \/ \E r \in results : r.key = key

BudgetInv ==
    /\ limit \in Nat /\ used \in Nat /\ left \subseteq KeysOf(ops)
    /\ left # {} => Cardinality(left) * (limit \div Cardinality(KeysOf(ops))) <= limit - used

SearcherInv ==
    search # NoSearch =>
        /\ search.key \in left /\ search.ops = OfKey(ops, search.key)
        /\ limit > used /\ search.share = Share /\ SearchInv(search)

CheckerInv ==
    /\ stage \in {"load", "search", "done"} /\ LoadInv
    /\ stage # "load" => ~driving
    /\ stage = "search" => SingleKey /\ ops = Loading /\ ResultsInv /\ BudgetInv /\ SearcherInv
    /\ stage # "search" => search = NoSearch /\ left = {}
    /\ stage = "done" =>
          /\ status = "ok" => SingleKey /\ IsLinearizable(ops)
          /\ status = "violated" => ~IsLinearizable(ops) /\ lies > 0
    /\ stage # "done" => status = "none"

VerdictInv == DriverInv /\ HonestInv /\ CheckerInv

\* The keys of the operations the loader kept.
LEMMA KeysAre ==
    ASSUME DriverInv, SingleKey
    PROVE  /\ Usable(Loading) /\ KeysOf(Loading) \subseteq Keys /\ KeysOf(Loading) \subseteq Nat
           /\ IsFiniteSet(KeysOf(Loading))
           /\ \A key \in Keys : key \notin KeysOf(Loading) => OfKey(Loading, key) = {}
           /\ \A key : Usable(OfKey(Loading, key))
<1>1. Usable(Loading) /\ \A op \in Loading : op.key \in Keys
    BY LoadingIs
<1>2. KeysOf(Loading) \subseteq Keys
    BY <1>1 DEF KeysOf
<1>3. IsFiniteSet(KeysOf(Loading)) /\ KeysOf(Loading) \subseteq Nat
    BY <1>2, LoadgenAssumption, FS_Subset
<1>4. \A key \in Keys : key \notin KeysOf(Loading) => OfKey(Loading, key) = {}
    BY DEF KeysOf, OfKey
<1>5. \A key : Usable(OfKey(Loading, key))
    BY <1>1, LoadedParts DEF OfKey
<1> QED BY <1>1, <1>2, <1>3, <1>4, <1>5

\* The inductive invariant holds at the start.
LEMMA CheckerStarts == CheckerInit => VerdictInv
<1> SUFFICES ASSUME CheckerInit PROVE VerdictInv
    OBVIOUS
<1>1. DriverInv
    BY DriverStarts DEF CheckerInit
<1>2. CheckerInv
    BY DEF CheckerInit, CheckerInv, LoadInv
<1>3. HonestInv
    <2>1. hist = {} /\ inFlight = {} /\ doubtful = {} /\ register \in [Keys -> Nat] /\ nextOp = 1
        BY <1>1 DEF CheckerInit, DriverInit, DriverInv, DriverTypes
    <2>2. Execution({}, register) /\ Recounted({}) /\ UpToNow({}, register, 0)
        BY <2>1 DEF Execution, Recounted, UpToNow, Shows
    <2> QED BY <2>2 DEF HonestInv, AccountOf
<1> QED BY <1>1, <1>2, <1>3 DEF VerdictInv

\* What is kept while the checker works: the history has ended.
LEMMA HistoryStands ==
    ASSUME DriverInv, HonestInv, UNCHANGED driverVars
    PROVE  /\ DriverInv' /\ HonestInv' /\ driving' = driving /\ lies' = lies
           /\ SingleKey' = SingleKey /\ Loading' = Loading
<1>1. [Drive]_driverVars
    OBVIOUS
<1>2. DriverInv' /\ HonestInv'
    BY <1>1, DriverKeeps, HonestKeeps
<1>3. driving' = driving /\ lies' = lies /\ hist' = hist
    BY DEF driverVars
<1>4. SingleKey' = SingleKey /\ Loading' = Loading
    BY <1>3 DEF SingleKey, Loading, Kept, Recorded, Failed, NameOf, Determinate, Completions, Invokes,
                Operation, OpenAtEnd, Only
<1> QED BY <1>2, <1>3, <1>4

\* While the driver works, the checker waits.
LEMMA DrivingKeeps ==
    ASSUME VerdictInv, Drive, UNCHANGED checkVars
    PROVE  VerdictInv'
<1>1. DriverInv' /\ HonestInv'
    BY DriverKeeps, HonestKeeps DEF VerdictInv
<1>2. driving
    BY DEF Drive, Call, Execute, Fail, Answer, GiveUp, ExecuteLate, StartRecording, End
<1>3. stage = "load"
    BY <1>2 DEF VerdictInv, CheckerInv
<1>4. CheckerInv'
    BY <1>3 DEF VerdictInv, CheckerInv, LoadInv, checkVars
<1> QED BY <1>1, <1>4 DEF VerdictInv

\* The loader.
LEMMA LoadKeeps ==
    ASSUME VerdictInv, Load
    PROVE  VerdictInv'
<1>1. /\ DriverInv' /\ HonestInv' /\ driving' = driving /\ lies' = lies
      /\ SingleKey' = SingleKey /\ Loading' = Loading
    BY HistoryStands DEF VerdictInv, Load
<1>2. /\ stage = "load" /\ ~driving /\ limit' \in Nat /\ status = "none" /\ results' = {} /\ used' = 0
      /\ search' = NoSearch /\ left = {}
    BY LinearizableAssumption DEF Load, VerdictInv, CheckerInv, LoadInv
<1>3. CASE stage' = "search" /\ SingleKey /\ ops' = Loading /\ left' = KeysOf(Loading) /\ status' = status
    <2>1. IsFiniteSet(KeysOf(Loading))
        BY <1>3, KeysAre DEF VerdictInv
    <2>2. KeysOf(ops') = left'
        BY <1>3
    <2>3. BudgetInv'
        <3>1. left' # {} => Cardinality(left') \in Nat \ {0}
            BY <1>3, <2>1, FS_CardinalityType, FS_EmptySet
        <3>2. left' # {} => Cardinality(left') * (limit' \div Cardinality(KeysOf(ops'))) <= limit' - used'
            <4> SUFFICES ASSUME left' # {}
                         PROVE Cardinality(left') * (limit' \div Cardinality(left')) <= limit' - used'
                BY <2>2
            <4>1. PICK m \in Nat \ {0} : m = Cardinality(left')
                BY <3>1
            <4>2. PICK whole \in Nat : whole = limit'
                BY <1>2
            <4>3. m * (whole \div m) <= whole /\ whole - 0 = whole
                BY WholeIsShared
            <4> QED BY <1>2, <4>1, <4>2, <4>3
        <3> QED BY <1>2, <2>2, <3>2 DEF BudgetInv, KeysOf
    <2>4. ResultsInv'
        BY <1>2, <2>2 DEF ResultsInv, KeysOf
    <2>5. SearcherInv'
        BY <1>2 DEF SearcherInv
    <2>6. CheckerInv'
        BY <1>1, <1>2, <1>3, <2>3, <2>4, <2>5 DEF CheckerInv, LoadInv
    <2> QED BY <1>1, <2>6 DEF VerdictInv
<1>4. CASE stage' = "done" /\ status' = "inconclusive" /\ left' = left
    <2>1. CheckerInv'
        BY <1>1, <1>2, <1>4 DEF CheckerInv, LoadInv
    <2> QED BY <1>1, <2>1 DEF VerdictInv
<1> QED BY <1>3, <1>4 DEF Load, Loading, KeysOf

\* The refusal of a history.
LEMMA RefuseKeeps ==
    ASSUME VerdictInv, Refuse
    PROVE  VerdictInv'
<1>1. /\ DriverInv' /\ HonestInv' /\ driving' = driving /\ lies' = lies
    BY HistoryStands DEF VerdictInv, Refuse
<1>2. CheckerInv'
    BY <1>1 DEF CheckerInv, LoadInv, VerdictInv, Refuse
<1> QED BY <1>1, <1>2 DEF VerdictInv

\* What holds while the keys are searched.
LEMMA Searching ==
    ASSUME VerdictInv, stage = "search"
    PROVE  /\ DriverInv /\ HonestInv /\ ~driving /\ SingleKey /\ ops = Loading /\ status = "none"
           /\ ResultsInv /\ BudgetInv /\ SearcherInv
           /\ Usable(ops) /\ KeysOf(ops) \subseteq Keys /\ KeysOf(ops) \subseteq Nat
           /\ IsFiniteSet(left) /\ left \subseteq Nat /\ IsFiniteSet(KeysOf(ops))
           /\ left # {} => Cardinality(left) \in Nat \ {0} /\ Cardinality(KeysOf(ops)) \in Nat \ {0}
           /\ \A key : Usable(OfKey(ops, key))
<1>1. /\ DriverInv /\ HonestInv /\ ~driving /\ SingleKey /\ ops = Loading /\ status = "none"
      /\ ResultsInv /\ BudgetInv /\ SearcherInv
    BY DEF VerdictInv, CheckerInv
<1>2. /\ Usable(ops) /\ KeysOf(ops) \subseteq Keys /\ KeysOf(ops) \subseteq Nat
      /\ IsFiniteSet(KeysOf(ops)) /\ \A key : Usable(OfKey(ops, key))
    BY <1>1, KeysAre
<1>3. left \subseteq KeysOf(ops)
    BY <1>1 DEF BudgetInv
<1>4. IsFiniteSet(left) /\ left \subseteq Nat
    BY <1>2, <1>3, FS_Subset
<1>5. left # {} => Cardinality(left) \in Nat \ {0} /\ Cardinality(KeysOf(ops)) \in Nat \ {0}
    <2> SUFFICES ASSUME left # {} PROVE Cardinality(left) \in Nat \ {0} /\ Cardinality(KeysOf(ops)) \in Nat \ {0}
        OBVIOUS
    <2>1. KeysOf(ops) # {}
        BY <1>3
    <2> QED BY <1>2, <1>4, <2>1, FS_CardinalityType, FS_EmptySet
<1> QED BY <1>1, <1>2, <1>4, <1>5

\* A key was searched, or there was nothing to search it with.
LEMMA ConclusionKeeps ==
    ASSUME VerdictInv, stage = "search", NEW key \in left, NEW outcome, NEW states \in Nat,
           Concluded(key, outcome, states),
           (Cardinality(left) - 1) * (limit \div Cardinality(KeysOf(ops))) <= limit - used - states,
           outcome = "linearizable" => Chained(OfKey(ops, key)),
           outcome = "violated" => ~Alive(OfKey(ops, key), Undetermined, {})
    PROVE  VerdictInv'
<1>1. /\ DriverInv' /\ HonestInv' /\ driving' = driving /\ lies' = lies
      /\ SingleKey' = SingleKey /\ Loading' = Loading
    BY HistoryStands DEF VerdictInv, Concluded
<1>2. /\ results' = results \cup {[key |-> key, outcome |-> outcome, states |-> states]}
      /\ used' = used + states /\ left' = IF outcome = "violated" THEN {} ELSE left \ {key}
      /\ search' = NoSearch /\ limit' = limit /\ stage' = stage /\ ops' = ops /\ status' = status
    BY DEF Concluded
<1>3. /\ ~driving /\ SingleKey /\ ops = Loading /\ status = "none"
      /\ ResultsInv /\ BudgetInv /\ IsFiniteSet(left) /\ key \in KeysOf(ops)
    BY Searching DEF BudgetInv
<1>4. ResultsInv'
    <2>0. PICK new : new = [key |-> key, outcome |-> outcome, states |-> states]
        OBVIOUS
    <2>3. new \in results' /\ results \subseteq results' /\ new.key = key /\ new.outcome = outcome
        BY <1>2, <2>0
    <2>1. ASSUME NEW r \in results'
          PROVE  /\ r.key \in KeysOf(ops)
                 /\ r.outcome = "linearizable" => Chained(OfKey(ops, r.key))
                 /\ r.outcome = "violated" => ~Alive(OfKey(ops, r.key), Undetermined, {})
        BY <1>2, <1>3 DEF ResultsInv
    <2>2. ASSUME \A r \in results' : r.outcome # "violated", NEW k \in KeysOf(ops)
          PROVE  k \in left' \/ \E r \in results' : r.key = k
        <3>1. outcome # "violated" /\ \A r \in results : r.outcome # "violated"
            BY <2>2, <2>3
        <3>2. k \in left \/ \E r \in results : r.key = k
            BY <1>3, <3>1 DEF ResultsInv
        <3>3. CASE k = key
            BY <2>3, <3>3
        <3> QED BY <1>2, <2>3, <3>1, <3>2, <3>3
    <2> QED BY <1>2, <2>1, <2>2 DEF ResultsInv
<1>5. BudgetInv'
    <2>1. Cardinality(left \ {key}) = Cardinality(left) - 1
        BY <1>3, FS_RemoveElement
    <2>2. limit \in Nat /\ used \in Nat /\ left \subseteq KeysOf(ops)
        BY <1>3 DEF BudgetInv
    <2>3. limit' \in Nat /\ used' \in Nat /\ left' \subseteq KeysOf(ops)
        BY <1>2, <2>2
    <2>4. left' # {} => Cardinality(left') = Cardinality(left) - 1
        BY <1>2, <2>1
    <2>5. limit' - used' = limit - used - states
        BY <1>2, <2>2
    <2> QED BY <1>2, <2>3, <2>4, <2>5 DEF BudgetInv
<1>6. CheckerInv'
    BY <1>1, <1>2, <1>3, <1>4, <1>5 DEF CheckerInv, LoadInv, SearcherInv
<1> QED BY <1>1, <1>6 DEF VerdictInv

\* The share of a key is a number.
LEMMA ShareIs ==
    ASSUME VerdictInv, stage = "search", left # {}, limit > used
    PROVE  /\ limit - used \in Nat \ {0} /\ Share \in Nat
           /\ Share = Max({1, (limit - used) \div Cardinality(left)})
<1>1. Cardinality(left) \in Nat \ {0} /\ limit \in Nat /\ used \in Nat
    BY Searching DEF BudgetInv
<1>2. PICK m \in Nat \ {0}, rest \in Nat \ {0} : m = Cardinality(left) /\ rest = limit - used
    BY <1>1
<1>3. PICK d \in Nat : d = rest \div m
    OBVIOUS
<1>4. {1, d} # {} /\ {1, d} \subseteq Nat /\ IsFiniteSet({1, d})
    <2>1. IsFiniteSet({1}) /\ IsFiniteSet({1} \cup {d})
        BY FS_Singleton, FS_AddElement
    <2>2. {1} \cup {d} = {1, d}
        OBVIOUS
    <2> QED BY <2>1, <2>2
<1>5. Max({1, d}) \in Nat
    BY <1>4, GreatestNumber
<1> QED BY <1>2, <1>3, <1>5 DEF Share

\* The parts of a search under way.
LEMMA UnderWay ==
    ASSUME VerdictInv, search # NoSearch
    PROVE  /\ stage = "search" /\ search.key \in left /\ search.ops = OfKey(ops, search.key)
           /\ limit > used /\ search.share = Share /\ SearchInv(search)
           /\ search \in Searchers /\ search.states \in Nat
           /\ (Cardinality(left) - 1) * (limit \div Cardinality(KeysOf(ops))) <= limit - used - search.states
<1>1. /\ stage = "search" /\ search.key \in left /\ search.ops = OfKey(ops, search.key)
      /\ limit > used /\ search.share = Share /\ SearchInv(search)
    BY DEF VerdictInv, CheckerInv, SearcherInv
<1>2. search \in Searchers /\ search.states \in Nat /\ search.states <= Share
    BY <1>1 DEF SearchInv, BaseInv, PathInv, Searchers
<1>3. left # {} /\ limit - used \in Nat \ {0} /\ Share = Max({1, (limit - used) \div Cardinality(left)})
    BY <1>1, ShareIs
<1>4. /\ Cardinality(left) \in Nat \ {0} /\ Cardinality(KeysOf(ops)) \in Nat \ {0} /\ limit \in Nat
      /\ Cardinality(left) * (limit \div Cardinality(KeysOf(ops))) <= limit - used
    BY <1>1, <1>3, Searching DEF BudgetInv
<1>5. PICK m \in Nat \ {0}, rest \in Nat \ {0}, k \in Nat \ {0}, whole \in Nat :
         m = Cardinality(left) /\ rest = limit - used /\ k = Cardinality(KeysOf(ops)) /\ whole = limit
    BY <1>3, <1>4
<1>6. PICK q \in Nat : q = whole \div k
    BY WholeIsShared
<1>7. PICK states \in Nat : states = search.states
    BY <1>2
<1>8. (m - 1) * q <= rest - states
    BY <1>2, <1>3, <1>4, <1>5, <1>6, <1>7, SharesLeave
<1> QED BY <1>1, <1>2, <1>5, <1>6, <1>7, <1>8

\* A key gets its share and a searcher.
LEMMA SliceKeeps ==
    ASSUME VerdictInv, TakeSlice
    PROVE  VerdictInv'
<1> DEFINE key == Min(left)
           new == [key |-> key, ops |-> OfKey(ops, key), value |-> Undetermined, linear |-> {}, stack |-> <<>>,
                   memo |-> {}, states |-> 0, share |-> Share, entry |-> ListEnd]
<1>1. /\ DriverInv' /\ HonestInv' /\ driving' = driving /\ lies' = lies
      /\ SingleKey' = SingleKey /\ Loading' = Loading
    BY HistoryStands DEF VerdictInv, TakeSlice
<1>2. /\ stage = "search" /\ left # {} /\ limit > used /\ search' = Searcher(key)
      /\ limit' = limit /\ stage' = stage /\ ops' = ops /\ left' = left /\ used' = used
      /\ results' = results /\ status' = status
    BY DEF TakeSlice
<1>3. /\ ~driving /\ SingleKey /\ ops = Loading /\ status = "none" /\ ResultsInv /\ BudgetInv
      /\ left \subseteq Nat /\ Usable(OfKey(ops, key))
    BY <1>2, Searching
<1>4. key \in left /\ key \in Nat
    BY <1>2, <1>3, SmallestNumber
<1>5. Share \in Nat
    BY <1>2, ShareIs
<1>6. BaseInv(new)
    BY <1>3, <1>4, <1>5, NewSearcher
<1>7. Searcher(key) = [new EXCEPT !.entry = HeadNext(new)]
    BY DEF Searcher, OpsOf, OfKey
<1>8. SearchInv(Searcher(key))
    <2> HIDE DEF new
    <2> QED BY <1>6, <1>7, HeadKeeps
<1>9. Searcher(key).key = key /\ Searcher(key).ops = OfKey(ops, key) /\ Searcher(key).share = Share
    BY <1>7
<1>10. Share' = Share
    BY <1>2 DEF Share
<1>11. PICK k, s : k = key /\ s = Searcher(key)
    OBVIOUS
<1> HIDE DEF key, new
<1>12. /\ search' = s /\ k \in left' /\ s.key = k /\ s.ops = OfKey(ops', k) /\ s.share = Share'
       /\ SearchInv(s) /\ limit' > used'
    BY <1>2, <1>4, <1>8, <1>9, <1>10, <1>11
<1>13. SearcherInv'
    <2>1. SearchInv(s)' = SearchInv(search)'
        BY <1>12
    <2>2. SearchInv(search)'
        BY <1>12
    <2>3. OfKey(ops, search.key)' = OfKey(ops', search'.key)
        BY DEF OfKey
    <2> QED BY <1>12, <2>2, <2>3 DEF SearcherInv
<1>14. ResultsInv' /\ BudgetInv'
    BY <1>2, <1>3 DEF ResultsInv, BudgetInv, KeysOf, OfKey
<1>15. CheckerInv'
    BY <1>1, <1>2, <1>3, <1>13, <1>14 DEF CheckerInv, LoadInv
<1> QED BY <1>1, <1>15 DEF VerdictInv

\* A step of the searcher that keeps its key, its operations and its share.
LEMMA SearcherKeeps ==
    ASSUME VerdictInv, search # NoSearch, NEW t, search' = t, SearchInv(t),
           t.key = search.key, t.ops = search.ops, t.share = search.share,
           UNCHANGED <<driverVars, limit, stage, ops, left, used, results, status>>
    PROVE  VerdictInv'
<1>1. /\ DriverInv' /\ HonestInv' /\ driving' = driving /\ lies' = lies
      /\ SingleKey' = SingleKey /\ Loading' = Loading
    BY HistoryStands DEF VerdictInv
<1>2. /\ limit' = limit /\ stage' = stage /\ ops' = ops /\ left' = left /\ used' = used
      /\ results' = results /\ status' = status
    OBVIOUS
<1>3. /\ stage = "search" /\ search.key \in left /\ search.ops = OfKey(ops, search.key)
      /\ limit > used /\ search.share = Share
    BY UnderWay
<1>4. ~driving /\ SingleKey /\ ops = Loading /\ status = "none" /\ ResultsInv /\ BudgetInv
    BY <1>3, Searching
<1>5. Share' = Share
    BY <1>2 DEF Share
<1>6. SearcherInv'
    <2>1. search'.key \in left' /\ search'.ops = OfKey(ops', search'.key) /\ limit' > used' /\ search'.share = Share'
        BY <1>2, <1>3, <1>5
    <2>2. SearchInv(search')
        OBVIOUS
    <2> QED BY <2>1, <2>2 DEF SearcherInv, OfKey
<1>7. ResultsInv' /\ BudgetInv'
    BY <1>2, <1>4 DEF ResultsInv, BudgetInv, KeysOf, OfKey
<1>8. CheckerInv'
    BY <1>1, <1>2, <1>3, <1>4, <1>6, <1>7 DEF CheckerInv, LoadInv
<1> QED BY <1>1, <1>8 DEF VerdictInv

\* The search goes on with the operation at its entry.
LEMMA TryingKeeps ==
    ASSUME VerdictInv, Try
    PROVE  VerdictInv'
<1>1. PICK t : t = LET next == TryFrom(search, search.entry.op, 1)
                   IN IF next # Stuck THEN next ELSE [search EXCEPT !.entry = NextOf(search, search.entry)]
    OBVIOUS
<1>2. /\ search # NoSearch /\ search.states < search.share /\ search.entry # ListEnd /\ ~search.entry.return
      /\ UNCHANGED <<driverVars, limit, stage, ops, left, used, results, status>>
    BY DEF Try, Exploring, AtCall
<1>3. search' = t
    BY <1>1 DEF Try
<1>4. SearchInv(search) /\ search \in Searchers
    BY <1>2, UnderWay
<1>5. SearchInv(t)
    BY <1>1, <1>2, <1>4, TryStep, LinearizableAssumption
<1>6. t.key = search.key /\ t.ops = search.ops /\ t.share = search.share
    <2>1. CASE TryFrom(search, search.entry.op, 1) # Stuck
        BY <1>1, <1>4, <2>1, TryLeaves
    <2>2. CASE TryFrom(search, search.entry.op, 1) = Stuck
        <3>1. t = [search EXCEPT !.entry = NextOf(search, search.entry)]
            BY <1>1, <2>2
        <3> QED BY <1>4, <3>1 DEF Searchers
    <2> QED BY <2>1, <2>2
<1> QED BY <1>2, <1>3, <1>5, <1>6, SearcherKeeps

\* The search undoes its last choice.
LEMMA BacktrackingKeeps ==
    ASSUME VerdictInv, Backtrack
    PROVE  VerdictInv'
<1>1. PICK f, undone : f = Last(search.stack) /\ undone = Undone(search)
    OBVIOUS
<1>2. PICK t : t = LET next == TryFrom(undone, f.call, f.alt + 1)
                   IN IF next # Stuck THEN next
                      ELSE [undone EXCEPT !.entry = NextOf(undone, [op |-> f.call, return |-> FALSE])]
    OBVIOUS
<1>3. /\ search # NoSearch /\ Listed(search) # {} /\ search.states < search.share
      /\ (search.entry = ListEnd \/ search.entry.return) /\ search.stack # <<>>
      /\ UNCHANGED <<driverVars, limit, stage, ops, left, used, results, status>>
    BY DEF Backtrack, Exploring, AtCall
<1>4. search' = t
    BY <1>1, <1>2 DEF Backtrack, Undone
<1>5. SearchInv(search) /\ search \in Searchers
    BY <1>3, UnderWay
<1>6. SearchInv(t)
    BY <1>1, <1>2, <1>3, <1>5, BacktrackStep, LinearizableAssumption
<1>7. /\ undone \in Searchers
      /\ undone.key = search.key /\ undone.ops = search.ops /\ undone.share = search.share
    <2>1. BaseInv(search) /\ PathInv(search)
        BY <1>5 DEF SearchInv, BaseInv
    <2>2. ~Alive(search.ops, search.value, search.linear)
        BY <1>3, <1>5, ReturnIsDead
    <2>3. BaseInv(undone)
        BY <1>1, <1>3, <2>1, <2>2, UndoneKeeps
    <2>4. undone.key = search.key /\ undone.ops = search.ops /\ undone.share = search.share
        BY <1>1, <1>5 DEF Undone, Searchers
    <2> QED BY <2>3, <2>4 DEF BaseInv, PathInv
<1>8. t.key = search.key /\ t.ops = search.ops /\ t.share = search.share
    <2>1. CASE TryFrom(undone, f.call, f.alt + 1) # Stuck
        BY <1>2, <1>7, <2>1, TryLeaves
    <2>2. CASE TryFrom(undone, f.call, f.alt + 1) = Stuck
        <3>1. t = [undone EXCEPT !.entry = NextOf(undone, [op |-> f.call, return |-> FALSE])]
            BY <1>2, <2>2
        <3> QED BY <1>7, <3>1 DEF Searchers
    <2> QED BY <2>1, <2>2
<1> QED BY <1>3, <1>4, <1>6, <1>8, SearcherKeeps

\* Nothing is left for a key.
LEMMA NoBudgetKeeps ==
    ASSUME VerdictInv, NoBudget
    PROVE  VerdictInv'
<1>1. stage = "search" /\ left # {} /\ Concluded(Min(left), "exhausted", 0)
    BY DEF NoBudget
<1>2. /\ left \subseteq Nat /\ BudgetInv /\ Cardinality(left) \in Nat \ {0}
      /\ Cardinality(KeysOf(ops)) \in Nat \ {0}
    BY <1>1, Searching
<1>3. Min(left) \in left
    BY <1>1, <1>2, SmallestNumber
<1>4. (Cardinality(left) - 1) * (limit \div Cardinality(KeysOf(ops))) <= limit - used - 0
    <2>1. /\ limit \in Nat /\ used \in Nat
          /\ Cardinality(left) * (limit \div Cardinality(KeysOf(ops))) <= limit - used
        BY <1>1, <1>2 DEF BudgetInv
    <2>2. PICK m \in Nat \ {0}, k \in Nat \ {0}, whole \in Nat :
             m = Cardinality(left) /\ k = Cardinality(KeysOf(ops)) /\ whole = limit
        BY <1>2, <2>1
    <2>3. PICK q \in Nat : q = whole \div k
        BY WholeIsShared
    <2>4. (m - 1) * q = m * q - q /\ m * q \in Int
        OBVIOUS
    <2> QED BY <2>1, <2>2, <2>3, <2>4
<1>5. PICK key \in left : key = Min(left)
    BY <1>3
<1>6. Concluded(key, "exhausted", 0)
    BY <1>1, <1>5
<1> QED BY <1>1, <1>4, <1>6, ConclusionKeeps

\* The search of a key ends: complete, refuted or exhausted.
LEMMA SearchEndKeeps ==
    ASSUME VerdictInv, Complete \/ OutOfTime \/ OverLimit \/ Refute
    PROVE  VerdictInv'
<1>1. search # NoSearch
    BY DEF Complete, OutOfTime, OverLimit, Refute, Exploring
<1>2. /\ stage = "search" /\ search.key \in left /\ search.ops = OfKey(ops, search.key)
      /\ SearchInv(search) /\ search.states \in Nat
      /\ (Cardinality(left) - 1) * (limit \div Cardinality(KeysOf(ops))) <= limit - used - search.states
    BY <1>1, UnderWay
<1>3. PICK key \in left, states \in Nat : key = search.key /\ states = search.states
    BY <1>2
<1>4. CASE Complete
    <2>1. Concluded(key, "linearizable", states) /\ Listed(search) = {}
        BY <1>3, <1>4 DEF Complete
    <2>2. Chained(OfKey(ops, key))
        BY <1>2, <1>3, <2>1, CompletedIs
    <2> QED BY <1>2, <1>3, <2>1, <2>2, ConclusionKeeps
<1>5. CASE OutOfTime \/ OverLimit
    <2>1. Concluded(key, "exhausted", states)
        BY <1>3, <1>5 DEF OutOfTime, OverLimit
    <2> QED BY <1>2, <1>3, <2>1, ConclusionKeeps
<1>6. CASE Refute
    <2>1. /\ Concluded(key, "violated", states) /\ Listed(search) # {} /\ search.stack = <<>>
          /\ search.entry = ListEnd \/ search.entry.return
        BY <1>3, <1>6 DEF Refute, Exploring, AtCall
    <2>2. ~Alive(OfKey(ops, key), Undetermined, {})
        BY <1>2, <1>3, <2>1, RefutedIs
    <2> QED BY <1>2, <1>3, <2>1, <2>2, ConclusionKeeps
<1> QED BY <1>4, <1>5, <1>6

\* The verdict over the keys.
LEMMA ReportKeeps ==
    ASSUME VerdictInv, Report
    PROVE  VerdictInv'
<1>1. /\ DriverInv' /\ HonestInv' /\ driving' = driving /\ lies' = lies
      /\ SingleKey' = SingleKey /\ Loading' = Loading
    BY HistoryStands DEF VerdictInv, Report
<1>2. /\ stage = "search" /\ search = NoSearch /\ left = {} /\ stage' = "done" /\ status' = Conclusion
      /\ limit' = limit /\ ops' = ops /\ left' = left /\ used' = used /\ results' = results /\ search' = search
    BY DEF Report
<1>3. /\ ~driving /\ SingleKey /\ ops = Loading /\ ResultsInv /\ Usable(ops)
      /\ KeysOf(ops) \subseteq Keys /\ DriverInv /\ HonestInv /\ lies \in Nat
    BY <1>2, Searching DEF DriverInv, DriverTypes
<1>4. ASSUME Conclusion = "ok" PROVE IsLinearizable(ops)
    <2>1. \A r \in results : r.outcome = "linearizable"
        BY <1>4 DEF Conclusion
    <2>2. \A key \in KeysOf(ops) : Chained(OfKey(ops, key))
        BY <1>2, <1>3, <2>1 DEF ResultsInv
    <2>3. \A key \in Keys : Chained(OfKey(ops, key))
        BY <1>3, <2>2, KeysAre, NoneIsChained
    <2>4. \A op \in ops : op.key \in Keys
        BY <1>3 DEF KeysOf
    <2> QED BY <1>3, <2>3, <2>4, ChainsInterleave
<1>5. ASSUME Conclusion = "violated" PROVE ~IsLinearizable(ops)
    <2>1. PICK r \in results : r.outcome = "violated"
        BY <1>5 DEF Conclusion
    <2>2. r.key \in Keys /\ ~Alive(OfKey(ops, r.key), Undetermined, {})
        BY <1>3, <2>1 DEF ResultsInv
    <2> QED BY <1>3, <2>2, EachKeyIsAlive
<1>6. Conclusion = "violated" => lies > 0
    BY <1>3, <1>5, HonestIsLinearizable
<1>7. CheckerInv'
    BY <1>1, <1>2, <1>3, <1>4, <1>5, <1>6 DEF CheckerInv, LoadInv
<1> QED BY <1>1, <1>7 DEF VerdictInv

\* Every step keeps the inductive invariant.
LEMMA CheckerKeeps == VerdictInv /\ [CheckerNext]_checkerVars => VerdictInv'
<1>1. ASSUME VerdictInv, Check PROVE VerdictInv'
    BY <1>1, LoadKeeps, RefuseKeeps, SliceKeeps, NoBudgetKeeps, SearchEndKeeps, TryingKeeps,
       BacktrackingKeeps, ReportKeeps DEF Check
<1>2. ASSUME VerdictInv, UNCHANGED checkerVars PROVE VerdictInv'
    <2>1. DriverInv' /\ HonestInv' /\ driving' = driving /\ SingleKey' = SingleKey /\ Loading' = Loading /\ lies' = lies
        BY <1>2, HistoryStands DEF VerdictInv, checkerVars
    <2>2. CheckerInv'
        BY <1>2, <2>1 DEF VerdictInv, CheckerInv, LoadInv, ResultsInv, BudgetInv, SearcherInv, Share, OfKey,
                          KeysOf, checkerVars, checkVars
    <2> QED BY <2>1, <2>2 DEF VerdictInv
<1> QED BY <1>1, <1>2, DrivingKeeps DEF CheckerNext

\* What the inductive invariant says of the verdict.
LEMMA VerdictIsEarned == VerdictInv => VerdictsAreEarned
<1> SUFFICES ASSUME VerdictInv PROVE VerdictsAreEarned
    OBVIOUS
<1>1. status \in {"ok", "violated"} => stage = "done"
    BY DEF VerdictInv, CheckerInv
<1>2. InnocentIsNotAccused /\ SearchIsExact
    BY <1>1 DEF VerdictInv, CheckerInv, InnocentIsNotAccused, SearchIsExact
<1>3. NoKeyStarves
    <2> SUFFICES ASSUME left # {}
                 PROVE Cardinality(left) * (limit \div Cardinality({op.key : op \in ops})) <= limit - used
        BY DEF NoKeyStarves
    <2>1. BudgetInv
        BY DEF VerdictInv, CheckerInv
    <2> QED BY <2>1 DEF BudgetInv, KeysOf
<1> QED BY <1>2, <1>3 DEF VerdictsAreEarned

\* Whatever the driver and the cluster do and however the budget is cut, the state of
\* the checker is explained by the history: its searcher's stack and memo, its results
\* and what it has used (search.go, check.go).
THEOREM CheckerIsInductive == CheckerSpec => []VerdictInv
BY CheckerStarts, CheckerKeeps, PTL DEF CheckerSpec

\* Nobody is accused who answered truly, ok and violated are exact, and every key has its
\* part of the search, for any history, memo, limit and number of keys.
THEOREM VerdictsAreEarnedAlways == CheckerSpec => []VerdictsAreEarned
BY CheckerIsInductive, VerdictIsEarned, PTL
=============================================================================
