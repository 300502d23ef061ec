------------------------- MODULE GameSearch_proofs -------------------------
(***************************************************************************)
(* Proofs about the game search, for every game, plan, budget, guess and   *)
(* loss of the table: that walks are exact, that runs narrow down, and     *)
(* that what is stored, answered and chosen is true.  The first part is    *)
(* about the operators (extremes, orders, both engines, what positions are *)
(* worth and what the shortcuts say of that), the second states the        *)
(* inductive invariant, Shape and Truth, and the third and fourth show     *)
(* that every action keeps the one and the other.  Truth needs the         *)
(* hypothesis OneFilter of the properties: where both the search and its   *)
(* root drop losing moves, each by its own engine's measure, none may be   *)
(* left and what is stored is then wrong.                                  *)
(***************************************************************************)
EXTENDS GameSearch, FiringRule_proofs

-----------------------------------------------------------------------------
(* The greatest, the least and the first of a set. *)

\* A finite set of integers that is not empty has a greatest and a least member.
LEMMA Extremes ==
  ASSUME NEW S \in SUBSET Int, IsFiniteSet(S), S # {}
  PROVE  /\ \E x \in S : \A y \in S : x >= y
         /\ \E x \in S : \A y \in S : x <= y
  <1> DEFINE R == {z \in S \X S : z[1] < z[2]}
  <1>0. \A x, y \in S : <<x, y>> \in R <=> x < y
    OBVIOUS
  <1> HIDE DEF R
  <1>1. /\ \A x \in S : <<x, x>> \notin R
        /\ \A x, y, z \in S : <<x, y>> \in R /\ <<y, z>> \in R => <<x, z>> \in R
        /\ \A x, y \in S : x # y => <<x, y>> \in R \/ <<y, x>> \in R
    BY <1>0
  <1>2. /\ Cardinality(S) \in Nat
        /\ \A x \in S : Cardinality(Preceding(S, R, x)) \in 0 .. Cardinality(S) - 1
        /\ \A i \in 1 .. Cardinality(S) : \E x \in S : Cardinality(Preceding(S, R, x)) = i - 1
        /\ \A x, y \in S : <<x, y>> \in R <=> Cardinality(Preceding(S, R, x)) < Cardinality(Preceding(S, R, y))
    BY <1>1, Sorting
  <1>3. Cardinality(S) # 0
    BY FS_EmptySet
  <1>4. PICK x \in S : Cardinality(Preceding(S, R, x)) = 1 - 1
    BY <1>2, <1>3
  <1>5. PICK z \in S : Cardinality(Preceding(S, R, z)) = Cardinality(S) - 1
    BY <1>2, <1>3
  <1>6. \A y \in S : ~ (y < x) /\ ~ (z < y)
    <2> DEFINE rank(y) == Cardinality(Preceding(S, R, y))
    <2>1. \A y \in S : rank(y) \in 0 .. Cardinality(S) - 1 /\ Cardinality(S) \in Nat
      BY <1>2
    <2>2. rank(x) = 0 /\ rank(z) = Cardinality(S) - 1
      BY <1>4, <1>5
    <2>3. \A y \in S : (y < x => rank(y) < rank(x)) /\ (z < y => rank(z) < rank(y))
      BY <1>0, <1>2
    <2> HIDE DEF rank
    <2> QED
      BY <2>1, <2>2, <2>3
  <1> QED
    BY <1>6

\* Max of a finite set that is not empty is its greatest member.
LEMMA MaxOf ==
  ASSUME NEW S \in SUBSET Int, IsFiniteSet(S), S # {}
  PROVE  Max(S) \in S /\ \A x \in S : x <= Max(S)
  BY Extremes DEF Max

\* Min of a finite set that is not empty is its least member.
LEMMA MinOf ==
  ASSUME NEW S \in SUBSET Int, IsFiniteSet(S), S # {}
  PROVE  Min(S) \in S /\ \A x \in S : Min(S) <= x
  BY Extremes DEF Min

\* Two elements are a finite set.
LEMMA PairFinite ==
  ASSUME NEW x, NEW y
  PROVE  IsFiniteSet({x, y})
  <1>1. IsFiniteSet({x})
    BY FS_Singleton
  <1>2. IsFiniteSet({x} \cup {y})
    BY <1>1, FS_AddElement
  <1>3. {x} \cup {y} = {x, y}
    OBVIOUS
  <1> QED
    BY <1>2, <1>3

\* Min of two numbers.
LEMMA MinTwo ==
  ASSUME NEW x \in Int, NEW y \in Int
  PROVE  Min({x, y}) = IF x <= y THEN x ELSE y
  <1>1. IsFiniteSet({x, y})
    BY PairFinite
  <1>2. Min({x, y}) \in {x, y} /\ \A z \in {x, y} : Min({x, y}) <= z
    BY <1>1, MinOf
  <1> QED
    BY <1>2

\* Max of two numbers.
LEMMA MaxTwo ==
  ASSUME NEW x \in Int, NEW y \in Int
  PROVE  Max({x, y}) = IF x <= y THEN y ELSE x
  <1>1. IsFiniteSet({x, y})
    BY PairFinite
  <1>2. Max({x, y}) \in {x, y} /\ \A z \in {x, y} : z <= Max({x, y})
    BY <1>1, MaxOf
  <1> QED
    BY <1>2

\* Min and Max of one number.
LEMMA MinMaxOne == \A x \in Int : Min({x}) = x /\ Max({x}) = x
  BY MinTwo, MaxTwo

-----------------------------------------------------------------------------
(* A finite set in order. *)

\* R puts S in one order.
Orders(S, R) ==
  /\ \A x \in S : <<x, x>> \notin R
  /\ \A x, y, z \in S : <<x, y>> \in R /\ <<y, z>> \in R => <<x, z>> \in R
  /\ \A x, y \in S : x # y => <<x, y>> \in R \/ <<y, x>> \in R

\* Sorted, for a relation.
RankedBy(S, R) == [i \in 1 .. Cardinality(S) |-> CHOOSE x \in S : Cardinality(Preceding(S, R, x)) = i - 1]

\* A function on 1 .. n is a sequence of length n.
LEMMA FunctionSeq ==
  ASSUME NEW S, NEW n \in Nat, NEW s \in [1 .. n -> S]
  PROVE  s \in Seq(S) /\ Len(s) = n
  <1>1. s \in Seq(S)
    BY SeqDef
  <1>2. DOMAIN s = 1 .. Len(s) /\ Len(s) \in Nat
    BY <1>1, LenProperties
  <1>3. 1 .. n = 1 .. Len(s)
    BY <1>2
  <1> QED
    BY <1>1, <1>2, <1>3

\* A set lined up by an order is a sequence of all its members, once each, in that order.
LEMMA SortedBy ==
  ASSUME NEW S, IsFiniteSet(S), NEW R, Orders(S, R)
  PROVE  /\ RankedBy(S, R) \in Seq(S) /\ Len(RankedBy(S, R)) = Cardinality(S) /\ Cardinality(S) \in Nat
         /\ Range(RankedBy(S, R)) = S
         /\ \A i, j \in 1 .. Cardinality(S) : i < j => <<RankedBy(S, R)[i], RankedBy(S, R)[j]>> \in R
  <1> DEFINE n == Cardinality(S)
             rank(x) == Cardinality(Preceding(S, R, x))
             s == RankedBy(S, R)
  <1>1. /\ n \in Nat
        /\ \A x \in S : rank(x) \in 0 .. n - 1
        /\ \A i \in 1 .. n : \E x \in S : rank(x) = i - 1
        /\ \A x, y \in S : <<x, y>> \in R <=> rank(x) < rank(y)
    BY Sorting DEF Orders
  <1>2. s = [i \in 1 .. n |-> CHOOSE x \in S : rank(x) = i - 1]
    BY DEF RankedBy
  <1> HIDE DEF rank, n
  <1>3. \A i \in 1 .. n : s[i] \in S /\ rank(s[i]) = i - 1
    BY <1>1, <1>2
  <1>4. s \in [1 .. n -> S]
    BY <1>2, <1>3
  <1>5. s \in Seq(S) /\ Len(s) = n
    BY <1>1, <1>4, FunctionSeq
  <1>6. ASSUME NEW x \in S PROVE \E i \in 1 .. n : s[i] = x
    <2>1. rank(x) \in 0 .. n - 1
      BY <1>1
    <2>2. rank(x) + 1 \in 1 .. n /\ (rank(x) + 1) - 1 = rank(x)
      BY <1>1, <2>1
    <2>3. rank(s[rank(x) + 1]) = rank(x) /\ s[rank(x) + 1] \in S
      BY <1>3, <2>2
    <2>4. s[rank(x) + 1] = x
      <3> SUFFICES ASSUME s[rank(x) + 1] # x PROVE FALSE
        OBVIOUS
      <3>1. <<x, s[rank(x) + 1]>> \in R \/ <<s[rank(x) + 1], x>> \in R
        BY <2>3 DEF Orders
      <3>2. rank(x) < rank(s[rank(x) + 1]) \/ rank(s[rank(x) + 1]) < rank(x)
        BY <1>1, <2>3, <3>1
      <3> QED
        BY <2>1, <2>3, <3>2
    <2> QED
      BY <2>2, <2>4
  <1>7. Range(s) = S
    BY <1>3, <1>4, <1>6 DEF Range
  <1>8. \A i, j \in 1 .. n : i < j => <<s[i], s[j]>> \in R
    <2> SUFFICES ASSUME NEW i \in 1 .. n, NEW j \in 1 .. n, i < j PROVE <<s[i], s[j]>> \in R
      OBVIOUS
    <2>1. rank(s[i]) < rank(s[j])
      BY <1>1, <1>3
    <2> QED
      BY <1>1, <1>3, <2>1
  <1> QED
    BY <1>1, <1>5, <1>7, <1>8 DEF n

\* Declared lists every transition, and nothing but transitions.
LEMMA DeclaredType ==
  /\ DOMAIN Declared = 1 .. Len(Declared) /\ Len(Declared) \in Nat
  /\ \A i \in DOMAIN Declared : Declared[i] \in Transition
  /\ \A t \in Transition : \E i \in DOMAIN Declared : Declared[i] = t
  BY DeclaredAssumption, LenProperties, ElementOfSeq DEF Range

\* The first of a set of transitions is one of them.
LEMMA FirstOf ==
  ASSUME NEW S \in SUBSET Transition, S # {}
  PROVE  First(S) \in S
  <1> DEFINE K == {i \in DOMAIN Declared : Declared[i] \in S}
  <1>1. K \in SUBSET (1 .. Len(Declared)) /\ Len(Declared) \in Nat
    BY DeclaredType
  <1>2. K # {}
    BY DeclaredType
  <1> HIDE DEF K
  <1>3. IsFiniteSet(K) /\ K \in SUBSET Int
    <2>1. IsFiniteSet(K)
      BY <1>1, Positions
    <2>2. K \in SUBSET Int
      BY <1>1
    <2> QED
      BY <2>1, <2>2
  <1>4. Min(K) \in K
    BY <1>2, <1>3, MinOf
  <1> QED
    BY <1>4 DEF First, K

-----------------------------------------------------------------------------
(* The bit engine is the firing rule (BitRule). *)

\* A transition is enabled where each of its conditions holds at the count.
LEMMA VerdictsTell ==
  ASSUME NEW n \in Nets, NEW t \in Transition, NEW m \in [Place -> {0, 1}]
  PROVE  Enabled(n, t, m) <=> ~ Invalid(n, t) /\ \A p \in Place : \A v \in Verdicts(n, t, p) : m[p] \in v
  <1> DEFINE C(p) == {i \in Inputs(n, t) \cup Tests(n, t) : n.arcs[i].from = p}
             A(i) == {k \in {0, 1} : Passes(n.arcs[i], k)}
             B(p) == {k \in {0, 1} : Clamp(k + NetEffect(n, t, p)) <= n.cap[p]}
  <1>1. \A i \in Inputs(n, t) \cup Tests(n, t) : n.arcs[i].from \in Place
    BY DEF Inputs, Tests
  <1>2. \A i \in Inputs(n, t) \cup Tests(n, t) :
          Passes(n.arcs[i], m[n.arcs[i].from]) <=> m[n.arcs[i].from] \in A(i)
    BY <1>1
  <1>3. \A p \in Raised(n, t) : Clamp(m[p] + NetEffect(n, t, p)) <= n.cap[p] <=> m[p] \in B(p)
    BY DEF Raised
  <1>4. \A p \in Place : Verdicts(n, t, p) = {A(i) : i \in C(p)} \cup (IF p \in Raised(n, t) THEN {B(p)} ELSE {})
    BY DEF Verdicts
  <1>5. Raised(n, t) \subseteq Place
    BY DEF Raised
  <1> HIDE DEF A, B
  <1>6. (\A p \in Place : \A v \in Verdicts(n, t, p) : m[p] \in v)
        <=> /\ \A i \in Inputs(n, t) \cup Tests(n, t) : m[n.arcs[i].from] \in A(i)
            /\ \A p \in Raised(n, t) : m[p] \in B(p)
    BY <1>1, <1>4, <1>5
  <1> QED
    BY <1>2, <1>3, <1>6 DEF Enabled

\* A verdict is a set of the counts 0 and 1.
LEMMA VerdictsType ==
  ASSUME NEW n, NEW t, NEW p
  PROVE  \A v \in Verdicts(n, t, p) : v = {} \/ v = {0} \/ v = {1} \/ v = {0, 1}
  <1>1. \A v \in Verdicts(n, t, p) : v \subseteq {0, 1}
    BY DEF Verdicts
  <1> QED
    BY <1>1

\* A transition resolved to places is enabled where the net's rule enables it.
LEMMA BitsTell ==
  ASSUME NEW n \in Nets, NEW t \in Transition, NEW m \in [Place -> {0, 1}]
  PROVE  BitEnabled(Resolved(n, t), Marked(m)) <=> Enabled(n, t, m)
  <1> DEFINE M == Marked(m)
             b == Resolved(n, t)
  <1>0. \A p \in Place : (p \in M <=> m[p] = 1) /\ (p \notin M <=> m[p] = 0)
    BY DEF Marked
  <1>00. M \subseteq Place
    BY DEF Marked
  <1>1. /\ b.never <=> Never(n, t)
        /\ b.one = One(n, t) /\ b.zero = Zero(n, t) /\ b.care = One(n, t) \cup Zero(n, t)
    BY DEF Resolved
  <1> HIDE DEF M, b
  <1>2. ASSUME Enabled(n, t, m)
        PROVE  BitEnabled(b, M)
    <2>1. ~ Invalid(n, t) /\ \A p \in Place : \A v \in Verdicts(n, t, p) : m[p] \in v
      BY <1>2, VerdictsTell
    <2>2. \A p \in Place : /\ {} \notin Verdicts(n, t, p)
                           /\ p \in One(n, t) => p \in M
                           /\ p \in Zero(n, t) => p \notin M
      BY <1>0, <2>1 DEF One, Zero
    <2>3. One(n, t) \subseteq Place /\ Zero(n, t) \subseteq Place
      BY DEF One, Zero
    <2>4. ~ Never(n, t)
      BY <2>1, <2>2, <2>3 DEF Never
    <2>5. M \cap (One(n, t) \cup Zero(n, t)) = One(n, t)
      BY <2>2, <2>3
    <2> QED
      BY <1>1, <2>4, <2>5 DEF BitEnabled
  <1>3. ASSUME BitEnabled(b, M)
        PROVE  Enabled(n, t, m)
    <2>1. ~ Never(n, t) /\ M \cap (One(n, t) \cup Zero(n, t)) = One(n, t)
      BY <1>1, <1>3 DEF BitEnabled
    <2>2. ASSUME NEW p \in Place, NEW v \in Verdicts(n, t, p)
          PROVE  m[p] \in v
      <3>1. v # {}
        BY <2>1 DEF Never
      <3>2. CASE v = {0, 1}
        BY <3>2
      <3>3. CASE v = {1}
        <4>1. p \in One(n, t)
          BY <3>3 DEF One
        <4> QED
          BY <1>0, <2>1, <3>3, <4>1
      <3>4. CASE v = {0}
        <4>1. p \in Zero(n, t)
          BY <3>4 DEF Zero
        <4>2. p \notin One(n, t)
          BY <2>1, <4>1 DEF Never
        <4> QED
          BY <1>0, <2>1, <3>4, <4>1, <4>2
      <3> QED
        BY <3>1, <3>2, <3>3, <3>4, VerdictsType
    <2> QED
      BY <2>1, <2>2, VerdictsTell DEF Never
  <1> QED
    BY <1>2, <1>3 DEF M, b

\* Of a firing enabled on 0/1 counts nothing is taken that saturates.
LEMMA TakenFits ==
  ASSUME NEW n \in Nets, Len(n.arcs) <= MaxInt, NEW t \in Transition,
         NEW m \in [Place -> {0, 1}], Enabled(n, t, m), NEW p \in Place
  PROVE  Taken(n, t, p) \in 0 .. MaxInt
  <1> DEFINE I == {i \in Inputs(n, t) : n.arcs[i].from = p}
             w == [i \in I |-> Weight(n.arcs[i])]
  <1>1. I \in SUBSET DOMAIN n.arcs /\ I \in SUBSET (1 .. Len(n.arcs)) /\ Len(n.arcs) \in Nat
    BY ArcsType DEF Inputs
  <1>2. IsFiniteSet(I)
    BY <1>1, Positions
  <1>3. Cardinality(I) \in Nat /\ Cardinality(I) <= Len(n.arcs)
    <2>1. IsFiniteSet(1 .. Len(n.arcs)) /\ Cardinality(1 .. Len(n.arcs)) = Len(n.arcs)
      BY <1>1, FS_Interval
    <2> QED
      BY <1>1, <1>2, <2>1, FS_Subset, FS_CardinalityType
  <1>4. \A i \in I : Weight(n.arcs[i]) \in Int /\ Weight(n.arcs[i]) <= 1 /\ Weight(n.arcs[i]) >= 0
    <2> SUFFICES ASSUME NEW i \in I
                 PROVE  Weight(n.arcs[i]) \in Int /\ Weight(n.arcs[i]) <= 1 /\ Weight(n.arcs[i]) >= 0
      OBVIOUS
    <2>1. Weight(n.arcs[i]) \in Int
      BY <1>1, ArcsType
    <2>2. ~ (Weight(n.arcs[i]) < 0)
      BY DEF Enabled, Invalid
    <2>3. Passes(n.arcs[i], m[p])
      BY DEF Enabled
    <2>4. n.arcs[i].typ = "normal"
      BY DEF Inputs, ReadOnly
    <2>5. m[p] >= Weight(n.arcs[i]) /\ m[p] \in {0, 1}
      BY <2>3, <2>4 DEF Passes
    <2> QED
      BY <2>1, <2>2, <2>5
  <1>5. Taken(n, t, p) = IF I = {} THEN 0 ELSE SumFunctionOnSet(w, I)
    BY DEF Taken, Total, SumFunction
  <1>6. \A i \in I : w[i] = Weight(n.arcs[i])
    OBVIOUS
  <1> HIDE DEF I, w
  <1>7. SumFunctionOnSet(w, I) <= Cardinality(I)
    BY <1>2, <1>4, <1>6, SumAtMost
  <1>8. SumFunctionOnSet(w, I) \in Nat
    <2>1. \A i \in I : w[i] \in Nat
      BY <1>4, <1>6
    <2> QED
      BY <1>2, <2>1, SumNotNegative
  <1> QED
    BY <1>1, <1>3, <1>5, <1>7, <1>8, MaxIntAssumption

\* A firing the bit engine does not refuse leads where the net's rule leads.
LEMMA FireRight ==
  ASSUME NEW n \in Nets, Len(n.arcs) <= MaxInt, NEW t \in Transition,
         NEW m \in [Place -> {0, 1}], Enabled(n, t, m), ~ Refused(Resolved(n, t), Marked(m))
  PROVE  /\ Fire(n, t, m) = [p \in Place |-> IF p \in BitFire(Resolved(n, t), Marked(m)) THEN 1 ELSE 0]
         /\ BitFire(Resolved(n, t), Marked(m)) \subseteq Place
  <1> DEFINE M == Marked(m)
             b == Resolved(n, t)
             c(p) == Change(n, t, p)
  <1>1. M \subseteq Place /\ \A p \in Place : (p \in M <=> m[p] = 1) /\ (p \notin M <=> m[p] = 0)
    BY DEF Marked
  <1>2. /\ b.flip = {p \in Place : c(p) \in {-1, 1}}
        /\ b.clears = {p \in Place : c(p) = -1}
        /\ b.spoils <=> \E p \in Place : c(p) \notin {-1, 0, 1}
    BY DEF Resolved
  <1>3. ~ b.spoils /\ M \cap b.flip = b.clears
    BY DEF Refused
  <1>4. ASSUME NEW p \in Place
        PROVE  Clamp(Clamp(m[p] - Taken(n, t, p)) + Given(n, t, p)) = IF p \in (M \ b.flip) \cup (b.flip \ M) THEN 1 ELSE 0
    <2>1. Taken(n, t, p) \in 0 .. MaxInt /\ Given(n, t, p) \in Int
      BY TakenFits, TotalsType
    <2>2. m[p] \in {0, 1}
      OBVIOUS
    <2>3. m[p] - Taken(n, t, p) \in Count
      BY <2>1, <2>2, MaxIntAssumption DEF Count, MinInt
    <2>4. Clamp(m[p] - Taken(n, t, p)) + Given(n, t, p) = m[p] + c(p) /\ c(p) \in Int
      BY <2>1, <2>2, <2>3, ClampId DEF Change
    <2>5. c(p) \in {-1, 0, 1}
      BY <1>2, <1>3
    <2> HIDE DEF c
    <2>6. m[p] + c(p) = IF p \in (M \ b.flip) \cup (b.flip \ M) THEN 1 ELSE 0
      <3>1. CASE c(p) = 0
        <4>1. p \notin b.flip
          BY <1>2, <3>1
        <4> QED
          BY <1>1, <2>2, <3>1, <4>1
      <3>2. CASE c(p) = 1
        <4>1. p \in b.flip /\ p \notin b.clears
          BY <1>2, <3>2
        <4>2. p \notin M
          BY <1>3, <4>1
        <4> QED
          BY <1>1, <3>2, <4>1, <4>2
      <3>3. CASE c(p) = -1
        <4>1. p \in b.flip /\ p \in b.clears
          BY <1>2, <3>3
        <4>2. p \in M
          BY <1>3, <4>1
        <4> QED
          BY <1>1, <3>3, <4>1, <4>2
      <3> QED
        BY <2>5, <3>1, <3>2, <3>3
    <2>7. 0 \in Count /\ 1 \in Count
      BY MaxIntAssumption DEF Count, MinInt
    <2>8. m[p] + c(p) \in Count
      BY <2>6, <2>7
    <2> QED
      BY <2>4, <2>6, <2>8, ClampId
  <1>5. b.flip \subseteq Place
    BY <1>2
  <1> HIDE DEF M, b
  <1>6. BitFire(b, M) = (M \ b.flip) \cup (b.flip \ M)
    BY DEF BitFire
  <1> QED
    BY <1>1, <1>4, <1>5, <1>6 DEF Fire, M, b

\* The enabled set kept up to date over a firing is the one worked out anew.
LEMMA RetrackRight ==
  ASSUME NEW n \in Nets, NEW t \in Transition, NEW M \in SUBSET Place,
         ~ Refused(Resolved(n, t), M)
  PROVE  Retrack(Bits(n), t, BitFire(Resolved(n, t), M), {u \in Transition : BitEnabled(Bits(n)[u], M)})
           = {u \in Transition : BitEnabled(Bits(n)[u], BitFire(Resolved(n, t), M))}
  <1> DEFINE all == Bits(n)
             b == Resolved(n, t)
             N == BitFire(b, M)
             en == {u \in Transition : BitEnabled(all[u], M)}
  <1>1. DOMAIN all = Transition /\ \A u \in Transition : all[u] = Resolved(n, u)
    BY DEF Bits
  <1>2. b.clears \subseteq b.flip /\ M \cap b.flip = b.clears
    BY DEF Resolved, Refused
  <1>3. N = (M \ b.flip) \cup (b.flip \ M)
    BY DEF BitFire
  <1>4. \A u \in Transition : /\ all[u].care = all[u].one \cup all[u].zero
                              /\ ~ all[u].never => all[u].one \cap all[u].zero = {}
    BY <1>1 DEF Resolved, Never
  <1>5. all[t] = b
    BY <1>1
  <1> HIDE DEF all, b, N
  <1>6. ASSUME NEW u \in Transition
        PROVE  u \in Retrack(all, t, N, en) <=> BitEnabled(all[u], N)
    <2>1. u \in Retrack(all, t, N, en) <=>
            \/ BitEnabled(all[u], M) /\ ~ (all[u].care \cap b.flip # {})
            \/ /\ ~ all[u].never
               /\ (b.flip \ b.clears) \cap all[u].one # {} \/ b.clears \cap all[u].zero # {}
               /\ b.clears \cap all[u].one = {} /\ (b.flip \ b.clears) \cap all[u].zero = {}
               /\ BitEnabled(all[u], N)
      BY <1>1, <1>5 DEF Retrack, Carers, Wakes
    <2>2. CASE all[u].care \cap b.flip = {}
      <3>1. M \cap all[u].care = N \cap all[u].care
        BY <1>3, <2>2
      <3>2. ~ ((b.flip \ b.clears) \cap all[u].one # {} \/ b.clears \cap all[u].zero # {})
        BY <1>2, <1>4, <2>2
      <3> QED
        BY <2>1, <2>2, <3>1, <3>2 DEF BitEnabled
    <2>3. CASE all[u].care \cap b.flip # {}
      <3>1. ASSUME BitEnabled(all[u], N)
            PROVE  /\ ~ all[u].never
                   /\ (b.flip \ b.clears) \cap all[u].one # {} \/ b.clears \cap all[u].zero # {}
                   /\ b.clears \cap all[u].one = {} /\ (b.flip \ b.clears) \cap all[u].zero = {}
        <4>1. ~ all[u].never /\ N \cap all[u].care = all[u].one
          BY <3>1 DEF BitEnabled
        <4>2. all[u].one \cap all[u].zero = {}
          BY <1>4, <4>1
        <4>3. N \cap b.flip = b.flip \ b.clears
          BY <1>2, <1>3
        <4>4. b.clears \cap all[u].one = {} /\ (b.flip \ b.clears) \cap all[u].zero = {}
          BY <1>2, <1>4, <4>1, <4>2, <4>3
        <4>5. PICK p \in b.flip : p \in all[u].care
          BY <2>3
        <4>6. CASE p \in b.clears
          BY <1>2, <1>4, <4>1, <4>3, <4>5, <4>6
        <4>7. CASE p \notin b.clears
          BY <1>2, <1>4, <4>1, <4>3, <4>5, <4>7
        <4> QED
          BY <4>1, <4>4, <4>6, <4>7
      <3> QED
        BY <2>1, <2>3, <3>1
    <2> QED
      BY <2>2, <2>3
  <1>7. Retrack(all, t, N, en) \subseteq Transition
    BY <1>1 DEF Retrack, Wakes
  <1> QED
    BY <1>6, <1>7 DEF all, b, N

-----------------------------------------------------------------------------
(* A walk is where the net's rule leads, by either engine. *)

\* What the assumption says of a game of the library, and what New works out.
LEMMA GameIs ==
  ASSUME NEW g \in Library
  PROVE  /\ g.net \in Nets /\ Len(g.net.arcs) <= MaxInt
         /\ g.bits = Bits(g.net)
         /\ g.auto \subseteq Transition /\ g.sign \in [Transition -> Int]
         /\ DOMAIN g.worth \subseteq Marking /\ g.worth \in [DOMAIN g.worth -> Int]
         /\ g.start \in DOMAIN g.worth /\ g.ask \subseteq DOMAIN g.worth /\ g.book \subseteq DOMAIN g.worth
  <1>1. \E h : g = New(h)
    BY DEF Library
  <1>2. g.bits = Bits(g.net)
    BY <1>1 DEF New
  <1>3. {g.start} \cup g.ask \cup g.book \subseteq DOMAIN g.worth
    BY GamesAssumption
  <1> QED
    BY <1>2, <1>3, GamesAssumption

\* One automatic firing, where one is enabled.
Settle(g, x) == IF RuleMoves(g, x) \cap g.auto = {} THEN x ELSE Fire(g.net, First(RuleMoves(g, x) \cap g.auto), x)

\* An automatic firing leads from marking to marking.
LEMMA SettleType ==
  ASSUME NEW g \in Library, NEW x \in Marking
  PROVE  Settle(g, x) \in Marking
  <1>1. RuleMoves(g, x) \cap g.auto \subseteq Transition
    BY DEF RuleMoves
  <1>2. RuleMoves(g, x) \cap g.auto # {} => First(RuleMoves(g, x) \cap g.auto) \in Transition
    BY <1>1, FirstOf
  <1> QED
    BY <1>2, FireType, GameIs DEF Settle

\* Settling is Settle over and over, SettleLimit times.
LEMMA SettledIs ==
  ASSUME NEW g \in Library, NEW m \in Marking
  PROVE  \E s \in [0 .. SettleLimit -> Marking] :
           /\ s = [i \in 0 .. SettleLimit |-> IF i = 0 THEN m ELSE Settle(g, s[i - 1])]
           /\ RuleSettled(g, m) = s[SettleLimit]
  <1> DEFINE f == [x \in Marking |-> Settle(g, x)]
             E(s) == s = [i \in 0 .. SettleLimit |-> IF i = 0 THEN m ELSE Settle(g, s[i - 1])]
  <1>1. f \in [Marking -> Marking]
    BY SettleType
  <1> HIDE DEF f
  <1>2. PICK s \in [0 .. SettleLimit -> Marking] : Repeats(s, f, m, SettleLimit)
    <2>1. SettleLimit \in Nat
      BY LimitsAssumption
    <2> QED
      BY <1>1, <2>1, Iterates
  <1>3. E(s)
    <2>1. \A i \in 1 .. SettleLimit : i - 1 \in 0 .. SettleLimit
      BY LimitsAssumption
    <2>2. \A i \in 1 .. SettleLimit : f[s[i - 1]] = Settle(g, s[i - 1])
      BY <2>1 DEF f
    <2>3. \A i \in 0 .. SettleLimit : s[i] = IF i = 0 THEN m ELSE Settle(g, s[i - 1])
      BY <1>2, <2>2, LimitsAssumption DEF Repeats
    <2> QED
      BY <2>3
  <1> DEFINE c == CHOOSE z : E(z)
  <1>4. E(c)
    BY <1>3
  <1>5. RuleSettled(g, m) = c[SettleLimit]
    BY DEF RuleSettled, Settle
  <1> HIDE DEF c
  <1>6. c \in [0 .. SettleLimit -> Marking]
    <2>1. c[0] \in Marking
      BY <1>4, LimitsAssumption
    <2>2. ASSUME NEW i \in 1 .. SettleLimit, c[i - 1] \in Marking
          PROVE  c[i] \in Marking
      <3>1. c[i] = Settle(g, c[i - 1])
        BY <1>4, LimitsAssumption
      <3> QED
        BY <2>2, <3>1, SettleType
    <2>3. \A i \in 0 .. SettleLimit : c[i] \in Marking
      BY <2>1, <2>2, LimitsAssumption, Stays
    <2> QED
      BY <1>4, <2>3
  <1> QED
    BY <1>4, <1>5, <1>6

\* The walk to m, by bits or by counts.
WalkOf(g, m, b) == [mk |-> m, en |-> RuleMoves(g, m), bits |-> b]

\* What a firing or a move may leave of a walk by engine b: the walk to x, or by
\* bits none.
LeavesTo(g, played, x, b) ==
  \/ played = {} /\ b
  \/ played = {WalkOf(g, x, b)} /\ (b => FitsBits(x))

\* The parts of the walk that stands at m.
LEMMA WalkIs ==
  ASSUME NEW g, NEW m, NEW b
  PROVE  /\ WalkOf(g, m, b).mk = m /\ WalkOf(g, m, b).en = RuleMoves(g, m) /\ WalkOf(g, m, b).bits = b
         /\ RuleMoves(g, m) \subseteq Transition
  BY DEF WalkOf, RuleMoves

\* Both engines fire as the net's rule does, and know what it enables.
LEMMA FireOneRight ==
  ASSUME game \in Library, NEW m \in Marking, NEW b \in BOOLEAN, b => FitsBits(m), NEW t \in RuleMoves(game, m)
  PROVE  LeavesTo(game, FireOne(t, WalkOf(game, m, b)), Fire(game.net, t, m), b)
  <1>0. t \in Transition /\ Enabled(game.net, t, m)
    BY DEF RuleMoves
  <1>1. CASE ~ b
    <2>1. FireOne(t, WalkOf(game, m, b)) = {ByCounts(Fire(game.net, t, m))}
      BY <1>1, WalkIs DEF FireOne
    <2>2. ByCounts(Fire(game.net, t, m)) = WalkOf(game, Fire(game.net, t, m), FALSE)
      BY DEF ByCounts, WalkOf, RuleMoves
    <2> QED
      BY <1>1, <2>1, <2>2 DEF LeavesTo
  <1>2. CASE b
    <2> DEFINE M == Marked(m)
               r == Resolved(game.net, t)
               N == BitFire(r, M)
               x == Fire(game.net, t, m)
    <2>1. m \in [Place -> {0, 1}] /\ M \in SUBSET Place
      BY <1>2 DEF FitsBits, Marked, Marking
    <2>2. game.net \in Nets /\ Len(game.net.arcs) <= MaxInt /\ game.bits = Bits(game.net)
      BY GameIs
    <2>3. game.bits[t] = r
      BY <1>0, <2>2 DEF Bits
    <2> DEFINE w == WalkOf(game, m, b)
    <2>w. w.mk = m /\ w.en = RuleMoves(game, m) /\ w.bits
      <3>1. b = TRUE
        BY <1>2
      <3>2. w = [mk |-> m, en |-> RuleMoves(game, m), bits |-> TRUE]
        BY <3>1 DEF WalkOf
      <3> HIDE DEF w
      <3> QED
        BY <3>2
    <2> HIDE DEF w
    <2>f. FireOne(t, w) = IF Refused(r, M) THEN {}
                          ELSE {[mk |-> [p \in Place |-> IF p \in N THEN 1 ELSE 0],
                                 en |-> Retrack(game.bits, t, N, w.en), bits |-> TRUE]}
      BY <2>3, <2>w DEF FireOne
    <2>4. CASE Refused(r, M)
      BY <1>2, <2>4, <2>f DEF LeavesTo, w
    <2>5. CASE ~ Refused(r, M)
      <3>1. x = [p \in Place |-> IF p \in N THEN 1 ELSE 0] /\ N \subseteq Place
        BY <1>0, <2>1, <2>2, <2>5, FireRight
      <3>2. Marked(x) = N /\ x \in [Place -> {0, 1}] /\ FitsBits(x)
        BY <3>1 DEF Marked, FitsBits
      <3>3. ASSUME NEW y \in [Place -> {0, 1}]
            PROVE  {u \in Transition : BitEnabled(Bits(game.net)[u], Marked(y))} = RuleMoves(game, y)
        BY <2>2, BitsTell DEF RuleMoves, Bits
      <3>4. Retrack(game.bits, t, N, RuleMoves(game, m)) = RuleMoves(game, x)
        <4>1. Retrack(Bits(game.net), t, N, {u \in Transition : BitEnabled(Bits(game.net)[u], M)})
                = {u \in Transition : BitEnabled(Bits(game.net)[u], N)}
          BY <1>0, <2>1, <2>2, <2>5, RetrackRight
        <4> QED
          BY <2>1, <2>2, <3>2, <3>3, <4>1
      <3> HIDE DEF M, r, N, x
      <3>5. FireOne(t, w) = {[mk |-> x, en |-> RuleMoves(game, x), bits |-> TRUE]}
        BY <2>5, <2>f, <2>w, <3>1, <3>4
      <3>6. b = TRUE
        BY <1>2
      <3>7. FireOne(t, w) = {WalkOf(game, x, b)}
        BY <3>5, <3>6 DEF WalkOf
      <3> QED
        BY <3>2, <3>7 DEF LeavesTo, w, x
    <2> QED
      BY <2>4, <2>5
  <1> QED
    BY <1>1, <1>2

\* The walks there are.
ProperWalks(g) == UNION {{WalkOf(g, m, b) : m \in {x \in Marking : b => FitsBits(x)}} : b \in BOOLEAN}

\* The proper walks are those at a marking, by bits only where it fits bits.
LEMMA ProperIs ==
  ASSUME NEW g
  PROVE  /\ \A w \in ProperWalks(g) : \E m \in Marking, b \in BOOLEAN : w = WalkOf(g, m, b) /\ (b => FitsBits(m))
         /\ \A m \in Marking, b \in BOOLEAN : (b => FitsBits(m)) => WalkOf(g, m, b) \in ProperWalks(g)
  BY DEF ProperWalks

\* One automatic firing of a walk, where one is enabled.
Onward(v) == IF v.en \cap game.auto = {} THEN {v} ELSE FireOne(First(v.en \cap game.auto), v)

\* An automatic firing of either engine leads where the rule's does.
LEMMA OnwardRight ==
  ASSUME game \in Library, NEW m \in Marking, NEW b \in BOOLEAN, b => FitsBits(m)
  PROVE  LeavesTo(game, Onward(WalkOf(game, m, b)), Settle(game, m), b)
  <1> DEFINE now == RuleMoves(game, m) \cap game.auto
  <1>1. CASE now = {}
    BY <1>1, WalkIs DEF LeavesTo, Onward, Settle
  <1>2. CASE now # {}
    <2>1. First(now) \in now
      BY <1>2, FirstOf, WalkIs
    <2>2. Onward(WalkOf(game, m, b)) = FireOne(First(now), WalkOf(game, m, b))
      BY <1>2, WalkIs DEF Onward
    <2>3. Settle(game, m) = Fire(game.net, First(now), m)
      BY <1>2 DEF Settle
    <2>4. First(now) \in RuleMoves(game, m)
      BY <2>1
    <2> QED
      BY <2>2, <2>3, <2>4, FireOneRight
  <1> QED
    BY <1>1, <1>2

\* Of a walk nothing is left but proper walks.
LEMMA LeavesProper ==
  ASSUME NEW g, NEW played, NEW x \in Marking, NEW b \in BOOLEAN, LeavesTo(g, played, x, b)
  PROVE  played \in SUBSET ProperWalks(g)
  BY ProperIs DEF LeavesTo

\* All a walk plays on to, one automatic firing further.
Further(S) == UNION {Onward(v) : v \in S}

\* A move, and what settles it, lead where the net's rule leads.
LEMMA PlayRight ==
  ASSUME game \in Library, NEW m \in Marking, NEW b \in BOOLEAN, b => FitsBits(m), NEW t \in RuleMoves(game, m)
  PROVE  /\ LeavesTo(game, Play(t, WalkOf(game, m, b)), RuleAfter(game, m, t), b)
         /\ RuleAfter(game, m, t) \in Marking
  <1> DEFINE w == WalkOf(game, m, b)
             X == SUBSET ProperWalks(game)
             f == [S \in X |-> Further(S)]
             y == Fire(game.net, t, m)
             E(z) == z = [i \in 0 .. SettleLimit |-> IF i = 0 THEN FireOne(t, w) ELSE Further(z[i - 1])]
             c == CHOOSE z : E(z)
  <1>0. SettleLimit \in Nat
    BY LimitsAssumption
  <1>1. y \in Marking
    BY GameIs, FireType, WalkIs
  <1>2. LeavesTo(game, FireOne(t, w), y, b)
    BY FireOneRight
  <1>3. FireOne(t, w) \in X
    BY <1>1, <1>2, LeavesProper
  <1>4. \A S \in X : Further(S) \in X
    <2> SUFFICES ASSUME NEW S \in X, NEW v \in S PROVE Onward(v) \in X
      BY DEF Further
    <2>1. PICK x \in Marking, d \in BOOLEAN : v = WalkOf(game, x, d) /\ (d => FitsBits(x))
      BY ProperIs
    <2>2. Settle(game, x) \in Marking
      BY SettleType
    <2>3. LeavesTo(game, Onward(v), Settle(game, x), d)
      BY <2>1, OnwardRight
    <2> QED
      BY <2>2, <2>3, LeavesProper
  <1>5. f \in [X -> X]
    BY <1>4
  <1>6. Play(t, w) = c[SettleLimit]
    BY DEF Play, Further, Onward
  <1> HIDE DEF f, X
  <1>7. PICK q \in [0 .. SettleLimit -> X] : Repeats(q, f, FireOne(t, w), SettleLimit)
    BY <1>0, <1>3, <1>5, Iterates
  <1>8. E(q)
    <2>1. \A i \in 1 .. SettleLimit : i - 1 \in 0 .. SettleLimit
      BY <1>0
    <2>2. \A i \in 1 .. SettleLimit : f[q[i - 1]] = Further(q[i - 1])
      BY <2>1 DEF f
    <2>3. \A i \in 0 .. SettleLimit : q[i] = IF i = 0 THEN FireOne(t, w) ELSE Further(q[i - 1])
      BY <1>0, <1>7, <2>2 DEF Repeats
    <2> QED
      BY <2>3
  <1>9. E(c)
    BY <1>8
  <1>10. PICK s \in [0 .. SettleLimit -> Marking] :
           /\ s = [i \in 0 .. SettleLimit |-> IF i = 0 THEN y ELSE Settle(game, s[i - 1])]
           /\ RuleSettled(game, y) = s[SettleLimit]
    BY <1>1, SettledIs
  <1> HIDE DEF c
  <1> DEFINE T == {i \in Nat : i <= SettleLimit => LeavesTo(game, c[i], s[i], b)}
  <1>11. 0 \in T
    BY <1>0, <1>2, <1>9, <1>10
  <1>12. ASSUME NEW n \in T PROVE n + 1 \in T
    <2> SUFFICES ASSUME n + 1 <= SettleLimit PROVE LeavesTo(game, c[n + 1], s[n + 1], b)
      OBVIOUS
    <2>1. n \in Nat /\ n + 1 \in 0 .. SettleLimit /\ n \in 0 .. SettleLimit /\ n + 1 # 0 /\ (n + 1) - 1 = n
      BY <1>0
    <2>2. LeavesTo(game, c[n], s[n], b)
      BY <2>1
    <2>3. c[n + 1] = Further(c[n]) /\ s[n + 1] = Settle(game, s[n])
      BY <1>9, <1>10, <2>1
    <2>4. s[n] \in Marking
      BY <2>1
    <2>5. CASE c[n] = {} /\ b
      BY <2>3, <2>5 DEF LeavesTo, Further
    <2>6. CASE c[n] = {WalkOf(game, s[n], b)} /\ (b => FitsBits(s[n]))
      <3>1. LeavesTo(game, Onward(WalkOf(game, s[n], b)), Settle(game, s[n]), b)
        BY <2>4, <2>6, OnwardRight
      <3>2. Further(c[n]) = Onward(WalkOf(game, s[n], b))
        BY <2>6 DEF Further
      <3> QED
        BY <2>3, <3>1, <3>2
    <2> QED
      BY <2>2, <2>5, <2>6 DEF LeavesTo
  <1> HIDE DEF T
  <1>13. T = Nat
    <2>1. T \in SUBSET Nat
      BY DEF T
    <2> QED
      BY <1>11, <1>12, <2>1, Induct
  <1>14. LeavesTo(game, c[SettleLimit], s[SettleLimit], b) /\ s[SettleLimit] \in Marking
    BY <1>0, <1>13 DEF T
  <1> QED
    BY <1>6, <1>10, <1>14 DEF RuleAfter

-----------------------------------------------------------------------------
(* The orders of the search: of the net, of the kids, of the root's moves. *)

\* The place of a member of a sequence.
LEMMA PlaceIn ==
  ASSUME NEW X, NEW s \in Seq(X), NEW t \in Range(s)
  PROVE  At(s, t) \in 1 .. Len(s) /\ Len(s) \in Nat /\ s[At(s, t)] = t /\ t \in X
  <1>1. DOMAIN s = 1 .. Len(s) /\ Len(s) \in Nat
    BY LenProperties
  <1>2. \E i \in DOMAIN s : s[i] = t
    BY DEF Range
  <1>3. At(s, t) \in DOMAIN s /\ s[At(s, t)] = t
    BY <1>2 DEF At
  <1> QED
    BY <1>1, <1>3, ElementOfSeq

\* A set of transitions is finite.
LEMMA TransitionsFinite ==
  ASSUME NEW S \in SUBSET Transition
  PROVE  IsFiniteSet(S)
  BY NodeAssumption, FS_Subset

\* A set of transitions in the order of the net is a sequence of all of them.
LEMMA InOrderIs ==
  ASSUME NEW S \in SUBSET Transition
  PROVE  InOrder(S) \in Seq(S) /\ Range(InOrder(S)) = S /\ Len(InOrder(S)) = Cardinality(S)
  <1> DEFINE at(x) == At(Declared, x)
             R == {z \in S \X S : at(z[1]) < at(z[2])}
  <1>1. \A x \in S : at(x) \in Int /\ Declared[at(x)] = x
    <2> SUFFICES ASSUME NEW x \in S PROVE at(x) \in Int /\ Declared[at(x)] = x
      OBVIOUS
    <2>1. x \in Range(Declared) /\ Declared \in Seq(Transition)
      BY DeclaredAssumption
    <2>2. at(x) \in 1 .. Len(Declared) /\ Len(Declared) \in Nat /\ Declared[at(x)] = x
      BY <2>1, PlaceIn
    <2> QED
      BY <2>2
  <1>2. InOrder(S) = [i \in 1 .. Cardinality(S) |-> CHOOSE x \in S : Cardinality({y \in S : at(y) < at(x)}) = i - 1]
    BY DEF InOrder, Sorted
  <1>3. \A x \in S : {y \in S : at(y) < at(x)} = Preceding(S, R, x)
    BY DEF Preceding
  <1> HIDE DEF at
  <1>4. Orders(S, R)
    BY <1>1 DEF Orders
  <1> HIDE DEF R
  <1>5. InOrder(S) = RankedBy(S, R)
    BY <1>2, <1>3 DEF RankedBy
  <1> QED
    BY <1>4, <1>5, SortedBy, TransitionsFinite

\* Kids sorted by their guesses are a sequence of all of them: sorting loses no move.
LEMMA BestFirstIs ==
  ASSUME NEW K, IsFiniteSet(K), NEW s \in {-1, 1},
         \A x \in K : x.t \in Transition /\ x.guess \in Int,
         \A x, y \in K : x.t = y.t => x = y
  PROVE  BestFirst(s, K) \in Seq(K) /\ Range(BestFirst(s, K)) = K
  <1> DEFINE at(x) == At(Declared, x.t)
             ahead(x, y) == s * x.guess > s * y.guess \/ (x.guess = y.guess /\ at(x) < at(y))
             R == {z \in K \X K : ahead(z[1], z[2])}
  <1>1. \A x \in K : at(x) \in Int /\ Declared[at(x)] = x.t
    <2> SUFFICES ASSUME NEW x \in K PROVE at(x) \in Int /\ Declared[at(x)] = x.t
      OBVIOUS
    <2>1. x.t \in Range(Declared) /\ Declared \in Seq(Transition)
      BY DeclaredAssumption
    <2>2. at(x) \in 1 .. Len(Declared) /\ Len(Declared) \in Nat /\ Declared[at(x)] = x.t
      BY <2>1, PlaceIn
    <2> QED
      BY <2>2
  <1>2. BestFirst(s, K) = [i \in 1 .. Cardinality(K) |-> CHOOSE x \in K : Cardinality({y \in K : ahead(y, x)}) = i - 1]
    BY DEF BestFirst, Sorted
  <1>3. \A x \in K : {y \in K : ahead(y, x)} = Preceding(K, R, x)
    BY DEF Preceding
  <1> HIDE DEF at
  <1>4. \A x, y \in K : x # y => at(x) # at(y)
    BY <1>1
  <1>5. Orders(K, R)
    <2>1. CASE s = 1
      BY <1>1, <1>4, <2>1 DEF Orders
    <2>2. CASE s = -1
      BY <1>1, <1>4, <2>2 DEF Orders
    <2> QED
      BY <2>1, <2>2
  <1> HIDE DEF R, ahead
  <1>6. BestFirst(s, K) = RankedBy(K, R)
    BY <1>2, <1>3 DEF RankedBy
  <1> QED
    BY <1>5, <1>6, SortedBy

\* The first key two kids differ by decides, or their places do.
LEMMA RankingIs ==
  ASSUME NEW K, IsFiniteSet(K), NEW ties \in Seq(Transition), NEW n \in Nat, DOMAIN plan.order = 1 .. n,
         \A x \in K : x.t \in Range(ties) /\ x.keys \in [1 .. n -> Int],
         \A x, y \in K : x.t = y.t => x = y
  PROVE  Ranking(K, ties) \in Seq(K) /\ Range(Ranking(K, ties)) = K
  <1> DEFINE at(x) == At(ties, x.t)
             D(x, y) == {i \in 1 .. n : x.keys[i] # y.keys[i]}
             ahead(x, y) == IF D(x, y) = {} THEN at(x) < at(y) ELSE x.keys[Min(D(x, y))] > y.keys[Min(D(x, y))]
             R == {z \in K \X K : ahead(z[1], z[2])}
  <1>1. \A x \in K : at(x) \in Int /\ ties[at(x)] = x.t
    <2> SUFFICES ASSUME NEW x \in K PROVE at(x) \in Int /\ ties[at(x)] = x.t
      OBVIOUS
    <2>1. at(x) \in 1 .. Len(ties) /\ Len(ties) \in Nat /\ ties[at(x)] = x.t
      BY PlaceIn
    <2> QED
      BY <2>1
  <1>2. Ranking(K, ties) = [i \in 1 .. Cardinality(K) |-> CHOOSE x \in K : Cardinality({y \in K : ahead(y, x)}) = i - 1]
    BY DEF Ranking, Sorted, Ahead
  <1>3. \A x \in K : {y \in K : ahead(y, x)} = Preceding(K, R, x)
    BY DEF Preceding
  <1> HIDE DEF at
  <1>4. \A x, y \in K : x # y => at(x) # at(y)
    BY <1>1
  <1>5. \A x, y \in K : D(x, y) # {} => /\ Min(D(x, y)) \in 1 .. n
                                        /\ x.keys[Min(D(x, y))] # y.keys[Min(D(x, y))]
                                        /\ \A i \in 1 .. n : i < Min(D(x, y)) => x.keys[i] = y.keys[i]
    <2> SUFFICES ASSUME NEW x \in K, NEW y \in K, D(x, y) # {}
                 PROVE  /\ Min(D(x, y)) \in 1 .. n
                        /\ x.keys[Min(D(x, y))] # y.keys[Min(D(x, y))]
                        /\ \A i \in 1 .. n : i < Min(D(x, y)) => x.keys[i] = y.keys[i]
      OBVIOUS
    <2>1. D(x, y) \in SUBSET (1 .. n) /\ \A i \in 1 .. n : i \in D(x, y) <=> x.keys[i] # y.keys[i]
      OBVIOUS
    <2> HIDE DEF D
    <2>2. IsFiniteSet(D(x, y))
      BY <2>1, Positions
    <2>3. D(x, y) \in SUBSET Int
      BY <2>1
    <2>4. Min(D(x, y)) \in D(x, y) /\ \A i \in D(x, y) : Min(D(x, y)) <= i
      BY <2>2, <2>3, MinOf
    <2>5. Min(D(x, y)) \in 1 .. n
      BY <2>1, <2>4
    <2> QED
      BY <2>1, <2>4, <2>5
  <1>6. \A x, y \in K : /\ D(x, y) = {} => \A i \in 1 .. n : x.keys[i] = y.keys[i]
                        /\ D(x, y) = D(y, x) /\ D(x, x) = {}
    OBVIOUS
  <1>7. \A x \in K : \A i \in 1 .. n : x.keys[i] \in Int
    OBVIOUS
  <1>8. ASSUME NEW x \in K, NEW y \in K, NEW z \in K, ahead(x, y), ahead(y, z)
        PROVE  ahead(x, z)
    <2> DEFINE i == Min(D(x, y))
               j == Min(D(y, z))
               k == Min(D(x, z))
    <2>0. D(x, z) = {} <=> \A h \in 1 .. n : x.keys[h] = z.keys[h]
      OBVIOUS
    <2> HIDE DEF D
    <2>1. CASE D(x, y) = {} /\ D(y, z) = {}
      <3>0. (\A h \in 1 .. n : x.keys[h] = y.keys[h]) /\ (\A h \in 1 .. n : y.keys[h] = z.keys[h])
        BY <1>6, <2>1
      <3>1. D(x, z) = {}
        BY <2>0, <3>0
      <3> QED
        BY <1>1, <1>8, <2>1, <3>1
    <2>2. CASE D(x, y) # {} /\ D(y, z) = {}
      <3>1. \A h \in 1 .. n : y.keys[h] = z.keys[h]
        BY <1>6, <2>2
      <3>2. i \in 1 .. n /\ x.keys[i] > z.keys[i] /\ \A h \in 1 .. n : h < i => x.keys[h] = z.keys[h]
        BY <1>5, <1>8, <2>2, <3>1
      <3> HIDE DEF i
      <3>3. D(x, z) # {}
        BY <1>7, <2>0, <3>2
      <3>4. k \in 1 .. n /\ x.keys[k] # z.keys[k] /\ \A h \in 1 .. n : h < k => x.keys[h] = z.keys[h]
        BY <1>5, <3>3
      <3> HIDE DEF k
      <3>5. i = k
        BY <1>7, <3>2, <3>4
      <3> QED
        BY <3>2, <3>3, <3>5 DEF k
    <2>3. CASE D(x, y) = {} /\ D(y, z) # {}
      <3>1. \A h \in 1 .. n : x.keys[h] = y.keys[h]
        BY <1>6, <2>3
      <3>2. j \in 1 .. n /\ x.keys[j] > z.keys[j] /\ \A h \in 1 .. n : h < j => x.keys[h] = z.keys[h]
        BY <1>5, <1>8, <2>3, <3>1
      <3> HIDE DEF j
      <3>3. D(x, z) # {}
        BY <1>7, <2>0, <3>2
      <3>4. k \in 1 .. n /\ x.keys[k] # z.keys[k] /\ \A h \in 1 .. n : h < k => x.keys[h] = z.keys[h]
        BY <1>5, <3>3
      <3> HIDE DEF k
      <3>5. j = k
        BY <1>7, <3>2, <3>4
      <3> QED
        BY <3>2, <3>3, <3>5 DEF k
    <2>4. CASE D(x, y) # {} /\ D(y, z) # {}
      <3>1. i \in 1 .. n /\ x.keys[i] > y.keys[i] /\ \A h \in 1 .. n : h < i => x.keys[h] = y.keys[h]
        BY <1>5, <1>8, <2>4
      <3>2. j \in 1 .. n /\ y.keys[j] > z.keys[j] /\ \A h \in 1 .. n : h < j => y.keys[h] = z.keys[h]
        BY <1>5, <1>8, <2>4
      <3> HIDE DEF i, j
      <3>3. PICK l \in 1 .. n : x.keys[l] > z.keys[l] /\ \A h \in 1 .. n : h < l => x.keys[h] = z.keys[h]
        <4>1. CASE i <= j
          <5>1. x.keys[i] > z.keys[i]
            <6>1. CASE i = j
              BY <1>7, <3>1, <3>2, <6>1
            <6>2. CASE i < j
              BY <3>1, <3>2, <6>2
            <6> QED
              BY <3>1, <3>2, <4>1, <6>1, <6>2
          <5>2. \A h \in 1 .. n : h < i => x.keys[h] = z.keys[h]
            BY <3>1, <3>2, <4>1
          <5> QED
            BY <3>1, <5>1, <5>2
        <4>2. CASE j < i
          BY <3>1, <3>2, <4>2
        <4> QED
          BY <3>1, <3>2, <4>1, <4>2
      <3>4. D(x, z) # {}
        BY <1>7, <2>0, <3>3
      <3>5. k \in 1 .. n /\ x.keys[k] # z.keys[k] /\ \A h \in 1 .. n : h < k => x.keys[h] = z.keys[h]
        BY <1>5, <3>4
      <3> HIDE DEF k
      <3>6. l = k
        BY <1>7, <3>3, <3>5
      <3> QED
        BY <3>3, <3>4, <3>6 DEF k
    <2> QED
      BY <2>1, <2>2, <2>3, <2>4
  <1>9. \A x, y \in K : x # y => ahead(x, y) \/ ahead(y, x)
    <2> SUFFICES ASSUME NEW x \in K, NEW y \in K, x # y
                 PROVE  ahead(x, y) \/ ahead(y, x)
      OBVIOUS
    <2>1. D(x, y) = D(y, x)
      BY <1>6
    <2> HIDE DEF D
    <2>2. CASE D(x, y) = {}
      BY <1>1, <1>4, <2>1, <2>2
    <2>3. CASE D(x, y) # {}
      BY <1>5, <1>7, <2>1, <2>3
    <2> QED
      BY <2>2, <2>3
  <1>10. \A x \in K : ~ ahead(x, x)
    BY <1>1, <1>6
  <1> HIDE DEF ahead
  <1>11. Orders(K, R)
    <2>1. \A x, y \in K : <<x, y>> \in R <=> ahead(x, y)
      OBVIOUS
    <2> HIDE DEF R
    <2> QED
      BY <1>8, <1>9, <1>10, <2>1 DEF Orders
  <1> HIDE DEF R
  <1>12. Ranking(K, ties) = RankedBy(K, R)
    BY <1>2, <1>3 DEF RankedBy
  <1> QED
    BY <1>11, <1>12, SortedBy

-----------------------------------------------------------------------------
(* What a position is worth. *)

\* What a function makes of a finite set is finite.
LEMMA ImageFinite ==
  ASSUME NEW S, IsFiniteSet(S), NEW f
  PROVE  IsFiniteSet({f[x] : x \in S})
  <1> DEFINE T == {f[x] : x \in S}
             h == [x \in S |-> f[x]]
  <1>1. h \in Surjection(S, T)
    BY DEF Surjection
  <1> QED
    BY <1>1, FS_Surjection

\* What the assumption says of a game's rewards, part by part.
LEMMA RewardIs ==
  ASSUME NEW g \in Library
  PROVE  /\ g.least = SumFunctionOnSet([p \in DOMAIN g.reward |-> Min({g.reward[p], 0})], DOMAIN g.reward)
         /\ g.most = SumFunctionOnSet([p \in DOMAIN g.reward |-> Max({g.reward[p], 0})], DOMAIN g.reward)
         /\ g.values = Rewards(g)
         /\ IsFiniteSet(DOMAIN g.reward) /\ \A p \in DOMAIN g.reward : p \in Place /\ g.reward[p] \in Int
  <1>1. PICK h : g = New(h)
    BY DEF Library
  <1>2. g.reward = h.reward
    BY <1>1 DEF New
  <1>3. /\ g.least = SumFunction([p \in DOMAIN h.reward |-> Min({h.reward[p], 0})])
        /\ g.most = SumFunction([p \in DOMAIN h.reward |-> Max({h.reward[p], 0})])
        /\ g.values = Rewards(h)
    BY <1>1 DEF New
  <1>4. Rewards(h) = Rewards(g)
    BY <1>2 DEF Rewards
  <1>5. DOMAIN g.reward \subseteq Place /\ g.reward \in [DOMAIN g.reward -> Int]
    BY GamesAssumption
  <1>6. IsFiniteSet(DOMAIN g.reward)
    BY <1>5, NodeAssumption, FS_Subset
  <1> QED
    BY <1>2, <1>3, <1>4, <1>5, <1>6 DEF SumFunction

\* A position is worth what a final one pays, one token at most on each reward.
LEMMA WorthPaid ==
  ASSUME NEW g \in Library, NEW m \in DOMAIN g.worth
  PROVE  \E P \in SUBSET DOMAIN g.reward : g.worth[m] = SumFunctionOnSet(g.reward, P)
  <1>1. PICK x \in DOMAIN g.worth : RuleMoves(g, x) = {} /\ g.worth[m] = g.worth[x]
    BY GamesAssumption
  <1>2. g.worth[x] = RewardAt(g, x) /\ \A p \in DOMAIN g.reward : x[p] \in {0, 1}
    <2>1. Minimax(g, x)
      BY GamesAssumption
    <2> QED
      BY <1>1, <2>1 DEF Minimax
  <1> DEFINE D == DOMAIN g.reward
             P == {p \in D : x[p] = 1}
             h == [p \in D |-> g.reward[p] * x[p]]
  <1>3. RewardAt(g, x) = SumFunctionOnSet(h, D)
    BY DEF RewardAt, SumFunction
  <1>4. IsFiniteSet(D) /\ \A p \in D : g.reward[p] \in Int
    BY RewardIs
  <1>5. P \in SUBSET D /\ \A p \in D : h[p] = IF p \in P THEN g.reward[p] ELSE 0
    BY <1>2, <1>4
  <1> HIDE DEF D, P, h
  <1>6. SumFunctionOnSet(h, D) = SumFunctionOnSet(g.reward, P)
    BY <1>4, <1>5, SumPart
  <1> QED
    BY <1>1, <1>2, <1>3, <1>5, <1>6 DEF D

\* What rewards can add up to lies between the least and the most.
LEMMA SumsBetween ==
  ASSUME NEW g \in Library
  PROVE  /\ g.least \in Int /\ g.most \in Int /\ g.least <= g.most
         /\ \A P \in SUBSET DOMAIN g.reward : SumFunctionOnSet(g.reward, P) \in g.least .. g.most
  <1> DEFINE D == DOMAIN g.reward
             r == g.reward
             lo == [p \in D |-> Min({r[p], 0})]
             hi == [p \in D |-> Max({r[p], 0})]
  <1>1. IsFiniteSet(D) /\ \A p \in D : r[p] \in Int
    BY RewardIs
  <1>2. g.least = SumFunctionOnSet(lo, D) /\ g.most = SumFunctionOnSet(hi, D)
    BY RewardIs
  <1>3. \A p \in D : lo[p] = (IF r[p] <= 0 THEN r[p] ELSE 0) /\ hi[p] = (IF r[p] <= 0 THEN 0 ELSE r[p])
    BY <1>1, MinTwo, MaxTwo
  <1> HIDE DEF D, lo, hi, r
  <1>4. SumFunctionOnSet(lo, D) \in Int /\ SumFunctionOnSet(hi, D) \in Int
    BY <1>1, <1>3, SumIsInt
  <1>5. ASSUME NEW P \in SUBSET D
        PROVE  SumFunctionOnSet(r, P) \in Int /\ SumFunctionOnSet(lo, D) <= SumFunctionOnSet(r, P)
                 /\ SumFunctionOnSet(r, P) <= SumFunctionOnSet(hi, D)
    <2> DEFINE h == [p \in D |-> IF p \in P THEN r[p] ELSE 0]
    <2>1. \A p \in D : r[p] \in Int /\ h[p] = IF p \in P THEN r[p] ELSE 0
      BY <1>1
    <2> HIDE DEF h
    <2>2. SumFunctionOnSet(h, D) = SumFunctionOnSet(r, P)
      BY <1>1, <2>1, SumPart
    <2>3. \A p \in D : h[p] \in Int /\ lo[p] \in Int /\ hi[p] \in Int /\ lo[p] <= h[p] /\ h[p] <= hi[p]
      BY <1>1, <1>3, <2>1
    <2>4. SumFunctionOnSet(h, D) \in Int
      BY <1>1, <2>3, SumIsInt
    <2>5. SumFunctionOnSet(lo, D) <= SumFunctionOnSet(h, D)
      BY <1>1, <2>3, SumOrdered
    <2>6. SumFunctionOnSet(h, D) <= SumFunctionOnSet(hi, D)
      BY <1>1, <2>3, SumOrdered
    <2> QED
      BY <2>2, <2>4, <2>5, <2>6
  <1>6. {} \in SUBSET D
    OBVIOUS
  <1> QED
    BY <1>2, <1>4, <1>5, <1>6 DEF D, r

\* No position is worth more than all rewards above zero, or less than all below.
LEMMA WorthBetween ==
  ASSUME NEW g \in Library, NEW m \in DOMAIN g.worth
  PROVE  g.worth[m] \in g.least .. g.most /\ g.worth[m] \in Int
  <1>1. PICK P \in SUBSET DOMAIN g.reward : g.worth[m] = SumFunctionOnSet(g.reward, P)
    BY WorthPaid
  <1> QED
    BY <1>1, SumsBetween

\* The values searched one by one are all there are, in order, when there are any.
LEMMA ValuesIs ==
  ASSUME NEW g \in Library
  PROVE  /\ g.values \in Seq(Int) /\ Len(g.values) \in Nat /\ DOMAIN g.values = 1 .. Len(g.values)
         /\ \A i \in 1 .. Len(g.values) : g.values[i] \in g.least .. g.most /\ g.values[i] \in Int
         /\ \A i, j \in 1 .. Len(g.values) : i < j => g.values[i] < g.values[j]
         /\ Len(g.values) # 0 => \A m \in DOMAIN g.worth : \E q \in 1 .. Len(g.values) : g.worth[m] = g.values[q]
  <1> DEFINE D == DOMAIN g.reward
             sums == {SumFunctionOnSet(g.reward, S) : S \in SUBSET D}
             R == {z \in sums \X sums : z[1] < z[2]}
  <1>0. g.least \in Int /\ g.most \in Int
    BY SumsBetween
  <1>1. g.values = IF Cardinality(sums) > MaxValues THEN <<>> ELSE Sorted(sums, LAMBDA x, y : x < y)
    BY RewardIs DEF Rewards
  <1>2. sums \subseteq g.least .. g.most /\ sums \subseteq Int
    <2>1. \A S \in SUBSET D : SumFunctionOnSet(g.reward, S) \in g.least .. g.most
      BY SumsBetween
    <2>2. sums \subseteq g.least .. g.most
      BY <2>1
    <2>3. g.least .. g.most \subseteq Int
      BY <1>0
    <2> QED
      BY <2>2, <2>3
  <1>3. IsFiniteSet(sums)
    <2> DEFINE f == [S \in SUBSET D |-> SumFunctionOnSet(g.reward, S)]
    <2>1. IsFiniteSet(SUBSET D)
      BY RewardIs, FS_SUBSET
    <2>2. IsFiniteSet({f[S] : S \in SUBSET D})
      BY <2>1, ImageFinite
    <2> QED
      BY <2>2
  <1>4. \A m \in DOMAIN g.worth : g.worth[m] \in sums
    BY WorthPaid
  <1> HIDE DEF sums
  <1>5. Sorted(sums, LAMBDA x, y : x < y) = RankedBy(sums, R)
    <2>1. Sorted(sums, LAMBDA x, y : x < y)
            = [i \in 1 .. Cardinality(sums) |-> CHOOSE x \in sums : Cardinality({y \in sums : y < x}) = i - 1]
      BY DEF Sorted
    <2>2. \A x \in sums : {y \in sums : y < x} = Preceding(sums, R, x)
      BY DEF Preceding
    <2> HIDE DEF R
    <2> QED
      BY <2>1, <2>2 DEF RankedBy
  <1>6. \A x, y \in sums : <<x, y>> \in R <=> x < y
    OBVIOUS
  <1> HIDE DEF R
  <1>7. Orders(sums, R)
    BY <1>2, <1>6 DEF Orders
  <1>8. CASE g.values = <<>>
    <2>1. g.values \in Seq(Int) /\ Len(g.values) = 0
      BY <1>8, EmptySeq
    <2>2. DOMAIN g.values = 1 .. Len(g.values)
      BY <2>1, LenProperties
    <2> QED
      BY <2>1, <2>2
  <1>9. CASE g.values = RankedBy(sums, R)
    <2> DEFINE v == g.values
               n == Len(v)
    <2>1. v \in Seq(sums) /\ n \in Nat /\ Range(v) = sums /\ \A i, j \in 1 .. n : i < j => <<v[i], v[j]>> \in R
      BY <1>3, <1>7, <1>9, SortedBy
    <2>2. DOMAIN v = 1 .. n /\ v \in Seq(Int)
      BY <1>2, <2>1, LenProperties, SeqMonotonic
    <2>3. \A i \in 1 .. n : v[i] \in sums
      BY <2>1, ElementOfSeq
    <2>4. \A i, j \in 1 .. n : i < j => v[i] < v[j]
      BY <1>6, <2>1, <2>3
    <2>5. \A m \in DOMAIN g.worth : \E q \in 1 .. n : g.worth[m] = v[q]
      BY <1>4, <2>1, <2>2 DEF Range
    <2>6. \A i \in 1 .. n : v[i] \in g.least .. g.most /\ v[i] \in Int
      BY <1>2, <2>3
    <2> QED
      BY <2>1, <2>2, <2>4, <2>5, <2>6
  <1> QED
    BY <1>1, <1>5, <1>8, <1>9

\* The side to move, where there are moves.
MoverAt(g, m) == g.sign[First(RuleMoves(g, m))]

\* A final position is worth what it pays, any other what its best move is.
LEMMA BestMove ==
  ASSUME NEW g \in Library, NEW m \in DOMAIN g.worth
  PROVE  /\ RuleMoves(g, m) = {} => g.worth[m] = RewardAt(g, m)
         /\ RuleMoves(g, m) # {} =>
              /\ MoverAt(g, m) \in {-1, 1}
              /\ MoverAt(g, m) = 1 => \A t \in RuleMoves(g, m) : g.worth[RuleAfter(g, m, t)] <= g.worth[m]
              /\ MoverAt(g, m) = -1 => \A t \in RuleMoves(g, m) : g.worth[m] <= g.worth[RuleAfter(g, m, t)]
              /\ \E t \in RuleMoves(g, m) : g.worth[RuleAfter(g, m, t)] = g.worth[m]
         /\ RuleMoves(g, m) \cap g.auto = {} \/ RuleMoves(g, m) = {}
         /\ \A t \in RuleMoves(g, m) : RuleAfter(g, m, t) \in DOMAIN g.worth
  <1> DEFINE T == RuleMoves(g, m)
             f == [t \in T |-> g.worth[RuleAfter(g, m, t)]]
             W == {f[t] : t \in T}
  <1>1. Minimax(g, m)
    BY GamesAssumption
  <1>2. CASE T = {}
    BY <1>1, <1>2 DEF Minimax
  <1>3. CASE T # {}
    <2>1. PICK s \in {-1, 1} : /\ \A t \in T : g.sign[t] = s
                               /\ g.worth[m] = IF s > 0 THEN Max({g.worth[RuleAfter(g, m, t)] : t \in T})
                                               ELSE Min({g.worth[RuleAfter(g, m, t)] : t \in T})
      BY <1>1, <1>3 DEF Minimax
    <2>2. {g.worth[RuleAfter(g, m, t)] : t \in T} = W
      OBVIOUS
    <2>3. T \cap g.auto = {} /\ \A t \in T : RuleAfter(g, m, t) \in DOMAIN g.worth
      BY <1>1, <1>3 DEF Minimax
    <2>4. T \subseteq Transition /\ First(T) \in T
      BY <1>3, FirstOf, WalkIs
    <2>5. MoverAt(g, m) = s
      BY <2>1, <2>4 DEF MoverAt
    <2>6. IsFiniteSet(W)
      <3>1. IsFiniteSet(T)
        BY <2>4, TransitionsFinite
      <3> HIDE DEF f, T
      <3> QED
        BY <3>1, ImageFinite
    <2>7. W \in SUBSET Int /\ W # {}
      BY <1>3, <2>3, WorthBetween
    <2>8. \A t \in T : f[t] = g.worth[RuleAfter(g, m, t)] /\ f[t] \in W
      OBVIOUS
    <2>9. g.worth[m] = IF s > 0 THEN Max(W) ELSE Min(W)
      BY <2>1, <2>2
    <2> HIDE DEF W
    <2>10. Max(W) \in W /\ (\A x \in W : x <= Max(W)) /\ Min(W) \in W /\ (\A x \in W : Min(W) <= x)
      BY <2>6, <2>7, MaxOf, MinOf
    <2>11. \E t \in T : f[t] = g.worth[m]
      BY <2>1, <2>9, <2>10 DEF W
    <2>12. s = 1 => \A t \in T : f[t] <= g.worth[m]
      BY <2>8, <2>9, <2>10
    <2>13. s = -1 => \A t \in T : g.worth[m] <= f[t]
      BY <2>8, <2>9, <2>10
    <2> QED
      BY <1>3, <2>1, <2>3, <2>5, <2>8, <2>11, <2>12, <2>13
  <1> QED
    BY <1>2, <1>3

-----------------------------------------------------------------------------
(* What the filters say is true (filter.rs). *)

\* A walk tells the moves, the end, the mover and the score of its position.
LEMMA WalkMoves ==
  ASSUME game \in Library, NEW m \in DOMAIN game.worth, NEW b
  PROVE  /\ Moves(WalkOf(game, m, b)) = RuleMoves(game, m)
         /\ Over(WalkOf(game, m, b)) <=> RuleMoves(game, m) = {}
         /\ Mover(WalkOf(game, m, b)) = MoverAt(game, m)
         /\ Score(WalkOf(game, m, b)) = RewardAt(game, m)
         /\ m \in Marking
  <1>1. Moves(WalkOf(game, m, b)) = RuleMoves(game, m)
    BY BestMove, WalkIs DEF Moves
  <1>2. m \in Marking
    BY GameIs
  <1> QED
    BY <1>1, <1>2, WalkIs DEF Over, Mover, MoverAt, Score

\* A move leads to a position of the game, by either engine.
LEMMA PlayLeads ==
  ASSUME game \in Library, NEW m \in DOMAIN game.worth, NEW b \in BOOLEAN, b => FitsBits(m), NEW t \in RuleMoves(game, m)
  PROVE  /\ LeavesTo(game, Play(t, WalkOf(game, m, b)), RuleAfter(game, m, t), b)
         /\ RuleAfter(game, m, t) \in DOMAIN game.worth
  BY PlayRight, BestMove, WalkMoves

\* Most and Least bound every worth, and are the Bound of the two sides.
LEMMA BoundIs ==
  ASSUME game \in Library
  PROVE  /\ Bound(1) = Most /\ Bound(-1) = Least /\ Bound(-(-1)) = Most
         /\ Most \in Int /\ Least \in Int /\ Least <= Most /\ Most = game.most /\ Least = game.least
         /\ \A m \in DOMAIN game.worth : Least <= game.worth[m] /\ game.worth[m] <= Most /\ game.worth[m] \in Int
  <1>1. Most \in Int /\ Least \in Int /\ Least <= Most
    BY SumsBetween DEF Most, Least
  <1>2. \A m \in DOMAIN game.worth : Least <= game.worth[m] /\ game.worth[m] <= Most /\ game.worth[m] \in Int
    BY <1>1, WorthBetween DEF Most, Least
  <1> QED
    BY <1>1, <1>2 DEF Bound, Most, Least

\* Where BestFor says nothing better can come for a side, the position is worth that.
LEMMA BestForIs ==
  ASSUME game \in Library, NEW m \in DOMAIN game.worth, NEW b, NEW s, BestFor(s, WalkOf(game, m, b))
  PROVE  game.worth[m] = Bound(s)
  BY WalkMoves, BestMove DEF BestFor

\* A side whose move leads to its best value has a position worth it.
LEMMA WonNow ==
  ASSUME game \in Library, NEW m \in DOMAIN game.worth, NEW t \in RuleMoves(game, m),
         game.worth[RuleAfter(game, m, t)] = Bound(MoverAt(game, m))
  PROVE  game.worth[m] = Bound(MoverAt(game, m))
  <1>1. MoverAt(game, m) \in {-1, 1}
    BY BestMove
  <1>2. RuleAfter(game, m, t) \in DOMAIN game.worth
    BY BestMove
  <1>3. CASE MoverAt(game, m) = 1
    <2>1. game.worth[RuleAfter(game, m, t)] <= game.worth[m]
      BY <1>3, BestMove
    <2> QED
      BY <1>2, <1>3, <2>1, BoundIs
  <1>4. CASE MoverAt(game, m) = -1
    <2>1. game.worth[m] <= game.worth[RuleAfter(game, m, t)]
      BY <1>4, BestMove
    <2> QED
      BY <1>2, <1>4, <2>1, BoundIs
  <1> QED
    BY <1>1, <1>3, <1>4

\* A side whose moves all lead to its worst value has a position worth it.
LEMMA LostNow ==
  ASSUME game \in Library, NEW m \in DOMAIN game.worth, RuleMoves(game, m) # {},
         \A t \in RuleMoves(game, m) : game.worth[RuleAfter(game, m, t)] = Bound(- MoverAt(game, m))
  PROVE  game.worth[m] = Bound(- MoverAt(game, m))
  BY BestMove

\* Goals is a sequence.
LEMMA GoalsAre ==
  ASSUME game \in Library
  PROVE  \E n \in Nat : DOMAIN Goals = 1 .. n
  <1>1. PICK h \in Games : game = New(h)
    BY DEF Library
  <1>2. Goals = InOrder(GoalsOf(h)) /\ game.auto = h.auto
    BY <1>1 DEF Goals, New
  <1>3. GoalsOf(h) \in SUBSET Transition
    BY <1>2, GameIs DEF GoalsOf
  <1>4. Goals \in Seq(Transition)
    BY <1>2, <1>3, InOrderIs
  <1> QED
    BY <1>4, LenProperties

\* A position a side is said to have lost is worth the least to it; by bits the test may
\* spill.
LEMMA LostIs ==
  ASSUME game \in Library, NEW m \in DOMAIN game.worth, NEW b \in BOOLEAN, b => FitsBits(m), NEW s \in {-1, 1}
  PROVE  /\ Lost(s, WalkOf(game, m, b)) \in {"no", "yes", "spilled"}
         /\ Lost(s, WalkOf(game, m, b)) = "yes" => game.worth[m] = Bound(- s)
         /\ Lost(s, WalkOf(game, m, b)) = "spilled" => b
  <1> DEFINE w == WalkOf(game, m, b)
             told(t) == Reply(s, Play(t, w))
             telling == {r \in Replies(s, w) : told(r[2]) # "no"}
             turns == {r[1] : r \in telling}
             ts == {r[2] : r \in {x \in telling : x[1] = Min(turns)}}
  <1>1. Moves(w) = RuleMoves(game, m) /\ (Over(w) <=> RuleMoves(game, m) = {}) /\ Mover(w) = MoverAt(game, m)
    BY WalkMoves
  <1>2. PICK n \in Nat : DOMAIN Goals = 1 .. n
    BY GoalsAre
  <1>3. \A r \in Replies(s, w) : r[1] \in 0 .. n /\ r[2] \in Moves(w)
    BY <1>2 DEF Replies, Near
  <1>4. Lost(s, w) = IF Over(w) \/ Mover(w) # - s \/ telling = {} THEN "no" ELSE told(First(ts))
    BY DEF Lost
  <1>5. CASE Over(w) \/ Mover(w) # - s \/ telling = {}
    BY <1>4, <1>5
  <1>6. CASE ~ (Over(w) \/ Mover(w) # - s \/ telling = {})
    <2>1. turns \in SUBSET (0 .. n) /\ turns # {}
      BY <1>3, <1>6
    <2>2. Min(turns) \in turns
      <3> HIDE DEF turns
      <3>1. IsFiniteSet(0 .. n)
        BY FS_Interval
      <3>2. IsFiniteSet(turns)
        BY <2>1, <3>1, FS_Subset
      <3>3. turns \in SUBSET Int
        BY <2>1
      <3> QED
        BY <2>1, <3>2, <3>3, MinOf
    <2>3. ts \in SUBSET Moves(w)
      BY <1>3
    <2>4. ts # {}
      BY <2>2
    <2> HIDE DEF ts, telling, turns
    <2> DEFINE t == First(ts)
    <2>5. t \in RuleMoves(game, m)
      BY <1>1, <2>3, <2>4, FirstOf, WalkIs
    <2>6. Lost(s, w) = told(t)
      BY <1>4, <1>6
    <2> HIDE DEF t
    <2>7. /\ LeavesTo(game, Play(t, w), RuleAfter(game, m, t), b)
          /\ RuleAfter(game, m, t) \in DOMAIN game.worth
      BY <2>5, PlayLeads
    <2>8. told(t) = IF Play(t, w) = {} THEN "spilled" ELSE IF \A v \in Play(t, w) : BestFor(-s, v) THEN "yes" ELSE "no"
      BY DEF Reply
    <2>9. told(t) = "spilled" => b
      BY <2>7, <2>8 DEF LeavesTo
    <2>10. ASSUME told(t) = "yes" PROVE game.worth[m] = Bound(- s)
      <3>1. Play(t, w) = {WalkOf(game, RuleAfter(game, m, t), b)} /\ \A v \in Play(t, w) : BestFor(-s, v)
        BY <2>7, <2>8, <2>10 DEF LeavesTo
      <3>2. BestFor(-s, WalkOf(game, RuleAfter(game, m, t), b))
        BY <3>1
      <3>3. game.worth[RuleAfter(game, m, t)] = Bound(- s)
        BY <2>7, <3>2, BestForIs
      <3>4. MoverAt(game, m) = - s
        BY <1>1, <1>6
      <3> QED
        BY <2>5, <3>3, <3>4, WonNow
    <2> QED
      BY <2>6, <2>8, <2>9, <2>10
  <1> QED
    BY <1>5, <1>6

-----------------------------------------------------------------------------
(* The root's moves (root.rs). *)

\* What a rank of the moves at m is: some of them, all but those that lose, and
\* a guess within the bounds.
RankOf(g, sieves, m, r) ==
  /\ r.order \in Seq(Transition) /\ Range(r.order) \subseteq RuleMoves(g, m)
  /\ \A t \in RuleMoves(g, m) \ Range(r.order) :
       sieves /\ g.worth[RuleAfter(g, m, t)] = IF MoverAt(g, m) = 1 THEN g.least ELSE g.most
  /\ r.guess \subseteq g.least .. g.most

\* The estimate of a position lies between the bounds.
LEMMA EstimatedIs ==
  ASSUME game \in Library, NEW m \in DOMAIN game.worth, NEW b, plan.estimate
  PROVE  Estimated(WalkOf(game, m, b)) \in Least .. Most
  <1> DEFINE w == WalkOf(game, m, b)
  <1>1. Guess(m) \in Int
    BY GamesAssumption
  <1>2. Score(w) = RewardAt(game, m) /\ (Over(w) <=> RuleMoves(game, m) = {})
    BY WalkMoves
  <1>3. Least \in Int /\ Most \in Int /\ Least <= Most
    BY BoundIs
  <1>4. CASE Over(w)
    <2>1. Score(w) = game.worth[m]
      BY <1>2, <1>4, BestMove
    <2>2. Estimated(w) = Score(w)
      BY <1>4 DEF Estimated
    <2> QED
      BY <1>3, <2>1, <2>2, BoundIs
  <1>5. CASE ~ Over(w)
    <2>1. Estimated(w) = Max({Least, Min({Most, Guess(m)})})
      BY <1>5, WalkIs DEF Estimated
    <2>2. Min({Most, Guess(m)}) = IF Most <= Guess(m) THEN Most ELSE Guess(m)
      BY <1>1, <1>3, MinTwo
    <2>3. Min({Most, Guess(m)}) \in Int
      BY <1>1, <1>3, <2>2
    <2>4. Max({Least, Min({Most, Guess(m)})}) = IF Least <= Min({Most, Guess(m)}) THEN Min({Most, Guess(m)}) ELSE Least
      BY <1>3, <2>3, MaxTwo
    <2> QED
      BY <1>1, <1>3, <2>1, <2>2, <2>4
  <1> QED
    BY <1>4, <1>5

\* What the root's moves are ranked by is at most one record, the one worked out on
\* counts.
LEMMA RankIs ==
  ASSUME game \in Library, NEW m \in DOMAIN game.worth
  PROVE  /\ \A r \in Rank(m) : RankOf(game, plan.root_non_losing, m, r) /\ RuleMoves(game, m) # {}
         /\ Rank(m) = {} \/ Rank(m) = {RankAt(ByCounts(m))}
  <1>1. Rank(m) = {} \/ (Rank(m) = {RankAt(ByCounts(m))} /\ ~ Over(ByCounts(m)))
    BY DEF Rank
  <1> DEFINE w == WalkOf(game, m, FALSE)
             s == MoverAt(game, m)
             left == {u \in RuleMoves(game, m) : ~ Dropped(s, Play(u, w))}
             to(t) == WalkOf(game, RuleAfter(game, m, t), FALSE)
             e(t) == Estimated(to(t))
             kept == {[t |-> t, guess |-> e(t)] : t \in left}
             best == BestFirst(s, kept)
             r == RankAt(ByCounts(m))
  <1>2. ByCounts(m) = w
    BY DEF ByCounts, WalkOf, RuleMoves
  <1>3. Moves(w) = RuleMoves(game, m) /\ (Over(w) <=> RuleMoves(game, m) = {}) /\ Mover(w) = s
    BY WalkMoves
  <1>4. ASSUME NEW t \in RuleMoves(game, m)
        PROVE  Play(t, w) = {to(t)} /\ RuleAfter(game, m, t) \in DOMAIN game.worth
    BY PlayLeads DEF LeavesTo
  <1>5. SUFFICES ASSUME ~ Over(w)
                 PROVE  RankOf(game, plan.root_non_losing, m, r)
    BY <1>1, <1>2, <1>3
  <1>6. s \in {-1, 1}
    BY <1>3, <1>5, BestMove
  <1>7. r = Ranked(s, best)
    <2> DEFINE all(t) == {[t |-> t, guess |-> Estimated(v)] : v \in Play(t, w)}
    <2>0. RankAt(w) = Ranked(Mover(w), BestFirst(Mover(w), UNION {all(t) : t \in {u \in Moves(w) : ~ Dropped(Mover(w), Play(u, w))}}))
      BY DEF RankAt
    <2>1. \A t \in left : all(t) = {[t |-> t, guess |-> e(t)]}
      BY <1>4
    <2>2. UNION {all(t) : t \in left} = kept
      <3> HIDE DEF all, e, left
      <3> QED
        BY <2>1
    <2>3. {u \in Moves(w) : ~ Dropped(Mover(w), Play(u, w))} = left
      BY <1>3
    <2> HIDE DEF all, left, w, kept
    <2> QED
      BY <1>2, <1>3, <2>0, <2>2, <2>3
  <1>8. left \subseteq RuleMoves(game, m) /\ left \subseteq Transition
    BY WalkIs
  <1>e. \A t \in left : e(t) \in Int /\ (plan.estimate => e(t) \in Least .. Most)
    <2> SUFFICES ASSUME NEW t \in left
                 PROVE  e(t) \in Int /\ (plan.estimate => e(t) \in Least .. Most)
      OBVIOUS
    <2>1. CASE plan.estimate
      <3>1. RuleAfter(game, m, t) \in DOMAIN game.worth
        BY <1>4
      <3>2. e(t) \in Least .. Most
        BY <2>1, <3>1, EstimatedIs
      <3>3. Least \in Int /\ Most \in Int
        BY BoundIs
      <3> HIDE DEF e
      <3> QED
        BY <3>2, <3>3
    <2>2. CASE ~ plan.estimate
      BY <2>2 DEF Estimated
    <2> QED
      BY <2>1, <2>2
  <1>d. \A t \in RuleMoves(game, m) \ left : Dropped(s, Play(t, w))
    OBVIOUS
  <1> HIDE DEF left, e
  <1>9. IsFiniteSet(kept)
    <2> DEFINE f == [t \in left |-> [t |-> t, guess |-> e(t)]]
    <2>1. IsFiniteSet(left)
      BY <1>8, TransitionsFinite
    <2>2. kept = {f[t] : t \in left}
      OBVIOUS
    <2> HIDE DEF f, left, kept
    <2> QED
      BY <2>1, <2>2, ImageFinite
  <1>10. \A x \in kept : x.t \in left /\ x.guess = e(x.t)
    OBVIOUS
  <1>11. \A t \in left : \E x \in kept : x.t = t
    <2> TAKE t \in left
    <2> DEFINE x == [t |-> t, guess |-> e(t)]
    <2>1. x \in kept /\ x.t = t
      OBVIOUS
    <2> HIDE DEF x, kept
    <2> QED
      BY <2>1
  <1>12. \A x, y \in kept : x.t = y.t => x = y
    OBVIOUS
  <1>13. \A x \in kept : x.t \in Transition /\ x.guess \in Int /\ (plan.estimate => x.guess \in Least .. Most)
    BY <1>8, <1>10, <1>e
  <1>14. best \in Seq(kept) /\ Range(best) = kept
    <2> HIDE DEF kept
    <2> QED
      BY <1>6, <1>9, <1>12, <1>13, BestFirstIs
  <1>15. r.order = [i \in DOMAIN best |-> best[i].t]
         /\ r.guess = IF plan.estimate /\ best # <<>> THEN {best[1].guess} ELSE {}
    BY <1>7 DEF Ranked
  <1> HIDE DEF best, kept, r
  <1>16. Len(best) \in Nat /\ DOMAIN best = 1 .. Len(best) /\ \A i \in 1 .. Len(best) : best[i] \in kept
    BY <1>14, LenProperties, ElementOfSeq
  <1>17. r.order \in Seq(Transition)
    <2>1. r.order \in [1 .. Len(best) -> Transition]
      BY <1>13, <1>15, <1>16
    <2> QED
      BY <1>16, <2>1, FunctionSeq
  <1>18. Range(r.order) = left
    <2>1. Range(r.order) = {best[i].t : i \in DOMAIN best}
      BY <1>15 DEF Range
    <2>2. kept = {best[i] : i \in DOMAIN best}
      BY <1>14 DEF Range
    <2>3. \A i \in DOMAIN best : best[i] \in kept
      BY <2>2
    <2>4. \A t \in left : \E i \in DOMAIN best : best[i].t = t
      BY <1>11, <2>2
    <2> QED
      BY <1>10, <2>1, <2>3, <2>4
  <1>19. r.guess \subseteq Least .. Most
    <2>1. best # <<>> => Len(best) # 0
      BY <1>14, EmptySeq
    <2>2. best # <<>> => best[1] \in kept
      BY <1>16, <2>1
    <2> QED
      BY <1>13, <1>15, <2>2
  <1>20. ASSUME NEW t \in RuleMoves(game, m) \ left
         PROVE  plan.root_non_losing /\ game.worth[RuleAfter(game, m, t)] = Bound(- s)
    <2>1. Dropped(s, Play(t, w))
      BY <1>d, <1>20
    <2>2. plan.root_non_losing /\ Lost(s, to(t)) = "yes"
      BY <1>4, <2>1 DEF Dropped
    <2> QED
      BY <1>4, <1>6, <2>2, LostIs
  <1>21. Bound(- s) = IF s = 1 THEN game.least ELSE game.most
    BY <1>6, BoundIs
  <1>22. \A t \in RuleMoves(game, m) \ left :
           plan.root_non_losing /\ game.worth[RuleAfter(game, m, t)] = IF s = 1 THEN game.least ELSE game.most
    BY <1>20, <1>21
  <1>23. RankOf(game, plan.root_non_losing, m, r)
    BY <1>8, <1>17, <1>18, <1>19, <1>22 DEF RankOf, Least, Most
  <1> QED
    BY <1>23 DEF r

-----------------------------------------------------------------------------
(* The inductive invariant, in two parts: what holds of the shape of the     *)
(* search under every plan, and what holds of the values where not both      *)
(* filters drop losing moves.                                                *)

AtMostOne(S) == \A x, y \in S : x = y

\* The positions of a game, and the walks to them.
FaithfulWalks(g) == UNION {{WalkOf(g, m, b) : m \in {x \in DOMAIN g.worth : b => FitsBits(x)}} : b \in BOOLEAN}

KeySet(g) == [mk : DOMAIN g.worth, bits : BOOLEAN]

EntrySet(g) == [key : KeySet(g), lo : Int, hi : Int, best : SUBSET Transition]

RankSet == [order : Seq(Transition), guess : SUBSET Int]

RunSet(g) ==
  [at : DOMAIN g.worth, ranked : SUBSET RankSet, bits : BOOLEAN, spilled : BOOLEAN,
   mode : {"range", "aspire", "steps", "mtd_f"}, i : Int, j : Int, k : Int, f : SUBSET Int]

CallSet(g) ==
  [kind : {"none", "value", "choose"}, at : DOMAIN g.worth, order : Seq(Transition), left : Seq(Transition),
   known : SUBSET Transition, trying : SUBSET Transition, value : Seq(Int), total : Int, limit : Int,
   move : SUBSET Transition, exact : BOOLEAN]

KidSet(g) == [t : Transition, w : FaithfulWalks(g), keys : Seq(Int)]

FrameSet(g) ==
  [w : FaithfulWalks(g), s : {-1, 1}, a0 : Int, b0 : Int, a : Int, b : Int, next : Int,
   best : Seq(Int), by : SUBSET Transition, kids : Seq(KidSet(g))]

ArgSet(g) == [w : FaithfulWalks(g), a : Int, b : Int, root : BOOLEAN]

Searching == {"test", "search", "back"}

\* The table has at most one entry of a position, by each engine, and remembers
\* a move of it.
TableKept(g, tb) ==
  /\ tb \subseteq EntrySet(g)
  /\ \A e \in tb : e.best \subseteq RuleMoves(g, e.key.mk)
  /\ \A e, x \in tb : e.key = x.key => e = x

\* A run is at a position its engine holds, and its rank is one of that.
RunKept(g, pl, rn) ==
  /\ rn \in RunSet(g)
  /\ rn.bits => FitsBits(rn.at)
  /\ \A r \in rn.ranked : RankOf(g, pl.root_non_losing, rn.at, r) /\ RuleMoves(g, rn.at) # {} /\ AtMostOne(r.guess)
  /\ AtMostOne(rn.ranked) /\ AtMostOne(rn.f)

\* The value a search of a run is about is among those from i to j, and its
\* window is about two of them.
IndexKept(g, sg, rn) ==
  LET n == Len(g.values)
  IN  /\ \A r \in rn.ranked : r.order # <<>>
      /\ rn.mode = "aspire" => rn.f # {} /\ rn.f \subseteq g.least .. g.most
      /\ rn.mode = "steps" => 1 <= rn.i /\ rn.i <= rn.k /\ rn.k < rn.j /\ rn.j <= n
      /\ rn.mode = "mtd_f" => /\ rn.i \in 1 .. n /\ rn.j \in 1 .. n /\ rn.f \subseteq 1 .. n
                              /\ sg # "test" => rn.i <= rn.k /\ rn.k < rn.j

\* Window, for a game and a run.
WindowOf(g, rn) ==
  LET d == (g.most - g.least) \div 8
      k == IF rn.mode = "mtd_f" THEN TestGap(rn.i, rn.j, rn.f) ELSE rn.k
  IN  CASE rn.mode = "range" -> <<g.least, g.most>>
        [] rn.mode = "aspire" -> <<Max({Max(rn.f) - d, g.least}), Min({Max(rn.f) + d, g.most})>>
        [] OTHER -> <<g.values[k], g.values[k + 1]>>

\* The search that asks for frame i of a stack, or for the one about to be
\* entered: which walk, in which window.
AskedAt(g, rn, st, i) ==
  IF i = 1 THEN [w |-> WalkOf(g, rn.at, rn.bits), a |-> WindowOf(g, rn)[1], b |-> WindowOf(g, rn)[2]]
  ELSE [w |-> st[i - 1].kids[st[i - 1].next].w, a |-> st[i - 1].a, b |-> st[i - 1].b]

Pending(g, rn, st) == AskedAt(g, rn, st, Len(st) + 1)

FrameKept(g, rn, f) ==
  /\ f \in FrameSet(g)
  /\ f.w.bits = rn.bits
  /\ RuleMoves(g, f.w.mk) # {} /\ f.s = MoverAt(g, f.w.mk)
  /\ f.by \subseteq RuleMoves(g, f.w.mk)
  /\ 1 <= f.next /\ f.next <= Len(f.kids)
  /\ \A i \in 1 .. Len(f.kids) :
       f.kids[i].t \in RuleMoves(g, f.w.mk) /\ f.kids[i].w = WalkOf(g, RuleAfter(g, f.w.mk, f.kids[i].t), f.w.bits)

StackKept(g, rn, st) ==
  /\ st \in Seq(FrameSet(g))
  /\ \A i \in 1 .. Len(st) : FrameKept(g, rn, st[i]) /\ st[i].w = AskedAt(g, rn, st, i).w

ArgKept(g, rn, st, ar) ==
  /\ ar \in ArgSet(g)
  /\ ar.w = Pending(g, rn, st).w /\ ar.a = Pending(g, rn, st).a /\ ar.b = Pending(g, rn, st).b
  /\ ar.root <=> st = <<>>

\* A search gives up for a reason.
Spent(c, nd, sp) == nd > c.limit \/ sp

CallKept(g, pl, sg, rn, c, r, nd, sp) ==
  /\ c \in CallSet(g)
  /\ Range(c.order) \cup Range(c.left) \cup c.known \cup c.trying \cup c.move \subseteq RuleMoves(g, c.at)
  /\ sg # "idle" => /\ c.kind # "none" /\ c.move = {} /\ c.exact
                    /\ c.kind = "choose" => c.order # <<>>
  /\ sg \in Searching \cup {"run", "done"} =>
       \/ c.trying = {} /\ rn.at = c.at /\ c.value = <<>>
       \/ c.kind = "choose" /\ c.value # <<>> /\ \E t \in RuleMoves(g, c.at) : c.trying = {t} /\ rn.at = RuleAfter(g, c.at, t)
  /\ sg = "pick" => c.kind = "choose" /\ c.trying = {} /\ c.value # <<>>
  /\ sg = "idle" => /\ c.kind = "value" /\ c.value = <<>> => Spent(c, nd, sp)
                    /\ c.kind = "choose" => /\ ~ c.exact => pl.play
                                            /\ pl.play /\ RuleMoves(g, c.at) # {} => c.move # {}
                                            /\ c.exact /\ c.move # {} => c.value # <<>>
  /\ sg = "done" => r # <<>> \/ Spent(c, nd, sp)
  /\ sg = "back" => r # <<>> \/ Spent(c, nd, sp) \/ (rn.bits /\ rn.spilled)

Fixed == game \in Library /\ plan.order \in Seq(OrderPieces) /\ plan.budget \in Int

Counted ==
  /\ history \in [Transition -> Int] /\ nodes \in Int /\ stop \in BOOLEAN /\ ret \in Seq(Int)
  /\ stage \in Searching \cup {"idle", "run", "done", "pick"}

Shape ==
  /\ Fixed /\ Counted
  /\ TableKept(game, table)
  /\ RunKept(game, plan, run)
  /\ stage \in Searching => IndexKept(game, stage, run)
  /\ StackKept(game, run, stack)
  /\ stage \notin {"search", "back"} => stack = <<>>
  /\ stage = "search" => ArgKept(game, run, stack, arg)
  /\ CallKept(game, plan, stage, run, call, ret, nodes, stop)

\* v, found in the window from a to b, tells of the value x what a fail-soft
\* search tells.
Tells(x, a, b, v) ==
  /\ v <= a => x <= v
  /\ v >= b => x >= v
  /\ a < v /\ v < b => x = v

WorstOf(g, s) == IF s = 1 THEN g.least ELSE g.most

TableTrue(g, tb) ==
  \A e \in tb : /\ e.lo <= g.worth[e.key.mk] /\ g.worth[e.key.mk] <= e.hi
                /\ g.least <= e.lo /\ e.hi <= g.most

\* A window there is something to find in.
Proper(g, a, b) == g.least <= a /\ a <= b /\ b <= g.most /\ (a = b => g.least = g.most)

\* What a frame knows: its window is the one asked for, or the table's where it
\* is narrower; its kids are all that could be best; its best bounds the kids
\* seen, and is attained where it is inside the window or cuts it off.
FrameTrue(g, f, q) ==
  LET x == g.worth[f.w.mk]
      after(t) == g.worth[RuleAfter(g, f.w.mk, t)]
      T == RuleMoves(g, f.w.mk)
  IN  /\ Proper(g, f.a, f.b)
      /\ f.a0 = q.a \/ (q.a <= f.a0 /\ f.a0 <= x)
      /\ f.b0 = q.b \/ (x <= f.b0 /\ f.b0 <= q.b)
      /\ \A t \in T : (\E i \in 1 .. Len(f.kids) : f.kids[i].t = t) \/ after(t) = WorstOf(g, f.s)
      /\ f.best = <<>> => f.next = 1 /\ f.a = f.a0 /\ f.b = f.b0
      /\ f.best # <<>> => g.least <= f.best[1] /\ f.best[1] <= g.most
      /\ f.best # <<>> /\ f.s = 1 =>
           /\ f.b = f.b0 /\ f.a = Max({f.a0, f.best[1]})
           /\ \A i \in 1 .. f.next - 1 : after(f.kids[i].t) <= f.best[1]
           /\ f.best[1] > f.a0 => \E t \in T : after(t) >= f.best[1]
      /\ f.best # <<>> /\ f.s = -1 =>
           /\ f.a = f.a0 /\ f.b = Min({f.b0, f.best[1]})
           /\ \A i \in 1 .. f.next - 1 : after(f.kids[i].t) >= f.best[1]
           /\ f.best[1] < f.b0 => \E t \in T : after(t) <= f.best[1]

StackTrue(g, rn, st) == \A i \in 1 .. Len(st) : FrameTrue(g, st[i], AskedAt(g, rn, st, i))

\* The value of the position is one of those the run still considers.
RunTrue(g, rn) ==
  rn.mode \in {"steps", "mtd_f"} => \E q \in rn.i .. rn.j : g.worth[rn.at] = g.values[q]

RetTrue(g, q, r) ==
  r # <<>> => g.least <= r[1] /\ r[1] <= g.most /\ Tells(g.worth[q.w.mk], q.a, q.b, r[1])

CallTrue(g, c) ==
  /\ c.value # <<>> => c.value[1] = g.worth[c.at]
  /\ c.exact => \A t \in c.move : g.worth[RuleAfter(g, c.at, t)] = g.worth[c.at]

Truth ==
  /\ TableTrue(game, table)
  /\ StackTrue(game, run, stack)
  /\ stage \in Searching => RunTrue(game, run)
  /\ stage = "back" => RetTrue(game, Pending(game, run, stack), ret)
  /\ stage = "done" /\ ret # <<>> => ret[1] = game.worth[run.at]
  /\ CallTrue(game, call)

IInv == Shape /\ (OneFilter => Truth)

-----------------------------------------------------------------------------
(* The table.                                                               *)

\* A set of at most one element is finite.
LEMMA OneFinite ==
  ASSUME NEW S, AtMostOne(S)
  PROVE  IsFiniteSet(S)
  <1>1. CASE S = {}
    BY <1>1, FS_EmptySet
  <1>2. CASE S # {}
    <2>1. \E x : S = {x}
      BY <1>2 DEF AtMostOne
    <2> QED
      BY <2>1, FS_Singleton
  <1> QED
    BY <1>1, <1>2

\* The one element of a set that has at most one.
LEMMA OneChosen ==
  ASSUME NEW S, AtMostOne(S), NEW x \in S
  PROVE  S = {x} /\ (CHOOSE y \in S : TRUE) = x
  BY DEF AtMostOne

\* Max and Min of the one member of a set.
LEMMA OneExtreme ==
  ASSUME NEW S \in SUBSET Int, AtMostOne(S), NEW x \in S
  PROVE  Max(S) = x /\ Min(S) = x
  BY OneChosen, MinMaxOne

\* What the most and the least are of a number x and of what f makes of S.
Narrows(S, f, x) ==
  /\ Max({x} \cup {f[e] : e \in S}) \in Int /\ Min({x} \cup {f[e] : e \in S}) \in Int
  /\ Max({x} \cup {f[e] : e \in S}) \in {x} \cup {f[e] : e \in S}
  /\ Min({x} \cup {f[e] : e \in S}) \in {x} \cup {f[e] : e \in S}
  /\ x <= Max({x} \cup {f[e] : e \in S}) /\ Min({x} \cup {f[e] : e \in S}) <= x
  /\ \A e \in S : f[e] <= Max({x} \cup {f[e2] : e2 \in S}) /\ Min({x} \cup {f[e2] : e2 \in S}) <= f[e]

\* Taking one more number into Max or Min.
LEMMA WithOne ==
  ASSUME NEW S, AtMostOne(S), NEW f, \A e \in S : f[e] \in Int, NEW x \in Int
  PROVE  Narrows(S, f, x)
  <1> DEFINE T == {x} \cup {f[e] : e \in S}
  <1>1. T \in SUBSET Int /\ T # {}
    OBVIOUS
  <1>2. IsFiniteSet({f[e] : e \in S})
    BY OneFinite, ImageFinite
  <1>3. IsFiniteSet(T)
    BY <1>2, FS_Singleton, FS_Union
  <1>4. x \in T /\ \A e \in S : f[e] \in T
    OBVIOUS
  <1> HIDE DEF T
  <1>5. Max(T) \in T /\ (\A y \in T : y <= Max(T)) /\ Min(T) \in T /\ (\A y \in T : Min(T) <= y)
    BY <1>1, <1>3, MaxOf, MinOf
  <1>6. Max(T) \in Int /\ Min(T) \in Int /\ x <= Max(T) /\ Min(T) <= x
        /\ \A e \in S : f[e] <= Max(T) /\ Min(T) <= f[e]
    BY <1>1, <1>4, <1>5
  <1> QED
    BY <1>5, <1>6 DEF T, Narrows

\* The table holds at most one entry of a key, about that key.
LEMMA HeldIs ==
  ASSUME TableKept(game, table), NEW k
  PROVE  AtMostOne(Held(k)) /\ \A e \in Held(k) : e \in table /\ e.key = k /\ e.lo \in Int /\ e.hi \in Int /\ e.best \subseteq RuleMoves(game, e.key.mk)
  <1>1. \A e \in Held(k) : e \in table /\ e.key = k /\ e \in EntrySet(game)
    BY DEF Held, TableKept
  <1> QED
    BY <1>1 DEF TableKept, AtMostOne, EntrySet

\* What the table holds of k narrows a window.
LEMMA Narrowed ==
  ASSUME TableKept(game, table), NEW k, NEW x \in Int
  PROVE  /\ Max({x} \cup {e.lo : e \in Held(k)}) \in Int /\ Min({x} \cup {e.hi : e \in Held(k)}) \in Int
         /\ Max({x} \cup {e.lo : e \in Held(k)}) \in {x} \cup {e.lo : e \in Held(k)}
         /\ Min({x} \cup {e.hi : e \in Held(k)}) \in {x} \cup {e.hi : e \in Held(k)}
         /\ x <= Max({x} \cup {e.lo : e \in Held(k)}) /\ Min({x} \cup {e.hi : e \in Held(k)}) <= x
         /\ \A e \in Held(k) : e.lo <= Max({x} \cup {d.lo : d \in Held(k)}) /\ Min({x} \cup {d.hi : d \in Held(k)}) <= e.hi
  <1> DEFINE S == Held(k)
             lo == [e \in S |-> e.lo]
             hi == [e \in S |-> e.hi]
  <1>1. AtMostOne(S) /\ \A e \in S : lo[e] \in Int /\ hi[e] \in Int /\ lo[e] = e.lo /\ hi[e] = e.hi
    BY HeldIs
  <1>a. AtMostOne(S)
    BY <1>1
  <1>b. \A e \in S : lo[e] \in Int
    BY <1>1
  <1>c. \A e \in S : hi[e] \in Int
    BY <1>1
  <1>2. {e.lo : e \in S} = {lo[e] : e \in S} /\ {e.hi : e \in S} = {hi[e] : e \in S}
    OBVIOUS
  <1> HIDE DEF S, lo, hi
  <1>L. Narrows(S, lo, x)
    BY <1>a, <1>b, WithOne
  <1>H. Narrows(S, hi, x)
    BY <1>a, <1>c, WithOne
  <1>3. /\ Max({x} \cup {lo[e] : e \in S}) \in Int /\ Max({x} \cup {lo[e] : e \in S}) \in {x} \cup {lo[e] : e \in S}
        /\ x <= Max({x} \cup {lo[e] : e \in S}) /\ \A e \in S : lo[e] <= Max({x} \cup {lo[d] : d \in S})
    BY <1>L DEF Narrows
  <1>4. /\ Min({x} \cup {hi[e] : e \in S}) \in Int /\ Min({x} \cup {hi[e] : e \in S}) \in {x} \cup {hi[e] : e \in S}
        /\ Min({x} \cup {hi[e] : e \in S}) <= x /\ \A e \in S : Min({x} \cup {hi[d] : d \in S}) <= hi[e]
    BY <1>H DEF Narrows
  <1>5. /\ Max({x} \cup {e.lo : e \in S}) \in Int /\ Max({x} \cup {e.lo : e \in S}) \in {x} \cup {e.lo : e \in S}
        /\ x <= Max({x} \cup {e.lo : e \in S}) /\ \A e \in S : e.lo <= Max({x} \cup {d.lo : d \in S})
    BY <1>1, <1>2, <1>3
  <1>6. /\ Min({x} \cup {e.hi : e \in S}) \in Int /\ Min({x} \cup {e.hi : e \in S}) \in {x} \cup {e.hi : e \in S}
        /\ Min({x} \cup {e.hi : e \in S}) <= x /\ \A e \in S : Min({x} \cup {d.hi : d \in S}) <= e.hi
    BY <1>1, <1>2, <1>4
  <1> QED
    BY <1>5, <1>6 DEF S

\* What is written of a key: bounds told now, or those held before.
LEMMA EntryIs ==
  ASSUME TableKept(game, table), NEW k \in KeySet(game), NEW lo \in Int, NEW hi \in Int, NEW best \in SUBSET RuleMoves(game, k.mk)
  PROVE  /\ Entry(k, lo, hi, best) \in EntrySet(game)
         /\ Entry(k, lo, hi, best).key = k /\ Entry(k, lo, hi, best).best = best
         /\ Entry(k, lo, hi, best).lo \in {lo} \cup {e.lo : e \in Held(k)}
         /\ Entry(k, lo, hi, best).hi \in {hi} \cup {e.hi : e \in Held(k)}
  <1> DEFINE l == Max({lo} \cup {e.lo : e \in Held(k)})
             h == Min({hi} \cup {e.hi : e \in Held(k)})
  <1>1. l \in Int /\ h \in Int /\ l \in {lo} \cup {e.lo : e \in Held(k)} /\ h \in {hi} \cup {e.hi : e \in Held(k)}
    BY Narrowed
  <1>2. best \in SUBSET Transition
    BY WalkIs
  <1>3. Entry(k, lo, hi, best) = [key |-> k, lo |-> l, hi |-> h, best |-> best]
    BY DEF Entry
  <1> HIDE DEF l, h
  <1>4. Entry(k, lo, hi, best) \in EntrySet(game)
    BY <1>1, <1>2, <1>3 DEF EntrySet
  <1>5. /\ Entry(k, lo, hi, best).key = k /\ Entry(k, lo, hi, best).best = best
        /\ Entry(k, lo, hi, best).lo = l /\ Entry(k, lo, hi, best).hi = h
    BY <1>3
  <1> QED
    BY <1>1, <1>4, <1>5

\* A store leaves a table of its type, with at most the one entry added.
LEMMA StoreIs ==
  ASSUME TableKept(game, table), NEW k \in KeySet(game), NEW lo \in Int, NEW hi \in Int, NEW best \in SUBSET RuleMoves(game, k.mk),
         Store(k, lo, hi, best)
  PROVE  /\ TableKept(game, table')
         /\ table' \subseteq table \cup {Entry(k, lo, hi, best)}
  <1> DEFINE x == Entry(k, lo, hi, best)
  <1>1. x \in EntrySet(game) /\ x.key = k /\ x.best = best
    BY EntryIs
  <1>2. table' = table \/ table' \subseteq (table \ Held(k)) \cup {x}
    BY DEF Store
  <1> HIDE DEF x
  <1>3. \A e \in table \ Held(k) : e.key # k
    BY DEF Held
  <1>4. table' \subseteq table \cup {x}
    BY <1>2
  <1>5. TableKept(game, table')
    <2>1. CASE table' = table
      BY <2>1
    <2>2. CASE table' \subseteq (table \ Held(k)) \cup {x}
      BY <1>1, <1>3, <2>2 DEF TableKept
    <2> QED
      BY <1>2, <2>1, <2>2
  <1> QED
    BY <1>4, <1>5 DEF x

-----------------------------------------------------------------------------
(* Walks and windows.                                                       *)

\* The faithful walks are those at the positions of the game, with the moves the rule
\* allows.
LEMMA FaithfulIs ==
  ASSUME NEW g
  PROVE  /\ \A w \in FaithfulWalks(g) : w = WalkOf(g, w.mk, w.bits) /\ w.mk \in DOMAIN g.worth /\ w.bits \in BOOLEAN
                                        /\ (w.bits => FitsBits(w.mk)) /\ w.en = RuleMoves(g, w.mk)
         /\ \A m \in DOMAIN g.worth, b \in BOOLEAN : (b => FitsBits(m)) => WalkOf(g, m, b) \in FaithfulWalks(g)
  <1>1. ASSUME NEW w \in FaithfulWalks(g)
        PROVE  \E m \in DOMAIN g.worth, b \in BOOLEAN : w = WalkOf(g, m, b) /\ (b => FitsBits(m))
    BY DEF FaithfulWalks
  <1>2. ASSUME NEW w \in FaithfulWalks(g)
        PROVE  w = WalkOf(g, w.mk, w.bits) /\ w.mk \in DOMAIN g.worth /\ w.bits \in BOOLEAN
               /\ (w.bits => FitsBits(w.mk)) /\ w.en = RuleMoves(g, w.mk)
    <2>1. PICK m \in DOMAIN g.worth, b \in BOOLEAN : w = WalkOf(g, m, b) /\ (b => FitsBits(m))
      BY <1>1
    <2>2. w.mk = m /\ w.en = RuleMoves(g, m)
      BY <2>1, WalkIs
    <2>3. w.bits = b
      BY <2>1, WalkIs
    <2> QED
      BY <2>1, <2>2, <2>3
  <1> QED
    BY <1>2 DEF FaithfulWalks

\* The walk a run starts with.
LEMMA ByIs ==
  ASSUME game \in Library, NEW m \in DOMAIN game.worth, NEW b \in BOOLEAN, b => FitsBits(m)
  PROVE  (IF b THEN ByBits(m) ELSE ByCounts(m)) = WalkOf(game, m, b)
  <1>1. CASE ~ b
    <2>1. b = FALSE
      BY <1>1
    <2> QED
      BY <2>1 DEF ByCounts, WalkOf, RuleMoves
  <1>2. CASE b
    <2>1. b = TRUE
      BY <1>2
    <2>2. m \in [Place -> {0, 1}] /\ game.net \in Nets /\ game.bits = Bits(game.net)
      BY <1>2, GameIs DEF FitsBits, Marking
    <2>3. \A t \in Transition : BitEnabled(game.bits[t], Marked(m)) <=> Enabled(game.net, t, m)
      <3>1. \A t \in Transition : game.bits[t] = Resolved(game.net, t)
        BY <2>2 DEF Bits
      <3> QED
        BY <2>2, <3>1, BitsTell
    <2>4. {t \in Transition : BitEnabled(game.bits[t], Marked(m))} = RuleMoves(game, m)
      BY <2>3 DEF RuleMoves
    <2> QED
      BY <2>1, <2>4 DEF ByBits, WalkOf
  <1> QED
    BY <1>1, <1>2

\* The values a game may have are listed in order.
LEMMA ValuesAscend ==
  ASSUME NEW g \in Library, NEW i \in 1 .. Len(g.values), NEW j \in 1 .. Len(g.values)
  PROVE  g.values[i] < g.values[j] <=> i < j
  <1>1. g.values[i] \in Int /\ g.values[j] \in Int
        /\ (i < j => g.values[i] < g.values[j]) /\ (j < i => g.values[j] < g.values[i])
    BY ValuesIs
  <1>2. Len(g.values) \in Nat
    BY ValuesIs
  <1> QED
    BY <1>1, <1>2

\* A gap that is tested lies between the two values that are left.
LEMMA GapIs ==
  ASSUME NEW i \in Int, NEW j \in Int, i < j, NEW f \in SUBSET Int, AtMostOne(f)
  PROVE  TestGap(i, j, f) \in i .. j - 1
  <1>1. CASE f = {}
    BY <1>1 DEF TestGap
  <1>2. CASE f # {}
    <2>0. PICK x \in f : x \in Int
      BY <1>2
    <2>1. Max(f) = x /\ x \in Int
      BY <2>0, OneExtreme
    <2>2. Min({x - 1, j - 1}) = IF x - 1 <= j - 1 THEN x - 1 ELSE j - 1
      BY <2>1, MinTwo
    <2> QED
      BY <1>2, <2>1, <2>2 DEF TestGap
  <1> QED
    BY <1>1, <1>2

\* The first width of a window is a number, zero only where all values are one.
LEMMA EighthIs ==
  ASSUME NEW g \in Library
  PROVE  (g.most - g.least) \div 8 \in Nat /\ ((g.most - g.least) \div 8 = 0 => g.least = g.most)
  <1>1. (g.most - g.least) % 8 = 0
    BY GamesAssumption
  <1>2. g.most \in Int /\ g.least \in Int /\ g.least <= g.most
    BY SumsBetween
  <1> QED
    BY <1>1, <1>2

\* A window tested is proper: not empty, or between the bounds.
LEMMA WindowProper ==
  ASSUME NEW g \in Library, NEW pl, NEW rn, RunKept(g, pl, rn), NEW sg, IndexKept(g, sg, rn),
         rn.mode = "mtd_f" => rn.i < rn.j
  PROVE  /\ WindowOf(g, rn)[1] \in Int /\ WindowOf(g, rn)[2] \in Int
         /\ Proper(g, WindowOf(g, rn)[1], WindowOf(g, rn)[2])
         /\ rn.mode = "mtd_f" => TestGap(rn.i, rn.j, rn.f) \in rn.i .. rn.j - 1
  <1>1. g.most \in Int /\ g.least \in Int /\ g.least <= g.most
    BY SumsBetween
  <1>2. rn.mode \in {"range", "aspire", "steps", "mtd_f"} /\ rn.i \in Int /\ rn.j \in Int /\ rn.k \in Int
        /\ rn.f \in SUBSET Int /\ AtMostOne(rn.f)
    BY DEF RunKept, RunSet
  <1>3. CASE rn.mode = "range"
    <2>1. WindowOf(g, rn) = <<g.least, g.most>>
      BY <1>3 DEF WindowOf
    <2> QED
      BY <1>1, <1>3, <2>1 DEF Proper
  <1>4. CASE rn.mode = "aspire"
    <2> DEFINE d == (g.most - g.least) \div 8
    <2>1. rn.f # {} /\ rn.f \subseteq g.least .. g.most
      BY <1>4 DEF IndexKept
    <2>2. PICK x \in rn.f : Max(rn.f) = x /\ x \in g.least .. g.most
      BY <1>2, <2>1, OneExtreme
    <2>3. WindowOf(g, rn) = <<Max({x - d, g.least}), Min({x + d, g.most})>>
      BY <1>4, <2>2 DEF WindowOf
    <2>4. d \in Nat /\ (d = 0 => g.least = g.most)
      BY EighthIs
    <2> HIDE DEF d
    <2>5. /\ Max({x - d, g.least}) = IF x - d <= g.least THEN g.least ELSE x - d
          /\ Min({x + d, g.most}) = IF x + d <= g.most THEN x + d ELSE g.most
      BY <1>1, <2>2, <2>4, MinTwo, MaxTwo
    <2> QED
      BY <1>1, <1>4, <2>2, <2>3, <2>4, <2>5 DEF Proper
  <1>5. CASE rn.mode \in {"steps", "mtd_f"}
    <2> DEFINE k == IF rn.mode = "mtd_f" THEN TestGap(rn.i, rn.j, rn.f) ELSE rn.k
    <2>1. WindowOf(g, rn) = <<g.values[k], g.values[k + 1]>>
      BY <1>5 DEF WindowOf
    <2>2. rn.mode = "mtd_f" => k \in rn.i .. rn.j - 1
      BY <1>2, GapIs
    <2>3. Len(g.values) \in Nat
      BY ValuesIs
    <2>4. k \in 1 .. Len(g.values) /\ k + 1 \in 1 .. Len(g.values)
      BY <1>2, <1>5, <2>2, <2>3 DEF IndexKept
    <2>5. rn.mode = "mtd_f" => k = TestGap(rn.i, rn.j, rn.f)
      OBVIOUS
    <2> HIDE DEF k
    <2>6. g.values[k] < g.values[k + 1] /\ g.values[k] \in g.least .. g.most /\ g.values[k + 1] \in g.least .. g.most
      BY <2>4, ValuesIs
    <2> QED
      BY <1>1, <2>1, <2>2, <2>5, <2>6 DEF Proper
  <1> QED
    BY <1>2, <1>3, <1>4, <1>5

\* A least index where d is least.
LEMMA NearestIs ==
  ASSUME NEW S \in SUBSET Int, IsFiniteSet(S), S # {}, NEW d, \A x \in S : d[x] \in Int
  PROVE  \E k \in S : \A o \in S : d[k] < d[o] \/ (d[k] = d[o] /\ k <= o)
  <1> DEFINE D == {d[x] : x \in S}
  <1>1. D \in SUBSET Int /\ D # {} /\ IsFiniteSet(D) /\ \A x \in S : d[x] \in D
    BY ImageFinite
  <1> HIDE DEF D
  <1>2. PICK y \in D : y \in Int /\ \A z \in D : y <= z
    BY <1>1, MinOf
  <1> DEFINE T == {x \in S : d[x] = y}
  <1>3. T \in SUBSET Int /\ T # {} /\ IsFiniteSet(T)
    <2>1. T # {}
      BY <1>2 DEF D
    <2>2. IsFiniteSet(T)
      BY FS_Subset
    <2> QED
      BY <2>1, <2>2
  <1>4. PICK k \in T : \A z \in T : k <= z
    BY <1>3, MinOf
  <1>5. k \in S /\ d[k] = y
    BY <1>4
  <1>6. ASSUME NEW o \in S
        PROVE  d[k] < d[o] \/ (d[k] = d[o] /\ k <= o)
    <2>1. y <= d[o] /\ d[o] \in Int
      BY <1>1, <1>2
    <2>2. d[o] = y => k <= o
      BY <1>4
    <2> QED
      BY <1>2, <1>5, <2>1, <2>2
  <1> QED
    BY <1>5, <1>6

\* A distance is a number.
LEMMA DistanceIs == \A x, y \in Int : Distance(x, y) \in Int
  BY DEF Distance

\* The places of the values up to x: they are the first ones.
LEMMA FirstOnes ==
  ASSUME NEW n \in Nat, NEW K \in SUBSET (1 .. n), \A k \in K : \A i \in 1 .. k : i \in K
  PROVE  Cardinality(K) \in 0 .. n /\ \A k \in 1 .. n : k \in K <=> k <= Cardinality(K)
  <1>1. IsFiniteSet(K)
    BY Positions
  <1>2. CASE K = {}
    <2>1. Cardinality(K) = 0
      BY <1>2, FS_EmptySet
    <2> QED
      BY <1>2, <2>1
  <1>3. CASE K # {}
    <2>1. K \in SUBSET Int
      OBVIOUS
    <2>2. PICK c \in K : \A k \in K : k <= c
      BY <1>1, <1>3, <2>1, MaxOf
    <2>3. K = 1 .. c /\ c \in 1 .. n
      <3>1. c \in 1 .. n /\ \A i \in 1 .. c : i \in K
        OBVIOUS
      <3>2. \A k \in K : k \in 1 .. c
        BY <2>2
      <3> QED
        BY <3>1, <3>2
    <2>4. Cardinality(K) = c
      BY <2>3, FS_Interval
    <2> QED
      BY <2>3, <2>4
  <1> QED
    BY <1>2, <1>3

\* UpTo and From, by the order of the values.
LEMMA PlacesAre ==
  ASSUME game \in Library, NEW x \in Int
  PROVE  /\ UpTo(x) \in 0 .. Len(Values) /\ From(x) \in 1 .. Len(Values) + 1
         /\ \A q \in 1 .. Len(Values) : (Values[q] <= x <=> q <= UpTo(x)) /\ (Values[q] < x <=> q < From(x))
  <1> DEFINE n == Len(Values)
             K == {k \in DOMAIN Values : Values[k] <= x}
             L == {k \in DOMAIN Values : Values[k] < x}
  <1>1. n \in Nat /\ DOMAIN Values = 1 .. n /\ \A q \in 1 .. n : Values[q] \in Int
    BY ValuesIs DEF Values
  <1>2. \A i, j \in 1 .. n : Values[i] < Values[j] <=> i < j
    BY ValuesAscend DEF Values
  <1> HIDE DEF n
  <1>3. ASSUME NEW k \in 1 .. n, NEW i \in 1 .. k
        PROVE  i \in 1 .. n /\ Values[i] <= Values[k] /\ Values[i] \in Int /\ Values[k] \in Int
    <2>1. i \in 1 .. n
      BY <1>1
    <2>2. i = k \/ i < k
      BY <1>1
    <2> QED
      BY <1>1, <1>2, <2>1, <2>2
  <1>4. K \in SUBSET (1 .. n) /\ L \in SUBSET (1 .. n)
    BY <1>1
  <1>5. \A k \in K : \A i \in 1 .. k : i \in K
    BY <1>1, <1>3
  <1>6. \A k \in L : \A i \in 1 .. k : i \in L
    BY <1>1, <1>3
  <1>7. \A q \in 1 .. n : (q \in K <=> Values[q] <= x) /\ (q \in L <=> Values[q] < x)
    BY <1>1
  <1>8. UpTo(x) = Cardinality(K) /\ From(x) = 1 + Cardinality(L)
    BY DEF UpTo, From
  <1> HIDE DEF K, L
  <1>9. Cardinality(K) \in 0 .. n /\ \A k \in 1 .. n : k \in K <=> k <= Cardinality(K)
    BY <1>1, <1>4, <1>5, FirstOnes
  <1>10. Cardinality(L) \in 0 .. n /\ \A k \in 1 .. n : k \in L <=> k <= Cardinality(L)
    BY <1>1, <1>4, <1>6, FirstOnes
  <1>11. UpTo(x) \in 0 .. n /\ From(x) \in 1 .. n + 1
    BY <1>1, <1>8, <1>9, <1>10
  <1>12. ASSUME NEW q \in 1 .. n
         PROVE  (Values[q] <= x <=> q <= UpTo(x)) /\ (Values[q] < x <=> q < From(x))
    BY <1>1, <1>7, <1>8, <1>9, <1>10
  <1> QED
    BY <1>11, <1>12 DEF n

\* The value, and the gap, nearest to a guess are there.
LEMMA NearestPlace ==
  ASSUME game \in Library, NEW n \in Nat, n # 0, NEW e \in Int
  PROVE  /\ n = Len(Values) => Nearest(1 .. n, LAMBDA k : Distance(Values[k], e)) \in 1 .. n
         /\ n + 1 = Len(Values) => Nearest(1 .. n, LAMBDA x : Distance(Values[x] + Values[x + 1], 2 * e)) \in 1 .. n
  <1>1. \A k \in 1 .. Len(Values) : Values[k] \in Int
    BY ValuesIs DEF Values
  <1>2. 1 .. n \in SUBSET Int /\ 1 .. n # {}
    OBVIOUS
  <1>3. IsFiniteSet(1 .. n)
    BY FS_Interval
  <1>4. ASSUME n = Len(Values)
        PROVE  Nearest(1 .. n, LAMBDA k : Distance(Values[k], e)) \in 1 .. n
    <2> DEFINE d == [k \in 1 .. n |-> Distance(Values[k], e)]
    <2>1. \A k \in 1 .. n : d[k] \in Int /\ d[k] = Distance(Values[k], e)
      BY <1>1, <1>4, DistanceIs
    <2> HIDE DEF d
    <2>2. PICK k \in 1 .. n : \A o \in 1 .. n : d[k] < d[o] \/ (d[k] = d[o] /\ k <= o)
      BY <1>2, <1>3, <2>1, NearestIs
    <2> QED
      BY <2>1, <2>2 DEF Nearest
  <1>5. ASSUME n + 1 = Len(Values)
        PROVE  Nearest(1 .. n, LAMBDA x : Distance(Values[x] + Values[x + 1], 2 * e)) \in 1 .. n
    <2> DEFINE d == [x \in 1 .. n |-> Distance(Values[x] + Values[x + 1], 2 * e)]
    <2>0. \A x \in 1 .. n : Values[x] + Values[x + 1] \in Int
      BY <1>1, <1>5
    <2>1. \A x \in 1 .. n : d[x] \in Int /\ d[x] = Distance(Values[x] + Values[x + 1], 2 * e)
      <3>1. 2 * e \in Int
        OBVIOUS
      <3> QED
        BY <2>0, <3>1, DistanceIs
    <2> HIDE DEF d
    <2>2. PICK k \in 1 .. n : \A o \in 1 .. n : d[k] < d[o] \/ (d[k] = d[o] /\ k <= o)
      BY <1>2, <1>3, <2>1, NearestIs
    <2> QED
      BY <2>1, <2>2 DEF Nearest
  <1> QED
    BY <1>4, <1>5

-----------------------------------------------------------------------------
(* A call, and its run.                                                     *)

\* A rank is at most one record, of its type.
LEMMA RankRecord ==
  ASSUME game \in Library, NEW m \in DOMAIN game.worth
  PROVE  AtMostOne(Rank(m)) /\ Rank(m) \in SUBSET RankSet /\ \A r \in Rank(m) : AtMostOne(r.guess)
  <1>1. AtMostOne(Rank(m))
    BY RankIs DEF AtMostOne
  <1>2. game.least \in Int /\ game.most \in Int
    BY SumsBetween
  <1>3. ASSUME NEW r \in Rank(m)
        PROVE  r \in RankSet /\ AtMostOne(r.guess)
    <2>1. r = RankAt(ByCounts(m)) /\ RankOf(game, plan.root_non_losing, m, r)
      BY RankIs
    <2>2. \E s, best : r = Ranked(s, best)
      BY <2>1 DEF RankAt
    <2>3. PICK best : r = [order |-> [i \in DOMAIN best |-> best[i].t],
                           guess |-> IF plan.estimate /\ best # <<>> THEN {best[1].guess} ELSE {}]
      BY <2>2 DEF Ranked
    <2>4. r = [order |-> r.order, guess |-> r.guess] /\ r.guess = IF plan.estimate /\ best # <<>> THEN {best[1].guess} ELSE {}
      BY <2>3
    <2>5. r.order \in Seq(Transition) /\ r.guess \in SUBSET Int
      BY <1>2, <2>1 DEF RankOf
    <2>6. r \in RankSet
      BY <2>4, <2>5 DEF RankSet
    <2>7. AtMostOne(r.guess)
      BY <2>4 DEF AtMostOne
    <2> QED
      BY <2>6, <2>7
  <1> QED
    BY <1>1, <1>3

\* A run as it is set out is one to keep.
LEMMA RunAtIs ==
  ASSUME game \in Library, NEW m \in DOMAIN game.worth, NEW ranked \in SUBSET RankSet, AtMostOne(ranked),
         \A r \in ranked : RankOf(game, plan.root_non_losing, m, r) /\ RuleMoves(game, m) # {} /\ AtMostOne(r.guess)
  PROVE  RunKept(game, plan, RunAt(m, ranked)) /\ RunAt(m, ranked).at = m /\ RunAt(m, ranked).ranked = ranked
  <1> DEFINE b == FitsBits(m)
             no == FALSE
             r == RunAt(m, ranked)
  <1>1. no \in BOOLEAN /\ b \in BOOLEAN /\ game.start \in DOMAIN game.worth
    BY GameIs DEF FitsBits
  <1>a. NoRun = [at |-> game.start, ranked |-> {}, bits |-> no, spilled |-> no, mode |-> "range", i |-> 1, j |-> 1, k |-> 1, f |-> {}]
    BY DEF NoRun
  <1>b. r = [NoRun EXCEPT !.at = m, !.ranked = ranked, !.bits = b]
    BY DEF RunAt
  <1>3. b => FitsBits(m)
    OBVIOUS
  <1> HIDE DEF b, r, no
  <1>2. r = [at |-> m, ranked |-> ranked, bits |-> b, spilled |-> no, mode |-> "range", i |-> 1, j |-> 1, k |-> 1, f |-> {}]
    BY <1>a, <1>b
  <1>4. r \in RunSet(game)
    BY <1>1, <1>2 DEF RunSet
  <1>5. r.at = m /\ r.ranked = ranked /\ r.bits = b /\ r.f = {}
    BY <1>2
  <1>6. AtMostOne(r.f)
    BY <1>5 DEF AtMostOne
  <1> QED
    BY <1>3, <1>4, <1>5, <1>6 DEF RunKept, r

\* The empty sequence.
LEMMA EmptyRange == \A S : <<>> \in Seq(S) /\ Range(<<>>) = {}
  BY EmptySeq DEF Range

\* A call as it is asked has neither answer nor value yet.
LEMMA AskedIs ==
  ASSUME game \in Library, plan.budget \in Int, NEW m \in DOMAIN game.worth, NEW kind \in {"value", "choose"}, NEW c,
         c = Asked(kind, ByCounts(m), Rank(m))
  PROVE  /\ c \in CallSet(game) /\ c.kind = kind /\ c.at = m /\ c.left = <<>> /\ c.known = {} /\ c.trying = {}
         /\ c.value = <<>> /\ c.move = {} /\ c.exact /\ c.limit = plan.budget
         /\ Range(c.order) \subseteq RuleMoves(game, m)
         /\ Rank(m) = {} => Range(c.order) = RuleMoves(game, m)
         /\ \A r \in Rank(m) : c.order = r.order
  <1> DEFINE w == ByCounts(m)
             o == IF Rank(m) = {} THEN InOrder(Moves(w)) ELSE (CHOOSE r \in Rank(m) : TRUE).order
  <1>1. w = WalkOf(game, m, FALSE)
    BY DEF ByCounts, WalkOf, RuleMoves
  <1>2. Moves(w) = RuleMoves(game, m) /\ w.mk = m /\ RuleMoves(game, m) \in SUBSET Transition
    <2>1. Moves(WalkOf(game, m, FALSE)) = RuleMoves(game, m)
      BY WalkMoves
    <2>2. w.mk = m /\ RuleMoves(game, m) \in SUBSET Transition
      BY DEF ByCounts, RuleMoves
    <2> HIDE DEF w
    <2> QED
      BY <1>1, <2>1, <2>2
  <1>3. \A r \in Rank(m) : (CHOOSE x \in Rank(m) : TRUE) = r
    BY RankRecord, OneChosen
  <1>4. ASSUME Rank(m) = {}
        PROVE  o \in Seq(Transition) /\ Range(o) = RuleMoves(game, m)
    <2>1. o = InOrder(RuleMoves(game, m))
      BY <1>2, <1>4
    <2>2. o \in Seq(RuleMoves(game, m)) /\ Range(o) = RuleMoves(game, m)
      BY <1>2, <2>1, InOrderIs
    <2> QED
      BY <1>2, <2>2
  <1>5. ASSUME NEW r \in Rank(m)
        PROVE  o = r.order /\ r.order \in Seq(Transition) /\ Range(r.order) \subseteq RuleMoves(game, m)
    <2>1. RankOf(game, plan.root_non_losing, m, r)
      BY RankIs
    <2> QED
      BY <1>3, <2>1 DEF RankOf
  <1>6. c = [kind |-> kind, at |-> w.mk, order |-> o, left |-> <<>>, known |-> {}, trying |-> {},
             value |-> <<>>, total |-> 0, limit |-> plan.budget, move |-> {}, exact |-> TRUE]
    BY DEF Asked, NoCall
  <1> HIDE DEF w, o
  <1>7. o \in Seq(Transition)
    BY <1>4, <1>5
  <1>8. c \in CallSet(game)
    BY <1>2, <1>6, <1>7, EmptyRange DEF CallSet
  <1>9. /\ c.kind = kind /\ c.at = m /\ c.left = <<>> /\ c.known = {} /\ c.trying = {}
        /\ c.value = <<>> /\ c.move = {} /\ c.limit = plan.budget /\ c.order = o
    BY <1>2, <1>6
  <1>10. c.exact
    BY <1>6
  <1> QED
    BY <1>4, <1>5, <1>8, <1>9, <1>10

-----------------------------------------------------------------------------
(* Each action keeps the shape of the search.                               *)

\* Of an empty stack nothing is asked.
LEMMA EmptyStack == \A g, rn : StackKept(g, rn, <<>>)
  <1>1. \A g : <<>> \in Seq(FrameSet(g)) /\ Len(<<>>) = 0
    BY EmptySeq
  <1> QED
    BY <1>1 DEF StackKept

\* A call that is asked keeps the shape.
LEMMA AskShape ==
  ASSUME Shape, NEW kind \in {"value", "choose"}, NEW m \in game.ask, Ask(kind, m)
  PROVE  Shape'
  <1>1. Fixed /\ game' = game /\ plan' = plan /\ table' = table /\ history' = history /\ stack' = stack /\ arg' = arg
        /\ ret' = ret /\ stop' = FALSE /\ stage = "idle"
    BY DEF Ask, Shape
  <1>2. game \in Library /\ m \in DOMAIN game.worth /\ plan.budget \in Int
    BY <1>1, GameIs DEF Fixed
  <1>3. stack = <<>>
    BY <1>1 DEF Shape
  <1> DEFINE c == Asked(kind, ByCounts(m), Rank(m))
             w == ByCounts(m)
  <1>4. \/ kind = "choose" /\ Over(w) /\ call' = c /\ nodes' = 0 /\ run' = run /\ stage' = stage
        \/ /\ kind = "choose" /\ ~ Over(w) /\ c.order = <<>>
           /\ call' = [c EXCEPT !.move = {First(w.en)}, !.value = <<Bound(- Mover(w))>>]
           /\ nodes' = 1 /\ run' = run /\ stage' = stage
        \/ /\ kind = "value" \/ c.order # <<>>
           /\ call' = c /\ run' = RunAt(m, Rank(m)) /\ stage' = "run" /\ nodes' = nodes
    BY DEF Ask
  <1>5. /\ c \in CallSet(game) /\ c.kind = kind /\ c.at = m /\ c.left = <<>> /\ c.known = {} /\ c.trying = {}
        /\ c.value = <<>> /\ c.move = {} /\ c.exact
        /\ Range(c.order) \subseteq RuleMoves(game, m)
    BY <1>2, AskedIs
  <1>6. w.en = RuleMoves(game, m) /\ (Over(w) <=> RuleMoves(game, m) = {}) /\ Mover(w) = MoverAt(game, m)
    <2>1. w = WalkOf(game, m, FALSE)
      BY DEF ByCounts, WalkOf, RuleMoves
    <2> QED
      BY <1>2, <2>1, WalkMoves DEF WalkOf
  <1>7. RuleMoves(game, m) # {} => First(w.en) \in RuleMoves(game, m) /\ First(w.en) \in Transition /\ Bound(- Mover(w)) \in Int
    BY <1>2, <1>6, WalkIs, FirstOf, BoundIs DEF Bound
  <1> HIDE DEF c, w
  <1>k. Counted'
    <2>1. nodes' \in Int
      BY <1>4 DEF Shape, Counted
    <2>2. stop' \in BOOLEAN
      BY <1>1
    <2>3. stage' \in {"idle", "run"}
      BY <1>1, <1>4
    <2> QED
      BY <1>1, <2>1, <2>2, <2>3 DEF Shape, Counted
  <1>8. Range(c.left) = {}
    BY <1>5, EmptyRange
  <1>9. CASE call' = c /\ run' = run /\ stage' = "idle" /\ Over(w) /\ kind = "choose" /\ nodes' = 0
    <2>1. CallKept(game, plan, "idle", run, c, ret, 0, FALSE)
      BY <1>5, <1>6, <1>8, <1>9 DEF CallKept, Searching
    <2>2. CallKept(game', plan', stage', run', call', ret', nodes', stop')
      BY <1>1, <1>9, <2>1
    <2> QED
      BY <1>1, <1>3, <1>9, <1>k, <2>2 DEF Shape, Fixed, Searching
  <1>10. CASE /\ call' = [c EXCEPT !.move = {First(w.en)}, !.value = <<Bound(- Mover(w))>>]
              /\ run' = run /\ stage' = "idle" /\ ~ Over(w) /\ kind = "choose" /\ nodes' = 1
    <2> DEFINE d == [c EXCEPT !.move = {First(w.en)}, !.value = <<Bound(- Mover(w))>>]
    <2>0. <<Bound(- Mover(w))>> \in Seq(Int) /\ <<Bound(- Mover(w))>> # <<>>
      BY <1>6, <1>7, <1>10
    <2>1. d \in CallSet(game) /\ d.kind = kind /\ d.at = m /\ d.left = c.left /\ d.known = {} /\ d.trying = {}
          /\ d.order = c.order /\ d.value # <<>> /\ d.move = {First(w.en)} /\ d.exact
      BY <1>5, <1>6, <1>7, <1>10, <2>0 DEF CallSet
    <2> HIDE DEF d
    <2>2. CallKept(game, plan, "idle", run, d, ret, 1, FALSE)
      BY <1>5, <1>6, <1>7, <1>8, <1>10, <2>1 DEF CallKept, Searching
    <2>3. CallKept(game', plan', stage', run', call', ret', nodes', stop')
      BY <1>1, <1>10, <2>2 DEF d
    <2> QED
      BY <1>1, <1>3, <1>10, <1>k, <2>3 DEF Shape, Fixed, Searching
  <1>11. CASE call' = c /\ run' = RunAt(m, Rank(m)) /\ stage' = "run" /\ nodes' = nodes /\ (kind = "value" \/ c.order # <<>>)
    <2>1. RunKept(game, plan, run') /\ run'.at = m
      BY <1>2, <1>11, RankIs, RankRecord, RunAtIs
    <2>2. CallKept(game, plan, "run", run', c, ret, nodes, FALSE)
      BY <1>5, <1>8, <1>11, <2>1 DEF CallKept, Searching
    <2>3. CallKept(game', plan', stage', run', call', ret', nodes', stop')
      BY <1>1, <1>11, <2>2
    <2> QED
      BY <1>1, <1>3, <1>11, <1>k, <2>1, <2>3, EmptyStack DEF Shape, Fixed, Searching
  <1> QED
    BY <1>1, <1>4, <1>9, <1>10, <1>11

\* The guess a run starts from.
GuessOf(g, pl, rn) == UNION {r.guess : r \in {q \in rn.ranked : pl.aspiration}}

\* There is at most one guess to start from, between the bounds.
LEMMA GuessIs ==
  ASSUME game \in Library, NEW rn, RunKept(game, plan, rn)
  PROVE  /\ AtMostOne(GuessOf(game, plan, rn)) /\ GuessOf(game, plan, rn) \subseteq game.least .. game.most
         /\ GuessOf(game, plan, rn) \in SUBSET Int
  <1>1. \A r \in rn.ranked : AtMostOne(r.guess) /\ r.guess \subseteq game.least .. game.most
    BY DEF RunKept, RankOf
  <1>2. AtMostOne(rn.ranked)
    BY DEF RunKept
  <1>3. game.least \in Int /\ game.most \in Int
    BY SumsBetween
  <1>4. \A x \in GuessOf(game, plan, rn) : \E r \in rn.ranked : x \in r.guess
    BY DEF GuessOf
  <1>5. AtMostOne(GuessOf(game, plan, rn))
    BY <1>1, <1>2, <1>4 DEF AtMostOne
  <1> QED
    BY <1>1, <1>3, <1>4, <1>5

\* A run changed in what its search is about.
LEMMA RunAgain ==
  ASSUME NEW g, NEW pl, NEW rn, RunKept(g, pl, rn), NEW x \in RunSet(g), x.at = rn.at, x.ranked = rn.ranked, x.bits = rn.bits,
         AtMostOne(x.f)
  PROVE  RunKept(g, pl, x)
  BY DEF RunKept

\* The values mtd_f starts between, by what the table holds.
RaisedTo(held) == Min({Len(Values), Max({1} \cup {From(e.lo) : e \in held})})
CutTo(held) == Max({1, Min({Len(Values)} \cup {UpTo(e.hi) : e \in held})})

\* The values mtd_f starts between, by the entry held, exclude none that its bounds
\* allow.
LEMMA Between ==
  ASSUME game \in Library, TableKept(game, table), Len(Values) # 0, NEW held, NEW k, held = {} \/ held = Held(k)
  PROVE  /\ RaisedTo(held) \in 1 .. Len(Values) /\ CutTo(held) \in 1 .. Len(Values)
         /\ \A q \in 1 .. Len(Values) :
              /\ (\A e \in held : e.lo <= Values[q]) => RaisedTo(held) <= q
              /\ (\A e \in held : Values[q] <= e.hi) => q <= CutTo(held)
  <1> DEFINE n == Len(Values)
             lo == [e \in held |-> From(e.lo)]
             hi == [e \in held |-> UpTo(e.hi)]
             L == Max({1} \cup {lo[e] : e \in held})
             H == Min({n} \cup {hi[e] : e \in held})
  <1>0. n \in Nat /\ n # 0
    BY ValuesIs DEF Values
  <1>p. \A x \in Int : UpTo(x) \in Int /\ UpTo(x) <= n /\ From(x) \in Int /\ 1 <= From(x)
    <2> HIDE DEF n
    <2>1. \A x \in Int : UpTo(x) \in 0 .. n /\ From(x) \in 1 .. n + 1
      BY PlacesAre DEF n
    <2> QED
      BY <1>0, <2>1
  <1>1. AtMostOne(held) /\ \A e \in held : e.lo \in Int /\ e.hi \in Int
    BY HeldIs DEF AtMostOne
  <1>2. \A e \in held : lo[e] \in Int /\ lo[e] = From(e.lo) /\ 1 <= lo[e]
    BY <1>1, <1>p
  <1>3. \A e \in held : hi[e] \in Int /\ hi[e] = UpTo(e.hi) /\ hi[e] <= n
    BY <1>1, <1>p
  <1>4. RaisedTo(held) = Min({n, L}) /\ CutTo(held) = Max({1, H})
    <2>1. {From(e.lo) : e \in held} = {lo[e] : e \in held} /\ {UpTo(e.hi) : e \in held} = {hi[e] : e \in held}
      OBVIOUS
    <2> HIDE DEF lo, hi, n
    <2> QED
      BY <2>1 DEF RaisedTo, CutTo, n
  <1> HIDE DEF lo, hi, n
  <1>5. Narrows(held, lo, 1) /\ Narrows(held, hi, n)
    <2>1. Narrows(held, lo, 1)
      BY <1>1, <1>2, WithOne
    <2>2. Narrows(held, hi, n)
      BY <1>0, <1>1, <1>3, WithOne
    <2> QED
      BY <2>1, <2>2
  <1>6. L \in Int /\ 1 <= L /\ (L = 1 \/ \E e \in held : L = lo[e])
    BY <1>5 DEF Narrows
  <1>7. H \in Int /\ H <= n /\ (H = n \/ \E e \in held : H = hi[e])
    BY <1>5 DEF Narrows
  <1> HIDE DEF L, H
  <1>8. RaisedTo(held) = (IF n <= L THEN n ELSE L) /\ CutTo(held) = (IF 1 <= H THEN H ELSE 1)
    BY <1>0, <1>4, <1>6, <1>7, MinTwo, MaxTwo
  <1>9. RaisedTo(held) \in 1 .. n /\ CutTo(held) \in 1 .. n
    BY <1>0, <1>6, <1>7, <1>8
  <1>10. ASSUME NEW q \in 1 .. n, \A e \in held : e.lo <= Values[q]
         PROVE  RaisedTo(held) <= q
    <2>1. \A e \in held : From(e.lo) <= q
      <3> TAKE e \in held
      <3>1. e.lo \in Int /\ e.lo <= Values[q] /\ Values[q] \in Int
        BY <1>1, <1>10, ValuesIs DEF n, Values
      <3>2. Values[q] < e.lo <=> q < From(e.lo)
        BY <3>1, PlacesAre DEF n
      <3>3. ~ (q < From(e.lo))
        BY <3>1, <3>2
      <3>4. q \in Int
        BY <1>0
      <3>5. e.lo \in Int
        BY <3>1
      <3>6. From(e.lo) \in Int
        BY <1>p, <3>5
      <3> QED
        BY <3>3, <3>4, <3>6
    <2>2. L <= q
      BY <1>2, <1>6, <2>1
    <2> QED
      BY <1>0, <1>6, <1>8, <2>2
  <1>11. ASSUME NEW q \in 1 .. n, \A e \in held : Values[q] <= e.hi
         PROVE  q <= CutTo(held)
    <2>1. \A e \in held : q <= UpTo(e.hi)
      <3> TAKE e \in held
      <3>1. e.hi \in Int /\ Values[q] <= e.hi
        BY <1>1, <1>11
      <3> QED
        BY <3>1, PlacesAre DEF n
    <2>2. q <= H
      BY <1>0, <1>3, <1>7, <2>1
    <2> QED
      BY <1>0, <1>7, <1>8, <2>2
  <1> QED
    BY <1>9, <1>10, <1>11 DEF n

\* What a run begins with: a search over all values or around a guess, over one
\* gap, or none.
BeginsWhole ==
  /\ stage' = "test" /\ ret' = ret
  /\ run' = [run EXCEPT !.mode = IF GuessOf(game, plan, run) = {} THEN "range" ELSE "aspire", !.f = GuessOf(game, plan, run)]
BeginsBetween(held) ==
  /\ stage' = "test" /\ ret' = ret /\ Len(Values) >= 3
  /\ held = {} \/ held = Held(KeyOf(WalkOf(game, run.at, run.bits)))
  /\ \E f \in SUBSET (1 .. Len(Values)) :
       AtMostOne(f) /\ run' = [run EXCEPT !.mode = "mtd_f", !.i = RaisedTo(held), !.j = CutTo(held), !.f = f]
BeginsSteps ==
  /\ stage' = "test" /\ ret' = ret /\ Len(Values) >= 3
  /\ \E k \in 1 .. Len(Values) - 1 : run' = [run EXCEPT !.mode = "steps", !.i = 1, !.j = Len(Values), !.k = k]

\* What the shape says of the run.
LEMMA RunIs ==
  ASSUME Shape
  PROVE  /\ game \in Library /\ run \in RunSet(game) /\ run.at \in DOMAIN game.worth /\ run.bits \in BOOLEAN
         /\ (run.bits => FitsBits(run.at)) /\ RunKept(game, plan, run) /\ TableKept(game, table)
         /\ WalkOf(game, run.at, run.bits) \in FaithfulWalks(game)
         /\ (IF run.bits THEN ByBits(run.at) ELSE ByCounts(run.at)) = WalkOf(game, run.at, run.bits)
  <1>1. game \in Library /\ run \in RunSet(game) /\ (run.bits => FitsBits(run.at)) /\ RunKept(game, plan, run) /\ TableKept(game, table)
    BY DEF Shape, Fixed, RunKept
  <1>2. run.at \in DOMAIN game.worth /\ run.bits \in BOOLEAN
    BY <1>1 DEF RunSet
  <1> QED
    BY <1>1, <1>2, ByIs, FaithfulIs

\* What Begin does: answer at once, or set out for one of the four ways to test.
LEMMA BeginIs ==
  ASSUME Shape, Begin
  PROVE  /\ game' = game /\ plan' = plan /\ table' = table /\ history' = history /\ call' = call /\ stack' = stack
         /\ arg' = arg /\ stop' = stop /\ stage = "run" /\ stack = <<>> /\ nodes' \in Int
         /\ \/ /\ \E r \in run.ranked : r.order = <<>>
               /\ ret' = <<Bound(- MoverAt(game, run.at))>> /\ stage' = "done" /\ run' = run
            \/ /\ RuleMoves(game, run.at) = {}
               /\ ret' = <<RewardAt(game, run.at)>> /\ stage' = "done" /\ run' = run
            \/ /\ \A r \in run.ranked : r.order # <<>>
               /\ BeginsWhole \/ BeginsSteps \/ \E held : BeginsBetween(held)
  <1> DEFINE w == IF run.bits THEN ByBits(run.at) ELSE ByCounts(run.at)
             guess == GuessOf(game, plan, run)
             n == Len(Values)
             mid(k) == Values[k] + Values[k + 1]
             hopeless == \E r \in run.ranked : r.order = <<>>
             held == IF plan.mtd_f THEN Held(KeyOf(w)) ELSE {}
             near(e) == Nearest(1 .. n, LAMBDA k : Distance(Values[k], e))
             gap(e) == Nearest(1 .. n - 1, LAMBDA x : Distance(mid(x), 2 * e))
             i == Min({n, Max({1} \cup {From(e.lo) : e \in held})})
             j == Max({1, Min({n} \cup {UpTo(e.hi) : e \in held})})
             at(e) == Max({i, Min({Max({i, j}), near(e)})})
             f == {at(e) : e \in guess}
             gaps == IF guess = {} THEN {IF Mover(w) > 0 THEN 1 ELSE n - 1} ELSE {gap(e) : e \in guess}
  <1>w. w = WalkOf(game, run.at, run.bits)
    BY RunIs
  <1>3. game \in Library /\ RunKept(game, plan, run) /\ TableKept(game, table) /\ run.at \in DOMAIN game.worth
    BY RunIs
  <1>4. Mover(w) = MoverAt(game, run.at) /\ (Over(w) <=> RuleMoves(game, run.at) = {}) /\ Score(w) = RewardAt(game, run.at)
    BY <1>3, <1>w, WalkMoves
  <1>1. /\ game' = game /\ plan' = plan /\ table' = table /\ history' = history /\ call' = call /\ stack' = stack
        /\ arg' = arg /\ stop' = stop /\ stage = "run"
    BY DEF Begin
  <1>m. nodes' \in Int
    <2>1. nodes' = IF hopeless THEN 1 ELSE 0
      BY DEF Begin
    <2> HIDE DEF hopeless
    <2> QED
      BY <2>1
  <1>2. stack = <<>>
    BY <1>1 DEF Shape
  <1>5. n \in Nat
    BY <1>3, ValuesIs DEF Values
  <1>6. AtMostOne(guess) /\ guess \in SUBSET Int
    BY <1>3, GuessIs
  <1>7. IF hopeless
        THEN ret' = <<Bound(- Mover(w))>> /\ stage' = "done" /\ run' = run
        ELSE IF n < 3 \/ ~ (plan.null_window \/ plan.mtd_f)
        THEN run' = [run EXCEPT !.mode = IF guess = {} THEN "range" ELSE "aspire", !.f = guess] /\ stage' = "test" /\ ret' = ret
        ELSE IF Over(w)
        THEN ret' = <<Score(w)>> /\ stage' = "done" /\ run' = run
        ELSE IF plan.mtd_f
        THEN /\ run' = [run EXCEPT !.mode = "mtd_f", !.i = i, !.j = j, !.f = f]
             /\ stage' = "test" /\ ret' = ret
        ELSE /\ \E k \in gaps :
                  run' = [run EXCEPT !.mode = "steps", !.i = 1, !.j = n, !.k = k]
             /\ stage' = "test" /\ ret' = ret
    BY DEF Begin, GuessOf
  <1>i. i = RaisedTo(held) /\ j = CutTo(held)
    BY DEF RaisedTo, CutTo
  <1>n. n = Len(Values)
    OBVIOUS
  <1>g. hopeless <=> \E r \in run.ranked : r.order = <<>>
    OBVIOUS
  <1>h. held = IF plan.mtd_f THEN Held(KeyOf(w)) ELSE {}
    OBVIOUS
  <1>k. gaps = IF guess = {} THEN {IF Mover(w) > 0 THEN 1 ELSE n - 1} ELSE {gap(e) : e \in guess}
    OBVIOUS
  <1> HIDE DEF w, n, guess, hopeless, held, near, gap, i, j, f, gaps
  <1>8. n >= 3 => \A e \in guess : near(e) \in 1 .. n
    <2> HAVE n >= 3
    <2> TAKE e \in guess
    <2>1. n # 0 /\ e \in Int
      BY <1>5, <1>6
    <2> QED
      BY <1>3, <1>5, <1>n, <2>1, NearestPlace DEF near
  <1>9. n >= 3 => \A e \in guess : gap(e) \in 1 .. n - 1
    <2> HAVE n >= 3
    <2> TAKE e \in guess
    <2>1. n - 1 \in Nat /\ n - 1 # 0 /\ (n - 1) + 1 = Len(Values) /\ e \in Int
      BY <1>5, <1>6, <1>n
    <2> QED
      BY <1>3, <2>1, NearestPlace DEF gap
  <1>10. n >= 3 => RaisedTo(held) \in 1 .. n /\ CutTo(held) \in 1 .. n
    <2>1. held = {} \/ held = Held(KeyOf(w))
      BY <1>h
    <2> QED
      BY <1>3, <1>5, <1>n, <2>1, Between
  <1>11. n >= 3 => f \in SUBSET (1 .. n) /\ AtMostOne(f)
    <2> HAVE n >= 3
    <2>1. \A e \in guess : near(e) \in 1 .. n
      BY <1>8
    <2>2. i \in 1 .. n /\ j \in 1 .. n
      BY <1>10, <1>i
    <2>3. \A e \in guess : at(e) \in 1 .. n
      <3> TAKE e \in guess
      <3>1. near(e) \in 1 .. n
        BY <2>1
      <3> DEFINE a == Max({i, j})
                 b == Min({a, near(e)})
      <3>2. a \in 1 .. n
        BY <1>5, <2>2, MaxTwo
      <3> HIDE DEF a
      <3>3. b \in 1 .. n
        BY <1>5, <3>1, <3>2, MinTwo
      <3>4. at(e) = Max({i, b})
        BY DEF a
      <3> HIDE DEF b, at
      <3> QED
        BY <1>5, <2>2, <3>3, <3>4, MaxTwo
    <2>4. AtMostOne(f)
      BY <1>6 DEF AtMostOne, f
    <2> QED
      BY <2>3, <2>4 DEF f
  <1>12. CASE hopeless
    BY <1>1, <1>2, <1>4, <1>7, <1>g, <1>m, <1>12
  <1>13. CASE ~ hopeless /\ (n < 3 \/ ~ (plan.null_window \/ plan.mtd_f))
    <2>1. BeginsWhole
      BY <1>7, <1>13 DEF BeginsWhole, guess
    <2> QED
      BY <1>1, <1>m, <1>2, <1>g, <1>13, <2>1
  <1>14. CASE ~ hopeless /\ ~ (n < 3 \/ ~ (plan.null_window \/ plan.mtd_f)) /\ Over(w)
    BY <1>1, <1>m, <1>2, <1>4, <1>7, <1>14 DEF hopeless
  <1>15. CASE ~ hopeless /\ ~ (n < 3 \/ ~ (plan.null_window \/ plan.mtd_f)) /\ ~ Over(w) /\ plan.mtd_f
    <2>1. run' = [run EXCEPT !.mode = "mtd_f", !.i = i, !.j = j, !.f = f] /\ stage' = "test" /\ ret' = ret
      BY <1>7, <1>15
    <2>2. held = Held(KeyOf(w)) /\ n >= 3
      BY <1>5, <1>h, <1>15
    <2>3. f \in SUBSET (1 .. n) /\ AtMostOne(f)
      BY <1>11, <2>2
    <2>4. BeginsBetween(held)
      BY <1>i, <1>n, <1>w, <2>1, <2>2, <2>3 DEF BeginsBetween
    <2> QED
      BY <1>1, <1>m, <1>2, <1>g, <1>15, <2>4
  <1>16. CASE ~ hopeless /\ ~ (n < 3 \/ ~ (plan.null_window \/ plan.mtd_f)) /\ ~ Over(w) /\ ~ plan.mtd_f
    <2>1. PICK k \in gaps :
                  run' = [run EXCEPT !.mode = "steps", !.i = 1, !.j = n, !.k = k]
      BY <1>7, <1>16
    <2>2. stage' = "test" /\ ret' = ret
      BY <1>7, <1>16
    <2>n. n >= 3
      BY <1>5, <1>16
    <2>3. k \in 1 .. n - 1
      BY <1>5, <1>9, <1>k, <2>1, <2>n
    <2>4. BeginsSteps
      BY <1>n, <2>1, <2>2, <2>n, <2>3 DEF BeginsSteps
    <2> QED
      BY <1>1, <1>m, <1>2, <1>g, <1>16, <2>4
  <1> QED
    BY <1>12, <1>13, <1>14, <1>15, <1>16

\* A run changed to steps, or from one gap to another.
StepsTo(rn, x, i, j, k) ==
  x = [rn EXCEPT !.mode = "steps", !.i = i, !.j = j, !.k = k] \/ (rn.mode = "steps" /\ x = [rn EXCEPT !.i = i, !.j = j, !.k = k])

\* A run set to steps is a run, about the same position.
LEMMA StepsAre ==
  ASSUME NEW g, NEW rn \in RunSet(g), NEW i \in Int, NEW j \in Int, NEW k \in Int, NEW x, StepsTo(rn, x, i, j, k)
  PROVE  /\ x \in RunSet(g) /\ x.at = rn.at /\ x.ranked = rn.ranked /\ x.bits = rn.bits /\ x.f = rn.f
         /\ x.mode = "steps" /\ x.i = i /\ x.j = j /\ x.k = k
  <1>1. x \in RunSet(g)
    BY DEF RunSet, StepsTo
  <1>2. x.at = rn.at /\ x.ranked = rn.ranked /\ x.bits = rn.bits /\ x.f = rn.f
    BY DEF RunSet, StepsTo
  <1>3. x.mode = "steps" /\ x.i = i /\ x.j = j /\ x.k = k
    BY DEF RunSet, StepsTo
  <1> QED
    BY <1>1, <1>2, <1>3

\* Beginning a run keeps the shape.
LEMMA BeginShape ==
  ASSUME Shape, Begin
  PROVE  Shape'
  <1>1. /\ game' = game /\ plan' = plan /\ table' = table /\ history' = history /\ call' = call /\ stack' = stack
        /\ arg' = arg /\ stop' = stop /\ stage = "run" /\ stack = <<>> /\ nodes' \in Int
    BY BeginIs
  <1>2. game \in Library /\ run \in RunSet(game) /\ run.at \in DOMAIN game.worth /\ RunKept(game, plan, run)
    BY RunIs
  <1>3. Fixed /\ CallKept(game, plan, "run", run, call, ret, nodes, stop)
    BY <1>1 DEF Shape
  <1>4. ASSUME NEW rn, RunKept(game, plan, rn), rn.at = run.at, run' = rn, stage' = "test", ret' = ret, IndexKept(game, "test", rn)
        PROVE  Shape'
    <2>1. CallKept(game, plan, "test", rn, call, ret, nodes', stop)
      BY <1>3, <1>4 DEF CallKept, Searching
    <2>2. Counted'
      BY <1>1, <1>4 DEF Shape, Counted, Searching
    <2>3. CallKept(game', plan', stage', run', call', ret', nodes', stop')
      BY <1>1, <1>4, <2>1
    <2> QED
      BY <1>1, <1>3, <1>4, <2>2, <2>3, EmptyStack DEF Shape, Fixed, Searching
  <1>5. ASSUME NEW v \in Int, ret' = <<v>>, stage' = "done", run' = run
        PROVE  Shape'
    <2>1. <<v>> # <<>> /\ <<v>> \in Seq(Int)
      OBVIOUS
    <2> DEFINE x == <<v>>
    <2> HIDE DEF x
    <2>2. CallKept(game, plan, "done", run, call, x, nodes', stop)
      BY <1>3, <2>1 DEF CallKept, Searching, x
    <2>3. Counted'
      <3>1. ret' \in Seq(Int) /\ stage' = "done"
        BY <1>5
      <3> QED
        BY <1>1, <3>1 DEF Shape, Counted
    <2>4. CallKept(game', plan', stage', run', call', ret', nodes', stop')
      BY <1>1, <1>5, <2>2 DEF x
    <2> QED
      BY <1>1, <1>3, <1>5, <2>3, <2>4, EmptyStack DEF Shape, Fixed, Searching
  <1>6. CASE ret' = <<Bound(- MoverAt(game, run.at))>> /\ stage' = "done" /\ run' = run
    <2>1. Bound(- MoverAt(game, run.at)) \in Int
      BY <1>2, BoundIs DEF Bound
    <2> QED
      BY <1>5, <1>6, <2>1
  <1>7. CASE RuleMoves(game, run.at) = {} /\ ret' = <<RewardAt(game, run.at)>> /\ stage' = "done" /\ run' = run
    <2>1. RewardAt(game, run.at) \in Int
      BY <1>2, <1>7, BestMove, WorthBetween
    <2> QED
      BY <1>5, <1>7, <2>1
  <1>8. ASSUME \A r \in run.ranked : r.order # <<>>, BeginsWhole
        PROVE  Shape'
    <2> DEFINE f == GuessOf(game, plan, run)
               rn == [run EXCEPT !.mode = IF f = {} THEN "range" ELSE "aspire", !.f = f]
    <2>1. AtMostOne(f) /\ f \in SUBSET Int /\ f \subseteq game.least .. game.most
      BY <1>2, GuessIs
    <2>2. run' = rn /\ stage' = "test" /\ ret' = ret
      BY <1>8 DEF BeginsWhole
    <2> HIDE DEF f
    <2>3. rn \in RunSet(game) /\ rn.at = run.at /\ rn.ranked = run.ranked /\ rn.bits = run.bits /\ rn.f = f
          /\ rn.mode = IF f = {} THEN "range" ELSE "aspire"
      BY <1>2, <2>1 DEF RunSet
    <2> HIDE DEF rn
    <2>4. RunKept(game, plan, rn)
      BY <1>2, <2>1, <2>3, RunAgain
    <2>5. IndexKept(game, "test", rn)
      BY <1>8, <2>1, <2>3 DEF IndexKept
    <2> QED
      BY <1>4, <2>2, <2>3, <2>4, <2>5
  <1>9. ASSUME \A r \in run.ranked : r.order # <<>>, BeginsSteps
        PROVE  Shape'
    <2>1. PICK k \in 1 .. Len(Values) - 1 : run' = [run EXCEPT !.mode = "steps", !.i = 1, !.j = Len(Values), !.k = k]
      BY <1>9 DEF BeginsSteps
    <2> DEFINE n == Len(Values)
               rn == [run EXCEPT !.mode = "steps", !.i = 1, !.j = n, !.k = k]
    <2>2. run' = rn /\ stage' = "test" /\ ret' = ret
      BY <1>9, <2>1 DEF BeginsSteps
    <2>3. n \in Nat /\ n = Len(game.values)
      BY <1>2, ValuesIs DEF Values
    <2> HIDE DEF n
    <2>k. k \in Int /\ 1 <= k /\ k < n
      BY <2>3 DEF n
    <2> DEFINE one == 1
    <2>r. StepsTo(run, rn, one, n, k) /\ one \in Int /\ n \in Int /\ one = 1 /\ k \in Int
      BY <2>3, <2>k DEF StepsTo
    <2> HIDE DEF rn, one
    <2>4. rn \in RunSet(game) /\ rn.at = run.at /\ rn.ranked = run.ranked /\ rn.bits = run.bits /\ rn.f = run.f
          /\ rn.mode = "steps" /\ rn.i = 1 /\ rn.j = n /\ rn.k = k
      BY <1>2, <2>r, StepsAre
    <2>5. RunKept(game, plan, rn)
      BY <1>2, <2>4 DEF RunKept
    <2>6. IndexKept(game, "test", rn)
      BY <1>9, <2>3, <2>k, <2>4 DEF IndexKept
    <2> QED
      BY <1>4, <2>2, <2>4, <2>5, <2>6
  <1>10. ASSUME \A r \in run.ranked : r.order # <<>>, NEW held, BeginsBetween(held)
         PROVE  Shape'
    <2> DEFINE n == Len(Values)
    <2>1. PICK f \in SUBSET (1 .. n) : AtMostOne(f) /\ run' = [run EXCEPT !.mode = "mtd_f", !.i = RaisedTo(held), !.j = CutTo(held), !.f = f]
      BY <1>10 DEF BeginsBetween
    <2> DEFINE rn == [run EXCEPT !.mode = "mtd_f", !.i = RaisedTo(held), !.j = CutTo(held), !.f = f]
    <2>2. run' = rn /\ stage' = "test" /\ ret' = ret
      BY <1>10, <2>1 DEF BeginsBetween
    <2>3. n \in Nat /\ n = Len(game.values)
      BY <1>2, ValuesIs DEF Values
    <2>4. n # 0
      BY <1>10, <2>3 DEF BeginsBetween
    <2>5. RaisedTo(held) \in 1 .. n /\ CutTo(held) \in 1 .. n
      <3>1. held = {} \/ held = Held(KeyOf(WalkOf(game, run.at, run.bits)))
        BY <1>10 DEF BeginsBetween
      <3>2. TableKept(game, table)
        BY DEF Shape
      <3> QED
        BY <1>2, <2>4, <3>1, <3>2, Between
    <2> HIDE DEF n
    <2>6. RaisedTo(held) \in Int /\ CutTo(held) \in Int /\ f \in SUBSET Int
      BY <2>3, <2>5
    <2>7. rn \in RunSet(game) /\ rn.at = run.at /\ rn.ranked = run.ranked /\ rn.bits = run.bits /\ rn.f = f
          /\ rn.mode = "mtd_f" /\ rn.i = RaisedTo(held) /\ rn.j = CutTo(held)
      BY <1>2, <2>6 DEF RunSet
    <2> HIDE DEF rn
    <2>8. RunKept(game, plan, rn)
      BY <1>2, <2>1, <2>7, RunAgain
    <2>9. IndexKept(game, "test", rn)
      BY <1>10, <2>3, <2>5, <2>7 DEF IndexKept
    <2> QED
      BY <1>4, <2>2, <2>7, <2>8, <2>9
  <1> QED
    BY <1>6, <1>7, <1>8, <1>9, <1>10, BeginIs

\* With no frame on the stack, what is asked is the position of the run in its window.
LEMMA PendingFirst ==
  ASSUME NEW g, NEW rn
  PROVE  Pending(g, rn, <<>>) = [w |-> WalkOf(g, rn.at, rn.bits), a |-> WindowOf(g, rn)[1], b |-> WindowOf(g, rn)[2]]
  <1>1. Len(<<>>) + 1 = 1
    BY EmptySeq
  <1> QED
    BY <1>1 DEF Pending, AskedAt

\* What Test does: end, or enter a search of the run's position.
LEMMA TestIs ==
  ASSUME Shape, Test
  PROVE  /\ game' = game /\ plan' = plan /\ table' = table /\ history' = history /\ call' = call /\ stack' = stack
         /\ nodes' = nodes /\ stop' = stop /\ stage = "test" /\ stack = <<>>
         /\ \/ /\ run.mode = "mtd_f" /\ run.i >= run.j
               /\ ret' = <<Values[run.i]>> /\ stage' = "done" /\ run' = run
            \/ /\ run.mode = "mtd_f" => run.i < run.j
               /\ arg' = [w |-> WalkOf(game, run.at, run.bits), a |-> WindowOf(game, run)[1], b |-> WindowOf(game, run)[2], root |-> TRUE]
               /\ run' = IF run.mode = "mtd_f" THEN [run EXCEPT !.k = TestGap(run.i, run.j, run.f)] ELSE run
               /\ stage' = "search" /\ ret' = ret
  <1>1. /\ game' = game /\ plan' = plan /\ table' = table /\ history' = history /\ call' = call /\ stack' = stack
        /\ nodes' = nodes /\ stop' = stop /\ stage = "test"
    BY DEF Test
  <1>2. stack = <<>>
    BY <1>1 DEF Shape
  <1> DEFINE w == IF run.bits THEN ByBits(run.at) ELSE ByCounts(run.at)
  <1>3. w = WalkOf(game, run.at, run.bits) /\ run \in RunSet(game)
    BY RunIs
  <1>4. Window = WindowOf(game, run)
    BY DEF Window, WindowOf, Least, Most, Values
  <1>5. IF run.mode = "mtd_f" /\ run.i >= run.j
        THEN ret' = <<Values[run.i]>> /\ stage' = "done" /\ run' = run
        ELSE /\ arg' = [w |-> w, a |-> Window[1], b |-> Window[2], root |-> TRUE]
             /\ run' = IF run.mode = "mtd_f" THEN [run EXCEPT !.k = TestGap(run.i, run.j, run.f)] ELSE run
             /\ stage' = "search" /\ ret' = ret
    BY DEF Test
  <1> HIDE DEF w
  <1>6. run.i \in Int /\ run.j \in Int
    BY <1>3 DEF RunSet
  <1>7. CASE run.mode = "mtd_f" /\ run.i >= run.j
    BY <1>1, <1>2, <1>5, <1>7
  <1>8. CASE ~ (run.mode = "mtd_f" /\ run.i >= run.j)
    <2>1. run.mode = "mtd_f" => run.i < run.j
      BY <1>6, <1>8
    <2> DEFINE yes == TRUE
    <2>2. arg' = [w |-> w, a |-> Window[1], b |-> Window[2], root |-> yes]
          /\ run' = (IF run.mode = "mtd_f" THEN [run EXCEPT !.k = TestGap(run.i, run.j, run.f)] ELSE run)
          /\ stage' = "search" /\ ret' = ret
      BY <1>5, <1>8
    <2> HIDE DEF yes
    <2>3. arg' = [w |-> WalkOf(game, run.at, run.bits), a |-> WindowOf(game, run)[1], b |-> WindowOf(game, run)[2], root |-> yes]
      BY <1>3, <1>4, <2>2
    <2> QED
      BY <1>1, <1>2, <2>1, <2>2, <2>3 DEF yes
  <1> QED
    BY <1>7, <1>8

\* Testing keeps the shape.
LEMMA TestShape ==
  ASSUME Shape, Test
  PROVE  Shape'
  <1>1. /\ game' = game /\ plan' = plan /\ table' = table /\ history' = history /\ call' = call /\ stack' = stack
        /\ nodes' = nodes /\ stop' = stop /\ stage = "test" /\ stack = <<>>
    BY TestIs
  <1>2. game \in Library /\ run \in RunSet(game) /\ run.at \in DOMAIN game.worth /\ RunKept(game, plan, run)
        /\ WalkOf(game, run.at, run.bits) \in FaithfulWalks(game)
    BY RunIs
  <1>3. Fixed /\ CallKept(game, plan, "test", run, call, ret, nodes, stop) /\ IndexKept(game, "test", run) /\ TableKept(game, table)
    BY <1>1 DEF Shape, Searching
  <1>4. CASE run.mode = "mtd_f" /\ run.i >= run.j /\ ret' = <<Values[run.i]>> /\ stage' = "done" /\ run' = run
    <2> DEFINE x == <<Values[run.i]>>
    <2>1. Values[run.i] \in Int
      BY <1>2, <1>3, <1>4, ValuesIs DEF IndexKept, Values
    <2>2. x \in Seq(Int) /\ x # <<>>
      BY <2>1
    <2>3. ret' = x
      BY <1>4
    <2> HIDE DEF x
    <2>4. CallKept(game, plan, "done", run, call, x, nodes, stop)
      BY <1>3, <2>2 DEF CallKept, Searching
    <2>5. CallKept(game', plan', stage', run', call', ret', nodes', stop')
      BY <1>1, <1>4, <2>3, <2>4
    <2>6. Counted'
      BY <1>1, <1>4, <2>2, <2>3 DEF Shape, Counted
    <2> QED
      BY <1>1, <1>2, <1>3, <1>4, <2>5, <2>6, EmptyStack DEF Shape, Fixed, Searching
  <1>5. CASE /\ run.mode = "mtd_f" => run.i < run.j
             /\ arg' = [w |-> WalkOf(game, run.at, run.bits), a |-> WindowOf(game, run)[1], b |-> WindowOf(game, run)[2], root |-> TRUE]
             /\ run' = IF run.mode = "mtd_f" THEN [run EXCEPT !.k = TestGap(run.i, run.j, run.f)] ELSE run
             /\ stage' = "search" /\ ret' = ret
    <2> DEFINE k == TestGap(run.i, run.j, run.f)
               rn == IF run.mode = "mtd_f" THEN [run EXCEPT !.k = k] ELSE run
    <2>1. WindowOf(game, run)[1] \in Int /\ WindowOf(game, run)[2] \in Int /\ (run.mode = "mtd_f" => k \in run.i .. run.j - 1)
      BY <1>2, <1>3, <1>5, WindowProper
    <2>2. run.i \in Int /\ run.j \in Int
      BY <1>2 DEF RunSet
    <2> HIDE DEF k
    <2>3. rn \in RunSet(game) /\ rn.at = run.at /\ rn.bits = run.bits /\ rn.ranked = run.ranked /\ rn.mode = run.mode
          /\ rn.i = run.i /\ rn.j = run.j /\ rn.f = run.f /\ (run.mode = "mtd_f" => rn.k = k) /\ (run.mode # "mtd_f" => rn.k = run.k)
      BY <1>2, <2>1, <2>2 DEF RunSet
    <2>4. run' = rn
      BY <1>5 DEF k
    <2> HIDE DEF rn
    <2>5. RunKept(game, plan, rn)
      BY <1>2, <2>3 DEF RunKept
    <2>6. IndexKept(game, "search", rn)
      BY <1>3, <2>1, <2>2, <2>3 DEF IndexKept
    <2>7. WindowOf(game, rn) = WindowOf(game, run)
      BY <2>3 DEF WindowOf
    <2>8. ArgKept(game, rn, <<>>, arg')
      <3> DEFINE yes == TRUE
                 walk == WalkOf(game, run.at, run.bits)
                 a == WindowOf(game, run)[1]
                 b == WindowOf(game, run)[2]
      <3>1. arg' = [w |-> walk, a |-> a, b |-> b, root |-> yes] /\ yes \in BOOLEAN
        BY <1>5
      <3>2. walk \in FaithfulWalks(game) /\ a \in Int /\ b \in Int
        BY <1>2, <2>1
      <3>3. Pending(game, rn, <<>>) = [w |-> walk, a |-> a, b |-> b]
        BY <2>3, <2>7, PendingFirst
      <3>4. arg'.root
        BY <1>5
      <3> HIDE DEF yes, walk, a, b
      <3>5. arg' \in ArgSet(game)
        BY <3>1, <3>2 DEF ArgSet
      <3>6. arg'.w = walk /\ arg'.a = a /\ arg'.b = b
        BY <3>1
      <3> QED
        BY <3>3, <3>4, <3>5, <3>6 DEF ArgKept
    <2>9. CallKept(game, plan, "search", rn, call, ret, nodes, stop)
      BY <1>3, <2>3 DEF CallKept, Searching
    <2>10. Counted'
      BY <1>1, <1>5 DEF Shape, Counted, Searching
    <2>11. CallKept(game', plan', stage', run', call', ret', nodes', stop')
      BY <1>1, <1>5, <2>4, <2>9
    <2> QED
      BY <1>1, <1>3, <1>5, <2>4, <2>5, <2>6, <2>8, <2>10, <2>11, EmptyStack DEF Shape, Fixed, Searching
  <1> QED
    BY <1>4, <1>5, TestIs

\* What is asked of the walk a search is about to enter.
LEMMA PendingIs ==
  ASSUME NEW g \in Library, NEW rn, NEW st, StackKept(g, rn, st), rn.at \in DOMAIN g.worth, rn.bits \in BOOLEAN, rn.bits => FitsBits(rn.at)
  PROVE  /\ Pending(g, rn, st).w \in FaithfulWalks(g) /\ Pending(g, rn, st).w.bits = rn.bits
         /\ Len(st) \in Nat /\ (Len(st) = 0 <=> st = <<>>)
         /\ st # <<>> => /\ FrameKept(g, rn, st[Len(st)])
                         /\ Pending(g, rn, st) = [w |-> st[Len(st)].kids[st[Len(st)].next].w, a |-> st[Len(st)].a, b |-> st[Len(st)].b]
  <1>1. st \in Seq(FrameSet(g)) /\ Len(st) \in Nat /\ (Len(st) = 0 <=> st = <<>>)
    <2>1. st \in Seq(FrameSet(g))
      BY DEF StackKept
    <2> QED
      BY <2>1, EmptySeq, LenProperties
  <1>2. CASE st = <<>>
    <2>1. Pending(g, rn, st).w = WalkOf(g, rn.at, rn.bits)
      BY <1>2, PendingFirst
    <2>2. WalkOf(g, rn.at, rn.bits) \in FaithfulWalks(g)
      BY FaithfulIs
    <2>3. WalkOf(g, rn.at, rn.bits).bits = rn.bits
      BY WalkIs
    <2> QED
      BY <1>1, <1>2, <2>1, <2>2, <2>3
  <1>3. CASE st # <<>>
    <2> DEFINE n == Len(st)
               f == st[n]
    <2>1. n \in 1 .. Len(st) /\ n + 1 # 1 /\ (n + 1) - 1 = n
      BY <1>1, <1>3
    <2>2. FrameKept(g, rn, f)
      BY <2>1 DEF StackKept
    <2>3. Pending(g, rn, st) = [w |-> f.kids[f.next].w, a |-> f.a, b |-> f.b]
      BY <2>1 DEF Pending, AskedAt
    <2> HIDE DEF n, f
    <2>4. f.kids[f.next].t \in RuleMoves(g, f.w.mk) /\ f.kids[f.next].w = WalkOf(g, RuleAfter(g, f.w.mk, f.kids[f.next].t), f.w.bits)
          /\ f.kids \in Seq(KidSet(g)) /\ f.next \in 1 .. Len(f.kids) /\ f.w.bits = rn.bits
      <3>1. f.kids \in Seq(KidSet(g)) /\ f.next \in Int /\ 1 <= f.next /\ f.next <= Len(f.kids) /\ f.w.bits = rn.bits
        BY <2>2 DEF FrameKept, FrameSet
      <3>2. f.next \in 1 .. Len(f.kids)
        BY <3>1, LenProperties
      <3> QED
        BY <2>2, <3>1, <3>2 DEF FrameKept
    <2>5. f.kids[f.next].w \in FaithfulWalks(g)
      <3>1. f.kids[f.next] \in KidSet(g)
        BY <2>4, ElementOfSeq
      <3> QED
        BY <3>1 DEF KidSet
    <2>6. f.kids[f.next].w.bits = rn.bits
      BY <2>4, WalkIs
    <2> QED
      BY <1>1, <1>3, <2>2, <2>3, <2>5, <2>6 DEF n, f
  <1> QED
    BY <1>2, <1>3

\* What the shape says of the walk a search is about.
LEMMA ArgIs ==
  ASSUME Shape, stage = "search"
  PROVE  /\ game \in Library /\ arg.w \in FaithfulWalks(game) /\ arg.w.mk \in DOMAIN game.worth /\ arg.w = WalkOf(game, arg.w.mk, arg.w.bits)
         /\ arg.w.bits \in BOOLEAN /\ (arg.w.bits => FitsBits(arg.w.mk))
         /\ arg.w.bits = run.bits /\ arg.a \in Int /\ arg.b \in Int
         /\ KeyOf(arg.w) \in KeySet(game) /\ KeyOf(arg.w).mk = arg.w.mk
         /\ Moves(arg.w) = RuleMoves(game, arg.w.mk) /\ (Over(arg.w) <=> RuleMoves(game, arg.w.mk) = {})
         /\ Mover(arg.w) = MoverAt(game, arg.w.mk) /\ Score(arg.w) = RewardAt(game, arg.w.mk)
         /\ TableKept(game, table)
  <1>1. game \in Library /\ run.at \in DOMAIN game.worth /\ run.bits \in BOOLEAN /\ (run.bits => FitsBits(run.at)) /\ TableKept(game, table)
    BY RunIs
  <1>2. StackKept(game, run, stack) /\ ArgKept(game, run, stack, arg)
    BY DEF Shape
  <1>3. Pending(game, run, stack).w \in FaithfulWalks(game) /\ Pending(game, run, stack).w.bits = run.bits
    BY <1>1, <1>2, PendingIs
  <1>4. arg.w \in FaithfulWalks(game) /\ arg.w.bits = run.bits /\ arg.a \in Int /\ arg.b \in Int
    BY <1>2, <1>3 DEF ArgKept, ArgSet
  <1> DEFINE m == arg.w.mk
             b == arg.w.bits
  <1>5. arg.w = WalkOf(game, m, b) /\ m \in DOMAIN game.worth /\ b \in BOOLEAN /\ (b => FitsBits(m))
    BY <1>4, FaithfulIs
  <1>6. KeyOf(arg.w) \in KeySet(game) /\ KeyOf(arg.w).mk = m
    BY <1>5 DEF KeyOf, KeySet
  <1>7. Moves(arg.w) = RuleMoves(game, m) /\ (Over(arg.w) <=> RuleMoves(game, m) = {})
        /\ Mover(arg.w) = MoverAt(game, m) /\ Score(arg.w) = RewardAt(game, m)
    <2> DEFINE w == arg.w
    <2> HIDE DEF m, b
    <2>1. Moves(WalkOf(game, m, b)) = RuleMoves(game, m) /\ (Over(WalkOf(game, m, b)) <=> RuleMoves(game, m) = {})
          /\ Mover(WalkOf(game, m, b)) = MoverAt(game, m) /\ Score(WalkOf(game, m, b)) = RewardAt(game, m)
      BY <1>1, <1>5, WalkMoves
    <2> QED
      BY <1>5, <2>1
  <1> QED
    BY <1>1, <1>4, <1>5, <1>6, <1>7

\* A run that differs in what it is about to tell of the bits alone.
AlikeRuns(rn, x) ==
  /\ x.at = rn.at /\ x.ranked = rn.ranked /\ x.bits = rn.bits /\ x.mode = rn.mode /\ x.i = rn.i /\ x.j = rn.j /\ x.k = rn.k /\ x.f = rn.f

\* A run that differs in whether it spilled alone keeps all that the stack says of it.
LEMMA AlikeKeep ==
  ASSUME NEW g, NEW pl, NEW rn, NEW x \in RunSet(g), AlikeRuns(rn, x), RunKept(g, pl, rn)
  PROVE  /\ RunKept(g, pl, x) /\ WindowOf(g, x) = WindowOf(g, rn)
         /\ \A sg : IndexKept(g, sg, rn) => IndexKept(g, sg, x)
         /\ \A st, i : AskedAt(g, x, st, i) = AskedAt(g, rn, st, i)
         /\ \A st : Pending(g, x, st) = Pending(g, rn, st) /\ (StackKept(g, rn, st) => StackKept(g, x, st))
  <1>1. RunKept(g, pl, x)
    BY DEF RunKept, AlikeRuns
  <1>2. WindowOf(g, x) = WindowOf(g, rn)
    BY DEF WindowOf, AlikeRuns
  <1>3. \A sg : IndexKept(g, sg, rn) => IndexKept(g, sg, x)
    BY DEF IndexKept, AlikeRuns
  <1>4. \A st, i : AskedAt(g, x, st, i) = AskedAt(g, rn, st, i)
    <2> TAKE st, i
    <2>1. x.at = rn.at /\ x.bits = rn.bits
      BY DEF AlikeRuns
    <2> QED
      BY <1>2, <2>1 DEF AskedAt
  <1>5. \A st : Pending(g, x, st) = Pending(g, rn, st)
    BY <1>4 DEF Pending
  <1>6. \A f : FrameKept(g, rn, f) => FrameKept(g, x, f)
    BY DEF FrameKept, AlikeRuns
  <1>7. \A st : StackKept(g, rn, st) => StackKept(g, x, st)
    BY <1>4, <1>6 DEF StackKept
  <1> QED
    BY <1>1, <1>2, <1>3, <1>4, <1>5, <1>7

\* A search that returns.
LEMMA ReturnShape ==
  ASSUME Shape, stage = "search", stage' = "back", game' = game, plan' = plan, stack' = stack, call' = call,
         TableKept(game, table'), history' \in [Transition -> Int], nodes' \in Int, stop' \in BOOLEAN, ret' \in Seq(Int),
         run' \in RunSet(game), AlikeRuns(run, run'),
         ret' # <<>> \/ Spent(call, nodes', stop') \/ (run'.bits /\ run'.spilled)
  PROVE  Shape'
  <1>1. Fixed /\ RunKept(game, plan, run) /\ StackKept(game, run, stack) /\ IndexKept(game, "search", run)
        /\ CallKept(game, plan, "search", run, call, ret, nodes, stop)
    BY DEF Shape, Searching
  <1> DEFINE x == run'
  <1>2. RunKept(game, plan, x) /\ StackKept(game, x, stack) /\ IndexKept(game, "search", x) /\ x.at = run.at
    <2>1. x.at = run.at
      BY DEF AlikeRuns
    <2> HIDE DEF x
    <2> QED
      BY <1>1, <2>1, AlikeKeep DEF x
  <1>3. IndexKept(game, "back", x)
    BY <1>2 DEF IndexKept
  <1>4. CallKept(game, plan, "back", x, call, ret', nodes', stop')
    BY <1>1, <1>2 DEF CallKept, Searching
  <1>5. CallKept(game', plan', stage', run', call', ret', nodes', stop')
    BY <1>4
  <1>6. Counted'
    BY DEF Counted, Searching
  <1> QED
    BY <1>1, <1>2, <1>3, <1>5, <1>6 DEF Shape, Fixed, Searching

\* Giving up keeps the shape.
LEMMA GiveUpShape ==
  ASSUME Shape, GiveUp
  PROVE  Shape'
  <1>1. /\ game' = game /\ plan' = plan /\ table' = table /\ history' = history /\ call' = call /\ stack' = stack /\ run' = run
        /\ stage = "search" /\ nodes' = nodes + 1 /\ stage' = "back" /\ ret' = <<>> /\ stop' = (stop \/ nodes' <= call.limit)
    BY DEF GiveUp, Enter, Return
  <1>2. nodes' \in Int /\ stop' \in BOOLEAN /\ ret' \in Seq(Int) /\ history' \in [Transition -> Int]
    <2>1. nodes \in Int /\ history \in [Transition -> Int]
      BY DEF Shape, Counted
    <2> QED
      BY <1>1, <2>1, EmptySeq
  <1>3. call.limit \in Int
    BY DEF Shape, CallKept, CallSet
  <1>4. Spent(call, nodes', stop')
    <2>1. nodes' > call.limit \/ nodes' <= call.limit
      BY <1>2, <1>3
    <2>2. nodes' <= call.limit => stop'
      BY <1>1
    <2> QED
      BY <2>1, <2>2 DEF Spent
  <1>5. run \in RunSet(game) /\ TableKept(game, table)
    BY RunIs
  <1>6. AlikeRuns(run, run')
    BY <1>1 DEF AlikeRuns
  <1> QED
    BY <1>1, <1>2, <1>4, <1>5, <1>6, ReturnShape

\* A search that returns a value, and tells the table, or not.
LEMMA ReturnValue ==
  ASSUME Shape, stage = "search", stage' = "back", game' = game, plan' = plan, stack' = stack, call' = call, run' = run,
         TableKept(game, table'), history' \in [Transition -> Int], nodes' = nodes + 1, stop' = stop, NEW v \in Int, ret' = <<v>>
  PROVE  Shape'
  <1>1. nodes' \in Int /\ stop' \in BOOLEAN
    BY DEF Shape, Counted
  <1>2. ret' \in Seq(Int) /\ ret' # <<>>
    OBVIOUS
  <1>3. run \in RunSet(game)
    BY RunIs
  <1>4. AlikeRuns(run, run')
    BY DEF AlikeRuns
  <1> QED
    BY <1>1, <1>2, <1>3, <1>4, ReturnShape

\* Answering from the table keeps the shape.
LEMMA RecallShape ==
  ASSUME Shape, Recall
  PROVE  Shape'
  <1>1. /\ game' = game /\ plan' = plan /\ table' = table /\ history' = history /\ call' = call /\ stack' = stack /\ run' = run
        /\ stage = "search" /\ nodes' = nodes + 1 /\ stage' = "back" /\ stop' = stop
    BY DEF Recall, Goes, Enter, Return
  <1>2. PICK e \in Held(KeyOf(arg.w)) : ret' = <<IF e.lo = e.hi \/ e.lo >= arg.b THEN e.lo ELSE e.hi>>
    BY DEF Recall, Return
  <1>3. TableKept(game, table) /\ history \in [Transition -> Int]
    BY DEF Shape, Counted
  <1>4. e.lo \in Int /\ e.hi \in Int
    BY <1>3, HeldIs
  <1> DEFINE v == IF e.lo = e.hi \/ e.lo >= arg.b THEN e.lo ELSE e.hi
  <1>5. v \in Int /\ ret' = <<v>>
    BY <1>2, <1>4
  <1> HIDE DEF v
  <1> QED
    BY <1>1, <1>3, <1>5, ReturnValue

\* The end of a game keeps the shape.
LEMMA FinalShape ==
  ASSUME Shape, Final
  PROVE  Shape'
  <1>1. /\ game' = game /\ plan' = plan /\ history' = history /\ call' = call /\ stack' = stack /\ run' = run
        /\ stage = "search" /\ nodes' = nodes + 1 /\ stage' = "back" /\ stop' = stop /\ ret' = <<Score(arg.w)>>
        /\ Store(KeyOf(arg.w), Score(arg.w), Score(arg.w), {}) /\ Over(arg.w)
    BY DEF Final, Unsettled, Goes, Enter, Return
  <1>2. history \in [Transition -> Int]
    BY DEF Shape, Counted
  <1>3. TableKept(game, table) /\ KeyOf(arg.w) \in KeySet(game) /\ arg.w.mk \in DOMAIN game.worth
        /\ RuleMoves(game, arg.w.mk) = {} /\ Score(arg.w) = RewardAt(game, arg.w.mk) /\ game \in Library
    BY <1>1, ArgIs
  <1>4. Score(arg.w) \in Int
    BY <1>3, BestMove, WorthBetween
  <1>5. {} \in SUBSET RuleMoves(game, KeyOf(arg.w).mk)
    OBVIOUS
  <1>6. TableKept(game, table')
    BY <1>1, <1>3, <1>4, <1>5, StoreIs
  <1> QED
    BY <1>1, <1>2, <1>4, <1>6, ReturnValue

\* What the filters make of the child by t of a walk.
ChildIs(w, m, b, t) ==
  /\ Children(w)[t].t = t
  /\ (Children(w)[t].played = {} /\ b) \/ Children(w)[t].played = {WalkOf(game, RuleAfter(game, m, t), b)}
  /\ RuleAfter(game, m, t) \in DOMAIN game.worth /\ (b => Children(w)[t].played = {} \/ FitsBits(RuleAfter(game, m, t)))
  /\ Children(w)[t].ends <=> Children(w)[t].played = {}
                             \/ (plan.must_win /\ \A v \in Children(w)[t].played : BestFor(MoverAt(game, m), v))
  /\ Children(w)[t].lost = IF ~ plan.non_losing THEN {"no"} ELSE {Lost(MoverAt(game, m), v) : v \in Children(w)[t].played}

\* The children of a walk are where the rule leads, or nothing where the bits spill.
LEMMA ChildrenAre ==
  ASSUME game \in Library, NEW m \in DOMAIN game.worth, NEW b \in BOOLEAN, b => FitsBits(m), NEW w, w = WalkOf(game, m, b)
  PROVE  /\ DOMAIN Children(w) = RuleMoves(game, m) /\ Range(Children(w)) = {Children(w)[t] : t \in RuleMoves(game, m)}
         /\ \A t \in RuleMoves(game, m) : ChildIs(w, m, b, t)
  <1>1. Moves(w) = RuleMoves(game, m) /\ Mover(w) = MoverAt(game, m)
    BY WalkMoves
  <1>2. DOMAIN Children(w) = RuleMoves(game, m)
    BY <1>1 DEF Children
  <1>3. Range(Children(w)) = {Children(w)[t] : t \in RuleMoves(game, m)}
    BY <1>2 DEF Range
  <1>4. ASSUME NEW t \in RuleMoves(game, m)
        PROVE  ChildIs(w, m, b, t)
    <2> DEFINE s == MoverAt(game, m)
               played == Play(t, w)
               ends == played = {} \/ (plan.must_win /\ \A v \in played : BestFor(s, v))
               lost == IF ~ plan.non_losing THEN {"no"} ELSE {Lost(s, v) : v \in played}
    <2>1. Children(w)[t] = Judged(t, s, played)
      BY <1>1 DEF Children
    <2>2. Judged(t, s, played) = [t |-> t, played |-> played, ends |-> ends, lost |-> lost]
      BY DEF Judged
    <2>3. LeavesTo(game, played, RuleAfter(game, m, t), b) /\ RuleAfter(game, m, t) \in DOMAIN game.worth
      BY PlayLeads
    <2>4. ends <=> (played = {} \/ (plan.must_win /\ \A v \in played : BestFor(s, v)))
      OBVIOUS
    <2>5. lost = IF ~ plan.non_losing THEN {"no"} ELSE {Lost(s, v) : v \in played}
      OBVIOUS
    <2> HIDE DEF s, played, ends, lost
    <2>6. Children(w)[t].t = t /\ Children(w)[t].played = played /\ Children(w)[t].lost = lost
      BY <2>1, <2>2
    <2>7. Children(w)[t].ends <=> ends
      BY <2>1, <2>2
    <2>8. (played = {} /\ b) \/ (played = {WalkOf(game, RuleAfter(game, m, t), b)} /\ (b => FitsBits(RuleAfter(game, m, t))))
      BY <2>3 DEF LeavesTo
    <2> QED
      BY <2>3, <2>4, <2>5, <2>6, <2>7, <2>8 DEF s, ChildIs
  <1> QED
    BY <1>2, <1>3, <1>4

\* The keys kids are sorted by are as many numbers as the plan names.
LEMMA KeysType ==
  ASSUME Shape, NEW t \in Transition, NEW w, NEW s, NEW first
  PROVE  /\ Keys(t, w, s, first) \in [1 .. Len(plan.order) -> Int] /\ Keys(t, w, s, first) \in Seq(Int)
         /\ Len(plan.order) \in Nat /\ DOMAIN plan.order = 1 .. Len(plan.order)
  <1> DEFINE key(piece) ==
        CASE piece = "tt_best" -> IF {t} = first THEN 1 ELSE 0
          [] piece = "immediate_win" -> IF Over(w) /\ s * Score(w) > 0 THEN 1 ELSE 0
          [] piece = "history" -> history[t]
          [] piece = "centrality" -> Cardinality(game.fed[t])
          [] piece = "threats" -> Cardinality({o \in game.fed[t] : DeficitAt(o, w) = 1})
             settled(i) == \E j \in 1 .. i - 1 : plan.order[j] \in Decisive /\ key(plan.order[j]) # 0
             ks == Keys(t, w, s, first)
  <1>1. game \in Library /\ plan.order \in Seq(OrderPieces) /\ history \in [Transition -> Int]
    BY DEF Shape, Fixed, Counted
  <1>2. Len(plan.order) \in Nat /\ DOMAIN plan.order = 1 .. Len(plan.order) /\ \A i \in 1 .. Len(plan.order) : plan.order[i] \in OrderPieces
    BY <1>1, LenProperties, ElementOfSeq
  <1>3. game.fed[t] \subseteq Transition
    <2>1. PICK g \in Games : game = New(g)
      BY <1>1 DEF Library
    <2>2. game.fed = [u \in Transition |-> Fed(g, u)] /\ game.auto = g.auto
      BY <2>1 DEF New
    <2>3. Fed(g, t) \subseteq g.auto
      BY DEF Fed, GoalsOf
    <2>4. game.auto \subseteq Transition
      BY <1>1, GameIs
    <2> QED
      BY <2>2, <2>3, <2>4
  <1>4. Cardinality(game.fed[t]) \in Int /\ Cardinality({o \in game.fed[t] : DeficitAt(o, w) = 1}) \in Int
    <2>1. IsFiniteSet(game.fed[t]) /\ IsFiniteSet({o \in game.fed[t] : DeficitAt(o, w) = 1})
      BY <1>3, TransitionsFinite
    <2> QED
      BY <2>1, FS_CardinalityType
  <1>5. \A piece \in OrderPieces : key(piece) \in Int
    BY <1>1, <1>4 DEF OrderPieces
  <1>6. ks = [i \in DOMAIN plan.order |-> IF settled(i) THEN 0 ELSE key(plan.order[i])]
    BY DEF Keys
  <1> HIDE DEF key, settled, ks
  <1>7. ks \in [1 .. Len(plan.order) -> Int]
    BY <1>2, <1>5, <1>6
  <1>8. ks \in Seq(Int)
    BY <1>2, <1>7, FunctionSeq
  <1> QED
    BY <1>2, <1>7, <1>8 DEF ks

\* A frame as a search opens it: of the children kept, those the root keeps too.
Opened(f, kept) ==
  /\ f.w = arg.w /\ f.s = Mover(arg.w) /\ f.next = 1 /\ f.best = <<>> /\ f.by = {}
  /\ f.a0 = Max({arg.a} \cup {e.lo : e \in Held(KeyOf(arg.w))}) /\ f.a = f.a0
  /\ f.b0 = Min({arg.b} \cup {e.hi : e \in Held(KeyOf(arg.w))}) /\ f.b = f.b0
  /\ f \in FrameSet(game)
  /\ \A i \in 1 .. Len(f.kids) :
       /\ f.kids[i].t \in RuleMoves(game, arg.w.mk)
       /\ f.kids[i].w = WalkOf(game, RuleAfter(game, arg.w.mk, f.kids[i].t), arg.w.bits)
  /\ \A c \in kept : (arg.root => \A r \in run.ranked : c.t \in Range(r.order)) => \E i \in 1 .. Len(f.kids) : f.kids[i].t = c.t

\* Opening a position: a frame of its kids in an order, entered, or left where it has
\* none.
LEMMA OpenIs ==
  ASSUME Shape, stage = "search", ~ Over(arg.w), NEW kept \in SUBSET Range(Children(arg.w)), \A c \in kept : c.played # {}, Open(kept)
  PROVE  \E f : /\ Opened(f, kept)
                /\ IF f.kids = <<>> THEN Childless(f)
                   ELSE stack' = Append(stack, f) /\ arg' = SearchNext(f) /\ table' = table /\ ret' = ret /\ stage' = stage /\ losses' = losses
  <1> DEFINE held == Held(KeyOf(arg.w))
             a == Max({arg.a} \cup {e.lo : e \in held})
             b == Min({arg.b} \cup {e.hi : e \in held})
             ranked == IF arg.root THEN run.ranked ELSE {}
             ties == IF ranked = {} THEN Declared ELSE (CHOOSE r \in ranked : TRUE).order
             remembered == UNION {e.best : e \in held}
             kid(c) == [t |-> c.t, w |-> Child(c), keys |-> Keys(c.t, Child(c), Mover(arg.w), remembered)]
             K == {kid(c) : c \in {x \in kept : x.t \in Range(ties)}}
             kids == Ranking(K, ties)
             m == arg.w.mk
             bits == arg.w.bits
             s == Mover(arg.w)
             f == [w |-> arg.w, s |-> s, a0 |-> a, b0 |-> b, a |-> a, b |-> b, next |-> 1, best |-> <<>>, by |-> {}, kids |-> kids]
  <1>1. IF f.kids = <<>> THEN Childless(f)
        ELSE stack' = Append(stack, f) /\ arg' = SearchNext(f) /\ table' = table /\ ret' = ret /\ stage' = stage /\ losses' = losses
    BY DEF Open
  <1>2. /\ game \in Library /\ m \in DOMAIN game.worth /\ bits \in BOOLEAN /\ (bits => FitsBits(m)) /\ arg.w = WalkOf(game, m, bits)
        /\ arg.w \in FaithfulWalks(game) /\ arg.a \in Int /\ arg.b \in Int /\ RuleMoves(game, m) # {} /\ s = MoverAt(game, m)
        /\ TableKept(game, table)
    BY ArgIs
  <1>3. a \in Int /\ b \in Int
    BY <1>2, Narrowed
  <1>4. s \in {-1, 1}
    BY <1>2, BestMove
  <1>5. RunKept(game, plan, run)
    BY RunIs
  <1>6. ties \in Seq(Transition) /\ \A t \in Transition : (arg.root => \A r \in run.ranked : t \in Range(r.order)) => t \in Range(ties)
    <2>1. CASE ranked = {}
      <3>1. Declared \in Seq(Transition) /\ Range(Declared) = Transition
        BY DeclaredAssumption
      <3> QED
        BY <2>1, <3>1
    <2>2. CASE ranked # {}
      <3>1. PICK r \in ranked : TRUE
        BY <2>2
      <3>2. ranked = run.ranked /\ arg.root /\ AtMostOne(run.ranked) /\ r \in run.ranked
        BY <1>5, <2>2, <3>1 DEF RunKept
      <3>3. (CHOOSE x \in run.ranked : TRUE) = r
        BY <3>2, OneChosen
      <3>4. ties = r.order
        BY <2>2, <3>2, <3>3
      <3>5. r.order \in Seq(Transition)
        BY <1>5, <3>2 DEF RunKept, RankOf
      <3> HIDE DEF ties
      <3> QED
        BY <3>2, <3>4, <3>5
    <2> QED
      BY <2>1, <2>2
  <1>7. ASSUME NEW c \in kept
        PROVE  /\ c.t \in RuleMoves(game, m) /\ c.t \in Transition /\ c = Children(arg.w)[c.t]
               /\ Child(c) = WalkOf(game, RuleAfter(game, m, c.t), bits) /\ Child(c) \in FaithfulWalks(game)
    <2>0. Range(Children(arg.w)) = {Children(arg.w)[t] : t \in RuleMoves(game, m)} /\ \A t \in RuleMoves(game, m) : ChildIs(arg.w, m, bits, t)
      BY <1>2, ChildrenAre
    <2>1. PICK t \in RuleMoves(game, m) : c = Children(arg.w)[t]
      BY <1>7, <2>0
    <2>c. ChildIs(arg.w, m, bits, t)
      BY <2>0
    <2>2. c.t = t /\ (c.played = {} \/ c.played = {WalkOf(game, RuleAfter(game, m, t), bits)})
          /\ RuleAfter(game, m, t) \in DOMAIN game.worth /\ (bits => c.played = {} \/ FitsBits(RuleAfter(game, m, t)))
      BY <2>1, <2>c DEF ChildIs
    <2>3. c.played = {WalkOf(game, RuleAfter(game, m, t), bits)} /\ (bits => FitsBits(RuleAfter(game, m, t)))
      BY <1>7, <2>2
    <2>4. Child(c) = WalkOf(game, RuleAfter(game, m, t), bits)
      BY <2>3 DEF Child
    <2>5. WalkOf(game, RuleAfter(game, m, t), bits) \in FaithfulWalks(game)
      BY <1>2, <2>2, <2>3, FaithfulIs
    <2>6. t \in Transition
      BY WalkIs
    <2> QED
      BY <2>1, <2>2, <2>4, <2>5, <2>6
  <1> DEFINE n == Len(plan.order)
             sieved == {x \in kept : x.t \in Range(ties)}
  <1>8. n \in Nat /\ DOMAIN plan.order = 1 .. n
    <2>1. plan.order \in Seq(OrderPieces)
      BY DEF Shape, Fixed
    <2> QED
      BY <2>1, LenProperties
  <1>9. ASSUME NEW c \in kept
        PROVE  Keys(c.t, Child(c), s, remembered) \in [1 .. n -> Int] /\ Keys(c.t, Child(c), s, remembered) \in Seq(Int)
    BY <1>7, KeysType
  <1> HIDE DEF n, s, remembered, held
  <1>k. \A c \in kept : kid(c).t = c.t /\ kid(c).w = Child(c) /\ kid(c).keys = Keys(c.t, Child(c), s, remembered)
    BY DEF s
  <1>kk. \A c \in kept : kid(c) \in KidSet(game)
    BY <1>7, <1>9 DEF KidSet, s
  <1> HIDE DEF kid
  <1>10. \A x \in K : \E c \in sieved : x = kid(c)
    OBVIOUS
  <1>11. \A c \in sieved : kid(c) \in K /\ c \in kept /\ c.t \in Range(ties)
    OBVIOUS
  <1>12. IsFiniteSet(K)
    <2> DEFINE h == [t \in RuleMoves(game, m) |-> kid(Children(arg.w)[t])]
               D == {h[t] : t \in RuleMoves(game, m)}
    <2>1. IsFiniteSet(RuleMoves(game, m))
      BY WalkIs, TransitionsFinite
    <2>2. IsFiniteSet(D)
      <3> HIDE DEF h
      <3> QED
        BY <2>1, ImageFinite
    <2>3. \A c \in sieved : kid(c) \in D
      <3> TAKE c \in sieved
      <3>1. h[c.t] = kid(c) /\ c.t \in RuleMoves(game, m)
        BY <1>7
      <3> HIDE DEF h
      <3> QED
        BY <3>1
    <2> HIDE DEF D, K
    <2>4. K \in SUBSET D
      BY <1>10, <2>3
    <2> QED
      BY <2>2, <2>4, FS_Subset
  <1> HIDE DEF K, sieved, ties
  <1>13. \A x \in K : x.t \in Range(ties) /\ x.keys \in [1 .. n -> Int] /\ x \in KidSet(game)
                      /\ x.t \in RuleMoves(game, m) /\ x.w = WalkOf(game, RuleAfter(game, m, x.t), bits)
    BY <1>7, <1>9, <1>10, <1>11, <1>k, <1>kk
  <1>14. \A x, y \in K : x.t = y.t => x = y
    <2> TAKE x, y \in K
    <2>1. PICK c \in sieved : x = kid(c)
      BY <1>10
    <2>2. PICK d \in sieved : y = kid(d)
      BY <1>10
    <2>3. c \in kept /\ d \in kept /\ c.t = x.t /\ d.t = y.t
      BY <1>11, <1>k, <2>1, <2>2
    <2>4. c = Children(arg.w)[x.t] /\ d = Children(arg.w)[y.t]
      BY <1>7, <2>3
    <2> QED
      BY <2>1, <2>2, <2>4
  <1>15. kids \in Seq(K) /\ Range(kids) = K
    BY <1>6, <1>8, <1>12, <1>13, <1>14, RankingIs
  <1> HIDE DEF kids
  <1>16. Len(kids) \in Nat /\ DOMAIN kids = 1 .. Len(kids) /\ (\A i \in 1 .. Len(kids) : kids[i] \in K) /\ kids \in Seq(KidSet(game))
    <2>1. Len(kids) \in Nat /\ DOMAIN kids = 1 .. Len(kids) /\ (\A i \in 1 .. Len(kids) : kids[i] \in K)
      BY <1>15, LenProperties, ElementOfSeq
    <2>2. K \subseteq KidSet(game)
      BY <1>13
    <2>3. kids \in Seq(KidSet(game))
      BY <1>15, <2>2
    <2> QED
      BY <2>1, <2>3
  <1>17. \A x \in K : \E i \in 1 .. Len(kids) : kids[i] = x
    BY <1>15, <1>16 DEF Range
  <1>18. /\ f.w = arg.w /\ f.s = s /\ f.next = 1 /\ f.best = <<>> /\ f.by = {} /\ f.a0 = a /\ f.a = a /\ f.b0 = b /\ f.b = b /\ f.kids = kids
    OBVIOUS
  <1>19. f \in FrameSet(game)
    <2>1. <<>> \in Seq(Int)
      BY EmptySeq
    <2>2. {} \in SUBSET Transition /\ 1 \in Int
      OBVIOUS
    <2> HIDE DEF a, b
    <2> QED
      BY <1>2, <1>3, <1>4, <1>16, <2>1, <2>2 DEF FrameSet, s
  <1>20. \A c \in kept : (arg.root => \A r \in run.ranked : c.t \in Range(r.order)) => \E i \in 1 .. Len(kids) : kids[i].t = c.t
    <2> TAKE c \in kept
    <2> HAVE arg.root => \A r \in run.ranked : c.t \in Range(r.order)
    <2>1. c.t \in Range(ties)
      BY <1>6, <1>7
    <2>2. c \in sieved
      BY <2>1 DEF sieved
    <2>3. kid(c) \in K /\ kid(c).t = c.t
      BY <1>11, <1>k, <2>2
    <2> QED
      BY <1>17, <2>3
  <1> DEFINE x == f
  <1>21. \A i \in 1 .. Len(kids) : kids[i].t \in RuleMoves(game, m) /\ kids[i].w = WalkOf(game, RuleAfter(game, m, kids[i].t), bits)
    BY <1>13, <1>16
  <1>22. Opened(f, kept)
    <2> HIDE DEF f
    <2> QED
      BY <1>18, <1>19, <1>20, <1>21 DEF Opened, s, held
  <1> HIDE DEF f
  <1> QED
    BY <1>1, <1>22

\* The ways a position with moves is searched: the bits cannot hold a child of
\* it, a move wins it at once, every move loses, or its children are searched,
\* but for what a filter showed to lose.
ExpandsWon(t) ==
  /\ game.worth[RuleAfter(game, arg.w.mk, t)] = Bound(Mover(arg.w))
  /\ Cutoff(t)
  /\ Store(KeyOf(arg.w), Bound(Mover(arg.w)), Bound(Mover(arg.w)), {t})
  /\ ret' = <<Bound(Mover(arg.w))>> /\ stage' = "back" /\ run' = run /\ stack' = stack /\ arg' = arg
ExpandsLost ==
  /\ \A t \in RuleMoves(game, arg.w.mk) : game.worth[RuleAfter(game, arg.w.mk, t)] = Bound(- Mover(arg.w))
  /\ Store(KeyOf(arg.w), Bound(- Mover(arg.w)), Bound(- Mover(arg.w)), {})
  /\ ret' = <<Bound(- Mover(arg.w))>> /\ stage' = "back" /\ run' = run /\ stack' = stack /\ arg' = arg /\ history' = history
ExpandsOpen(kept) ==
  /\ \A t \in RuleMoves(game, arg.w.mk) :
       (\E c \in kept : c.t = t) \/ (plan.non_losing /\ game.worth[RuleAfter(game, arg.w.mk, t)] = Bound(- Mover(arg.w)))
  /\ \E c \in kept : c.t \in RuleMoves(game, arg.w.mk)
  /\ run' = run /\ history' = history
  /\ \E f : /\ Opened(f, kept)
            /\ IF f.kids = <<>> THEN Childless(f)
               ELSE stack' = Append(stack, f) /\ arg' = SearchNext(f) /\ table' = table /\ ret' = ret /\ stage' = stage /\ losses' = losses

\* What Expand does: spill, win at once, lose at once, or open.
LEMMA ExpandIs ==
  ASSUME Shape, Expand
  PROVE  /\ stage = "search" /\ nodes' = nodes + 1 /\ game' = game /\ plan' = plan /\ call' = call /\ stop' = stop /\ ~ Over(arg.w)
         /\ \/ SpillNow /\ run.bits
            \/ \E t \in RuleMoves(game, arg.w.mk) : ExpandsWon(t)
            \/ ExpandsLost
            \/ \E kept : ExpandsOpen(kept)
  <1> DEFINE m == arg.w.mk
             b == arg.w.bits
             s == Mover(arg.w)
             T == RuleMoves(game, m)
             children == Children(arg.w)
             telling == {t \in DOMAIN children : children[t].ends}
             kept == {c \in Range(children) : "no" \in c.lost}
  <1>1. stage = "search" /\ nodes' = nodes + 1 /\ ~ Over(arg.w)
    BY DEF Expand, Unsettled, Goes, Enter
  <1>2. \/ telling # {} /\ Loop(children[First(telling)])
        \/ telling = {} /\ (\E c \in Range(children) : "spilled" \in c.lost) /\ SpillNow
        \/ telling = {} /\ (\A c \in Range(children) : c.lost = {"yes"}) /\ Hopeless
        \/ telling = {} /\ (\A c \in Range(children) : "spilled" \notin c.lost) /\ kept # {} /\ Open(kept)
    BY DEF Expand
  <1>3. /\ game \in Library /\ m \in DOMAIN game.worth /\ b \in BOOLEAN /\ (b => FitsBits(m)) /\ arg.w = WalkOf(game, m, b)
        /\ b = run.bits /\ s = MoverAt(game, m) /\ T # {}
    BY <1>1, ArgIs
  <1>4. DOMAIN children = T /\ Range(children) = {children[t] : t \in T} /\ \A t \in T : ChildIs(arg.w, m, b, t)
    BY <1>3, ChildrenAre
  <1>5. s \in {-1, 1} /\ - s \in {-1, 1}
    BY <1>3, BestMove
  <1> HIDE DEF m, b, s, T, children, telling, kept
  <1>6. ASSUME NEW t \in T
        PROVE  /\ children[t].t = t
               /\ children[t].played = {} => b
               /\ children[t].played # {} =>
                    /\ children[t].played = {WalkOf(game, RuleAfter(game, m, t), b)}
                    /\ RuleAfter(game, m, t) \in DOMAIN game.worth /\ (b => FitsBits(RuleAfter(game, m, t)))
               /\ children[t].ends <=> children[t].played = {} \/ (plan.must_win /\ \A v \in children[t].played : BestFor(s, v))
               /\ children[t].lost = IF ~ plan.non_losing THEN {"no"} ELSE {Lost(s, v) : v \in children[t].played}
    <2>1. ChildIs(arg.w, m, b, t)
      BY <1>4
    <2> QED
      BY <1>3, <2>1 DEF ChildIs, children
  <1>7. ASSUME NEW t \in T, children[t].played # {}, children[t].ends
        PROVE  game.worth[RuleAfter(game, m, t)] = Bound(s)
    <2>1. BestFor(s, WalkOf(game, RuleAfter(game, m, t), b)) /\ RuleAfter(game, m, t) \in DOMAIN game.worth
      BY <1>6, <1>7
    <2> QED
      BY <1>3, <2>1, BestForIs
  <1>8. ASSUME NEW t \in T, children[t].played # {}, plan.non_losing
        PROVE  /\ children[t].lost = {"no"} \/ children[t].lost = {"yes"} \/ children[t].lost = {"spilled"}
               /\ children[t].lost = {"yes"} => game.worth[RuleAfter(game, m, t)] = Bound(- s)
               /\ children[t].lost = {"spilled"} => b
    <2> DEFINE x == RuleAfter(game, m, t)
               l == Lost(s, WalkOf(game, x, b))
    <2>1. x \in DOMAIN game.worth /\ (b => FitsBits(x)) /\ children[t].lost = {l}
      BY <1>6, <1>8
    <2>2. l \in {"no", "yes", "spilled"} /\ (l = "yes" => game.worth[x] = Bound(- s)) /\ (l = "spilled" => b)
      BY <1>3, <1>5, <2>1, LostIs
    <2> HIDE DEF x, l
    <2> QED
      BY <2>1, <2>2 DEF x
  <1>9. \A t \in T : t \in Transition
    BY WalkIs DEF T
  <1>10. telling \subseteq T /\ \A t \in telling : children[t].ends
    BY <1>4 DEF telling
  <1>11. ASSUME telling # {}, Loop(children[First(telling)])
         PROVE  (SpillNow /\ run.bits) \/ \E t \in T : ExpandsWon(t)
    <2> DEFINE t == First(telling)
    <2>1. t \in telling
      BY <1>9, <1>10, <1>11, FirstOf
    <2>2. t \in T /\ children[t].ends
      BY <1>10, <2>1
    <2> HIDE DEF t
    <2>3. CASE children[t].played = {} /\ SpillNow
      BY <1>3, <1>6, <2>2, <2>3
    <2>4. CASE children[t].played # {} /\ ~ (children[t].played = {} /\ SpillNow)
      <3>1. game.worth[RuleAfter(game, m, t)] = Bound(s)
        BY <1>7, <2>2, <2>4
      <3>2. children[t].t = t
        BY <1>6, <2>2
      <3>3. ExpandsWon(t)
        BY <1>11, <2>4, <3>1, <3>2 DEF Loop, ExpandsWon, Return, m, s, t
      <3> QED
        BY <2>2, <3>3
    <2> QED
      BY <1>11, <2>3, <2>4 DEF Loop, t
  <1>12. ASSUME telling = {}, NEW t \in T
         PROVE  children[t].played # {}
    BY <1>4, <1>6, <1>12 DEF telling
  <1>13. ASSUME telling = {}, \E c \in Range(children) : "spilled" \in c.lost, SpillNow
         PROVE  SpillNow /\ run.bits
    <2>1. PICK t \in T : "spilled" \in children[t].lost
      BY <1>4, <1>13
    <2>2. plan.non_losing
      <3>1. CASE ~ plan.non_losing
        <4>1. children[t].lost = {"no"}
          BY <1>6, <3>1
        <4> QED
          BY <2>1, <4>1
      <3> QED
        BY <3>1
    <2>3. children[t].lost = {"spilled"}
      BY <1>8, <1>12, <1>13, <2>1, <2>2
    <2> QED
      BY <1>3, <1>8, <1>12, <1>13, <2>2, <2>3
  <1>14. ASSUME telling = {}, \A c \in Range(children) : c.lost = {"yes"}, Hopeless
         PROVE  ExpandsLost
    <2>1. ASSUME NEW t \in T
          PROVE  game.worth[RuleAfter(game, m, t)] = Bound(- s)
      <3>1. children[t].lost = {"yes"}
        BY <1>4, <1>14
      <3>2. plan.non_losing
        <4>1. CASE ~ plan.non_losing
          <5>1. children[t].lost = {"no"}
            BY <1>6, <4>1
          <5> QED
            BY <3>1, <5>1
        <4> QED
          BY <4>1
      <3> QED
        BY <1>8, <1>12, <1>14, <3>1, <3>2
    <2> QED
      BY <1>14, <2>1 DEF Hopeless, ExpandsLost, Return, m, s, T
  <1>15. ASSUME telling = {}, \A c \in Range(children) : "spilled" \notin c.lost, kept # {}, Open(kept)
         PROVE  ExpandsOpen(kept)
    <2>1. ASSUME NEW t \in T
          PROVE  (\E c \in kept : c.t = t) \/ (plan.non_losing /\ game.worth[RuleAfter(game, m, t)] = Bound(- s))
      <3>1. children[t] \in Range(children) /\ children[t].t = t
        BY <1>4, <1>6
      <3>2. CASE "no" \in children[t].lost
        BY <3>1, <3>2 DEF kept
      <3>3. CASE "no" \notin children[t].lost
        <4>1. plan.non_losing
          <5>1. CASE ~ plan.non_losing
            <6>1. children[t].lost = {"no"}
              BY <1>6, <5>1
            <6> QED
              BY <3>3, <6>1
          <5> QED
            BY <5>1
        <4>2. children[t].lost = {"yes"}
          BY <1>8, <1>12, <1>15, <3>1, <3>3, <4>1
        <4> QED
          BY <1>8, <1>12, <1>15, <4>1, <4>2
      <3> QED
        BY <3>2, <3>3
    <2>2. kept \in SUBSET Range(Children(arg.w)) /\ \A c \in kept : c.played # {}
      BY <1>4, <1>12, <1>15 DEF kept, children
    <2>3. run' = run /\ history' = history
      BY <1>15 DEF Open
    <2>4. \E f : /\ Opened(f, kept)
                 /\ IF f.kids = <<>> THEN Childless(f)
                    ELSE stack' = Append(stack, f) /\ arg' = SearchNext(f) /\ table' = table /\ ret' = ret /\ stage' = stage /\ losses' = losses
      BY <1>1, <1>15, <2>2, OpenIs
    <2>5. \E c \in kept : c.t \in T
      <3>1. PICK c \in kept : TRUE
        BY <1>15
      <3>2. c \in {children[t] : t \in T}
        BY <1>4, <3>1 DEF kept
      <3>3. PICK t \in T : c = children[t]
        BY <3>2
      <3>4. c.t = t
        BY <1>6, <3>3
      <3> QED
        BY <3>1, <3>3, <3>4
    <2> QED
      BY <2>1, <2>3, <2>4, <2>5 DEF ExpandsOpen, m, s, T
  <1>16. game' = game /\ plan' = plan /\ call' = call /\ stop' = stop
    BY <1>2 DEF Loop, SpillNow, Hopeless, Open
  <1> QED
    BY <1>1, <1>2, <1>11, <1>13, <1>14, <1>15, <1>16 DEF T, m

\* A spill keeps the shape.
LEMMA SpillShape ==
  ASSUME Shape, stage = "search", SpillNow, run.bits, nodes' = nodes + 1
  PROVE  Shape'
  <1>1. /\ game' = game /\ plan' = plan /\ table' = table /\ history' = history /\ call' = call /\ stack' = stack /\ stop' = stop
        /\ stage' = "back" /\ ret' = <<>> /\ run' = [run EXCEPT !.spilled = TRUE]
    BY DEF SpillNow, Return
  <1>2. run \in RunSet(game) /\ TableKept(game, table)
    BY RunIs
  <1>3. nodes' \in Int /\ stop' \in BOOLEAN /\ ret' \in Seq(Int) /\ history' \in [Transition -> Int]
    <2>1. nodes \in Int /\ history \in [Transition -> Int] /\ stop \in BOOLEAN
      BY DEF Shape, Counted
    <2> QED
      BY <1>1, <2>1, EmptySeq
  <1>4. run' \in RunSet(game) /\ AlikeRuns(run, run') /\ run'.bits = run.bits
    <2> DEFINE yes == TRUE
    <2>1. yes \in BOOLEAN /\ run' = [run EXCEPT !.spilled = yes]
      BY <1>1
    <2> HIDE DEF yes
    <2>2. run' \in RunSet(game)
      BY <1>2, <2>1 DEF RunSet
    <2>3. AlikeRuns(run, run')
      BY <1>2, <2>1 DEF RunSet, AlikeRuns
    <2> QED
      BY <2>2, <2>3 DEF AlikeRuns
  <1>5. run'.spilled
    <2>1. "spilled" \in DOMAIN run
      BY <1>2 DEF RunSet
    <2> QED
      BY <1>1, <2>1, Zenon
  <1> QED
    BY <1>1, <1>2, <1>3, <1>4, <1>5, ReturnShape

\* The history of cutoffs counts per transition.
LEMMA CutoffType ==
  ASSUME history \in [Transition -> Int], NEW t, Cutoff(t)
  PROVE  history' \in [Transition -> Int]
  <1>1. history' = [history EXCEPT ![t] = IF "history" \in Range(plan.order) THEN history[t] + 1 ELSE history[t]]
    BY DEF Cutoff
  <1>2. CASE t \in Transition
    <2>1. (IF "history" \in Range(plan.order) THEN history[t] + 1 ELSE history[t]) \in Int
      BY <1>2
    <2> DEFINE n == IF "history" \in Range(plan.order) THEN history[t] + 1 ELSE history[t]
    <2> HIDE DEF n
    <2> QED
      BY <1>1, <2>1 DEF n
  <1>3. CASE t \notin Transition
    <2> DEFINE n == IF "history" \in Range(plan.order) THEN history[t] + 1 ELSE history[t]
    <2> HIDE DEF n
    <2>1. history' = [history EXCEPT ![t] = n]
      BY <1>1 DEF n
    <2> QED
      BY <1>3, <2>1
  <1> QED
    BY <1>2, <1>3

\* A search that tells the table what its position is worth at once.
LEMMA WonShape ==
  ASSUME Shape, stage = "search", nodes' = nodes + 1, game' = game, plan' = plan, call' = call, stop' = stop,
         NEW t \in RuleMoves(game, arg.w.mk), ExpandsWon(t)
  PROVE  Shape'
  <1> DEFINE v == Bound(Mover(arg.w))
             best == {t}
  <1>1. Cutoff(t) /\ Store(KeyOf(arg.w), v, v, best) /\ ret' = <<v>> /\ stage' = "back" /\ run' = run /\ stack' = stack
    BY DEF ExpandsWon
  <1>2. game \in Library /\ KeyOf(arg.w) \in KeySet(game) /\ KeyOf(arg.w).mk = arg.w.mk /\ TableKept(game, table)
    BY ArgIs
  <1>3. v \in Int
    BY <1>2, BoundIs DEF Bound
  <1>4. best \in SUBSET RuleMoves(game, KeyOf(arg.w).mk)
    BY <1>2
  <1>5. history' \in [Transition -> Int]
    BY <1>1, CutoffType DEF Shape, Counted
  <1> HIDE DEF v, best
  <1>6. TableKept(game, table')
    BY <1>1, <1>2, <1>3, <1>4, StoreIs
  <1> QED
    BY <1>1, <1>3, <1>5, <1>6, ReturnValue

\* A position told to be lost keeps the shape.
LEMMA LostShape ==
  ASSUME Shape, stage = "search", nodes' = nodes + 1, game' = game, plan' = plan, call' = call, stop' = stop, ExpandsLost
  PROVE  Shape'
  <1> DEFINE v == Bound(- Mover(arg.w))
             best == {}
  <1>1. history' = history /\ Store(KeyOf(arg.w), v, v, best) /\ ret' = <<v>> /\ stage' = "back" /\ run' = run /\ stack' = stack
    BY DEF ExpandsLost
  <1>2. game \in Library /\ KeyOf(arg.w) \in KeySet(game) /\ KeyOf(arg.w).mk = arg.w.mk /\ TableKept(game, table)
    BY ArgIs
  <1>3. v \in Int
    BY <1>2, BoundIs DEF Bound
  <1>4. best \in SUBSET RuleMoves(game, KeyOf(arg.w).mk)
    OBVIOUS
  <1>5. history' \in [Transition -> Int]
    BY <1>1 DEF Shape, Counted
  <1> HIDE DEF v, best
  <1>6. TableKept(game, table')
    BY <1>1, <1>2, <1>3, <1>4, StoreIs
  <1> QED
    BY <1>1, <1>3, <1>5, <1>6, ReturnValue

\* What is asked of frame i, by the stack up to it.
LEMMA AskedBelow ==
  ASSUME NEW g, NEW rn, NEW st, NEW s2, NEW i \in Nat \ {0}, \A j \in 1 .. i : j < i => st[j] = s2[j]
  PROVE  AskedAt(g, rn, st, i) = AskedAt(g, rn, s2, i)
  <1>1. CASE i = 1
    BY <1>1 DEF AskedAt
  <1>3. CASE i # 1
    <2>1. i - 1 \in 1 .. i /\ i - 1 < i
      BY <1>3
    <2>2. st[i - 1] = s2[i - 1]
      BY <2>1
    <2> QED
      BY <1>3, <2>2 DEF AskedAt
  <1> QED
    BY <1>1, <1>3

\* One more frame.
LEMMA PushIs ==
  ASSUME NEW g, NEW rn, NEW st, StackKept(g, rn, st), NEW f, FrameKept(g, rn, f), f.w = Pending(g, rn, st).w
  PROVE  /\ StackKept(g, rn, Append(st, f)) /\ Append(st, f) # <<>> /\ Len(Append(st, f)) = Len(st) + 1
         /\ Append(st, f)[Len(st) + 1] = f /\ \A i \in 1 .. Len(st) : Append(st, f)[i] = st[i]
         /\ \A i \in 1 .. Len(st) + 1 : AskedAt(g, rn, Append(st, f), i) = AskedAt(g, rn, st, i)
         /\ Pending(g, rn, Append(st, f)) = [w |-> f.kids[f.next].w, a |-> f.a, b |-> f.b]
         /\ Len(st) \in Nat
  <1> DEFINE s2 == Append(st, f)
             n == Len(st)
  <1>1. st \in Seq(FrameSet(g)) /\ f \in FrameSet(g) /\ \A i \in 1 .. n : FrameKept(g, rn, st[i]) /\ st[i].w = AskedAt(g, rn, st, i).w
    BY DEF StackKept, FrameKept
  <1>2. s2 \in Seq(FrameSet(g)) /\ Len(s2) = n + 1 /\ s2[n + 1] = f /\ (\A i \in 1 .. n : s2[i] = st[i]) /\ n \in Nat
    BY <1>1, AppendProperties, LenProperties
  <1> HIDE DEF s2, n
  <1>3. s2 # <<>>
    BY <1>2, EmptySeq
  <1>4. \A i \in 1 .. n + 1 : AskedAt(g, rn, s2, i) = AskedAt(g, rn, st, i)
    <2> TAKE i \in 1 .. n + 1
    <2>1. i \in Nat \ {0} /\ \A j \in 1 .. i : j < i => s2[j] = st[j]
      BY <1>2
    <2> QED
      BY <2>1, AskedBelow
  <1>5. AskedAt(g, rn, s2, n + 1).w = f.w
    BY <1>2, <1>4 DEF Pending, n
  <1>6. StackKept(g, rn, s2)
    <2>1. ASSUME NEW i \in 1 .. n + 1
          PROVE  FrameKept(g, rn, s2[i]) /\ s2[i].w = AskedAt(g, rn, s2, i).w
      <3>1. CASE i = n + 1
        BY <1>2, <1>5, <3>1
      <3>2. CASE i # n + 1
        <4>1. i \in 1 .. n /\ s2[i] = st[i]
          BY <1>2, <3>2
        <4> QED
          BY <1>1, <1>4, <4>1
      <3> QED
        BY <3>1, <3>2
    <2> QED
      BY <1>2, <2>1 DEF StackKept
  <1>7. Pending(g, rn, s2) = [w |-> f.kids[f.next].w, a |-> f.a, b |-> f.b]
    <2>1. (n + 1) + 1 # 1 /\ ((n + 1) + 1) - 1 = n + 1
      BY <1>2
    <2> QED
      BY <1>2, <2>1 DEF Pending, AskedAt
  <1> QED
    BY <1>2, <1>3, <1>4, <1>6, <1>7 DEF s2, n

\* The next kid of a frame is a search to enter.
LEMMA NextKept ==
  ASSUME NEW g, NEW rn, NEW st, StackKept(g, rn, st), NEW f, FrameKept(g, rn, f), f.w = Pending(g, rn, st).w
  PROVE  ArgKept(g, rn, Append(st, f), SearchNext(f))
  <1> DEFINE no == FALSE
             w == f.kids[f.next].w
  <1>1. Pending(g, rn, Append(st, f)) = [w |-> w, a |-> f.a, b |-> f.b] /\ Append(st, f) # <<>>
    BY PushIs
  <1>2. SearchNext(f) = [w |-> w, a |-> f.a, b |-> f.b, root |-> no] /\ no \in BOOLEAN
    BY DEF SearchNext
  <1>3. f.kids \in Seq(KidSet(g)) /\ f.next \in Int /\ 1 <= f.next /\ f.next <= Len(f.kids) /\ f.a \in Int /\ f.b \in Int
    BY DEF FrameKept, FrameSet
  <1>4. w \in FaithfulWalks(g)
    <2>1. f.next \in 1 .. Len(f.kids)
      BY <1>3, LenProperties
    <2>2. f.kids[f.next] \in KidSet(g)
      BY <1>3, <2>1, ElementOfSeq
    <2> QED
      BY <2>2 DEF KidSet
  <1>5. ~ SearchNext(f).root
    BY DEF SearchNext
  <1> HIDE DEF no, w
  <1>6. SearchNext(f) \in ArgSet(g)
    BY <1>2, <1>3, <1>4 DEF ArgSet
  <1>7. SearchNext(f).w = w /\ SearchNext(f).a = f.a /\ SearchNext(f).b = f.b
    BY <1>2
  <1> QED
    BY <1>1, <1>5, <1>6, <1>7 DEF ArgKept

\* A frame is entered, or its next kid is.
LEMMA EnterShape ==
  ASSUME Shape, stage \in {"search", "back"}, stage' = "search", game' = game, plan' = plan, call' = call, run' = run,
         TableKept(game, table'), history' = history, nodes' \in Int, stop' = stop, ret' = ret,
         NEW st, StackKept(game, run, st), NEW f, FrameKept(game, run, f), f.w = Pending(game, run, st).w,
         stack' = Append(st, f), arg' = SearchNext(f)
  PROVE  Shape'
  <1>1. Fixed /\ RunKept(game, plan, run) /\ IndexKept(game, stage, run) /\ CallKept(game, plan, stage, run, call, ret, nodes, stop) /\ Counted
    BY DEF Shape, Searching
  <1>2. IndexKept(game, "search", run)
    BY <1>1 DEF IndexKept
  <1>3. CallKept(game, plan, "search", run, call, ret, nodes', stop)
    <2>1. CASE stage = "search"
      BY <1>1, <2>1 DEF CallKept, Searching
    <2>2. CASE stage = "back"
      BY <1>1, <2>2 DEF CallKept, Searching
    <2> QED
      BY <2>1, <2>2
  <1>4. CallKept(game', plan', stage', run', call', ret', nodes', stop')
    BY <1>3
  <1>5. StackKept(game, run, stack') /\ ArgKept(game, run, stack', arg')
    BY PushIs, NextKept
  <1>6. Counted'
    BY <1>1 DEF Counted, Searching
  <1> QED
    BY <1>1, <1>2, <1>4, <1>5, <1>6 DEF Shape, Fixed, Searching

\* A frame without kids, left, keeps the shape.
LEMMA ChildlessShape ==
  ASSUME Shape, stage = "search", nodes' = nodes + 1, game' = game, plan' = plan, call' = call, stop' = stop, run' = run, history' = history,
         NEW f, f.w = arg.w, f \in FrameSet(game), Childless(f)
  PROVE  Shape'
  <1> DEFINE v == IF f.s > 0 THEN Least - 1 ELSE Most + 1
             none == [f EXCEPT !.best = <<v>>]
             p == Proved(none)
             best == {}
  <1>1. Store(KeyOf(f.w), p[1], p[2], best) /\ ret' = none.best /\ stage' = "back" /\ stack' = stack
    BY DEF Childless, Return
  <1>2. game \in Library /\ KeyOf(arg.w) \in KeySet(game) /\ KeyOf(arg.w).mk = arg.w.mk /\ TableKept(game, table)
    BY ArgIs
  <1>3. Least \in Int /\ Most \in Int
    BY <1>2, BoundIs
  <1>4. v \in Int
    BY <1>3
  <1> HIDE DEF v
  <1>5. none.best = <<v>>
    BY DEF FrameSet
  <1>6. p[1] \in Int /\ p[2] \in Int
    <2>1. none.best[1] = v
      BY <1>5
    <2> HIDE DEF none
    <2>2. p = <<Least, v>> \/ p = <<v, Most>> \/ p = <<v, v>>
      BY <2>1 DEF Proved
    <2> HIDE DEF p
    <2> QED
      BY <1>3, <1>4, <2>2
  <1>7. best \in SUBSET RuleMoves(game, KeyOf(arg.w).mk)
    OBVIOUS
  <1>8. ret' = <<v>> /\ history' \in [Transition -> Int]
    BY <1>1, <1>5 DEF Shape, Counted
  <1> HIDE DEF none, p, best
  <1>9. TableKept(game, table')
    BY <1>1, <1>2, <1>6, <1>7, StoreIs
  <1> QED
    BY <1>1, <1>4, <1>8, <1>9, ReturnValue

\* A frame as it is opened is one to keep.
LEMMA OpenedKept ==
  ASSUME Shape, stage = "search", ~ Over(arg.w), NEW kept, NEW f, Opened(f, kept), f.kids # <<>>
  PROVE  FrameKept(game, run, f)
  <1>1. /\ game \in Library /\ arg.w.bits = run.bits /\ RuleMoves(game, arg.w.mk) # {} /\ Mover(arg.w) = MoverAt(game, arg.w.mk)
    BY ArgIs
  <1>2. /\ f.w = arg.w /\ f.s = Mover(arg.w) /\ f.next = 1 /\ f.by = {} /\ f \in FrameSet(game)
    BY DEF Opened
  <1>3. f.kids \in Seq(KidSet(game))
    BY <1>2 DEF FrameSet
  <1>4. 1 <= Len(f.kids)
    <2>1. Len(f.kids) \in Nat /\ Len(f.kids) # 0
      BY <1>3, EmptySeq, LenProperties
    <2> QED
      BY <2>1
  <1>5. \A i \in 1 .. Len(f.kids) :
          f.kids[i].t \in RuleMoves(game, f.w.mk) /\ f.kids[i].w = WalkOf(game, RuleAfter(game, f.w.mk, f.kids[i].t), f.w.bits)
    BY <1>2 DEF Opened
  <1> QED
    BY <1>1, <1>2, <1>4, <1>5 DEF FrameKept

\* Expanding keeps the shape.
LEMMA ExpandShape ==
  ASSUME Shape, Expand
  PROVE  Shape'
  <1>1. stage = "search" /\ nodes' = nodes + 1 /\ game' = game /\ plan' = plan /\ call' = call /\ stop' = stop /\ ~ Over(arg.w)
    BY ExpandIs
  <1>2. CASE SpillNow /\ run.bits
    BY <1>1, <1>2, SpillShape
  <1>3. CASE \E t \in RuleMoves(game, arg.w.mk) : ExpandsWon(t)
    BY <1>1, <1>3, WonShape
  <1>4. CASE ExpandsLost
    BY <1>1, <1>4, LostShape
  <1>5. ASSUME NEW kept, ExpandsOpen(kept)
        PROVE  Shape'
    <2>1. PICK f : /\ Opened(f, kept)
                   /\ IF f.kids = <<>> THEN Childless(f)
                      ELSE stack' = Append(stack, f) /\ arg' = SearchNext(f) /\ table' = table /\ ret' = ret /\ stage' = stage /\ losses' = losses
      BY <1>5 DEF ExpandsOpen
    <2>2. run' = run /\ history' = history
      BY <1>5 DEF ExpandsOpen
    <2>3. f.w = arg.w /\ f \in FrameSet(game)
      BY <2>1 DEF Opened
    <2>4. CASE f.kids = <<>>
      BY <1>1, <2>1, <2>2, <2>3, <2>4, ChildlessShape
    <2>5. CASE f.kids # <<>>
      <3>1. FrameKept(game, run, f)
        BY <1>1, <2>1, <2>5, OpenedKept
      <3>2. /\ stack' = Append(stack, f) /\ arg' = SearchNext(f) /\ table' = table /\ ret' = ret /\ stage' = "search"
        BY <1>1, <2>1, <2>5
      <3>3. StackKept(game, run, stack) /\ TableKept(game, table) /\ f.w = Pending(game, run, stack).w
        BY <1>1, <2>3 DEF Shape, ArgKept
      <3>4. nodes' \in Int
        BY <1>1 DEF Shape, Counted
      <3> QED
        BY <1>1, <2>2, <3>1, <3>2, <3>3, <3>4, EnterShape
    <2> QED
      BY <2>4, <2>5
  <1> QED
    BY <1>2, <1>3, <1>4, <1>5, ExpandIs

\* The frame on top, and what is left without it.
LEMMA PopIs ==
  ASSUME NEW g, NEW rn, NEW st, StackKept(g, rn, st), st # <<>>
  PROVE  /\ StackKept(g, rn, SubSeq(st, 1, Len(st) - 1)) /\ Len(st) \in Nat \ {0} /\ Len(SubSeq(st, 1, Len(st) - 1)) = Len(st) - 1
         /\ \A i \in 1 .. Len(st) - 1 : SubSeq(st, 1, Len(st) - 1)[i] = st[i]
         /\ \A i \in 1 .. Len(st) : AskedAt(g, rn, SubSeq(st, 1, Len(st) - 1), i) = AskedAt(g, rn, st, i)
         /\ Pending(g, rn, SubSeq(st, 1, Len(st) - 1)) = AskedAt(g, rn, st, Len(st))
         /\ FrameKept(g, rn, st[Len(st)]) /\ st[Len(st)].w = Pending(g, rn, SubSeq(st, 1, Len(st) - 1)).w
  <1> DEFINE n == Len(st)
             m == Len(st) - 1
             s2 == SubSeq(st, 1, m)
  <1>1. st \in Seq(FrameSet(g)) /\ \A i \in 1 .. n : FrameKept(g, rn, st[i]) /\ st[i].w = AskedAt(g, rn, st, i).w
    BY DEF StackKept
  <1>2. n \in Nat \ {0} /\ m \in 0 .. n /\ n = m + 1
    <2>1. n \in Nat /\ n # 0
      BY <1>1, EmptySeq, LenProperties
    <2> QED
      BY <2>1
  <1>3. s2 \in Seq(FrameSet(g)) /\ Len(s2) = m /\ \A i \in 1 .. m : s2[i] = st[i]
    <2>1. m \in 0 .. Len(st)
      BY <1>2
    <2> HIDE DEF m
    <2>2. \A i \in 1 .. m : st[i] \in FrameSet(g)
      <3> TAKE i \in 1 .. m
      <3>1. i \in 1 .. Len(st)
        BY <2>1, LenProperties
      <3> QED
        BY <1>1, <3>1, ElementOfSeq
    <2> DEFINE one == 1
    <2>3. one \in Int /\ one = 1 /\ m \in Nat
      BY <2>1
    <2>4. s2 = [i \in 1 .. m |-> st[i]]
      BY <2>3, SMT
    <2> HIDE DEF s2
    <2>5. Len(s2) = m
      BY <2>3, <2>4
    <2>6. s2 \in Seq(FrameSet(g))
      BY <2>2, <2>3, <2>4
    <2> QED
      BY <2>4, <2>5, <2>6
  <1> HIDE DEF s2, m, n
  <1>4. \A i \in 1 .. n : AskedAt(g, rn, s2, i) = AskedAt(g, rn, st, i)
    <2> TAKE i \in 1 .. n
    <2>1. i \in Nat \ {0} /\ \A j \in 1 .. i : j < i => s2[j] = st[j]
      BY <1>2, <1>3
    <2> QED
      BY <2>1, AskedBelow
  <1>5. Pending(g, rn, s2) = AskedAt(g, rn, st, n)
    <2>1. n \in 1 .. n
      BY <1>2
    <2> QED
      BY <1>2, <1>3, <1>4, <2>1 DEF Pending
  <1>6. StackKept(g, rn, s2)
    <2>1. \A i \in 1 .. m : i \in 1 .. n /\ s2[i] = st[i]
      BY <1>2, <1>3
    <2> QED
      BY <1>1, <1>3, <1>4, <2>1 DEF StackKept
  <1>7. FrameKept(g, rn, st[n]) /\ st[n].w = Pending(g, rn, s2).w
    <2>1. n \in 1 .. n
      BY <1>2
    <2> QED
      BY <1>1, <1>5, <2>1
  <1> QED
    BY <1>2, <1>3, <1>4, <1>5, <1>6, <1>7 DEF n, m, s2

\* What a frame is once it learned v.
\* The window of a frame, once v is known of a kid.
Turns(f, l, v) ==
  /\ f.s = 1 => l.a = (IF f.a <= v THEN v ELSE f.a) /\ l.b = f.b
  /\ f.s = -1 => l.a = f.a /\ l.b = (IF f.b <= v THEN f.b ELSE v)

\* What a frame is once it learned v of its next kid.
LEMMA LearnedIs ==
  ASSUME NEW g, NEW f \in FrameSet(g), f.next \in 1 .. Len(f.kids), NEW v \in Int
  PROVE  /\ Learned(f, v) \in FrameSet(g)
         /\ Learned(f, v).w = f.w /\ Learned(f, v).s = f.s /\ Learned(f, v).a0 = f.a0 /\ Learned(f, v).b0 = f.b0
         /\ Learned(f, v).next = f.next /\ Learned(f, v).kids = f.kids
         /\ Improves(f, v) => Learned(f, v).best = <<v>>
         /\ ~ Improves(f, v) => Learned(f, v).best = f.best
         /\ Learned(f, v).by \subseteq {f.kids[f.next].t} \cup f.by
         /\ f.s = 1 => Learned(f, v).a = Max({f.a, v}) /\ Learned(f, v).b = f.b
         /\ f.s = -1 => Learned(f, v).a = f.a /\ Learned(f, v).b = Min({f.b, v})
         /\ Max({f.a, v}) = (IF f.a <= v THEN v ELSE f.a) /\ Min({f.b, v}) = (IF f.b <= v THEN f.b ELSE v)
         /\ Learned(f, v).best # <<>>
         /\ Turns(f, Learned(f, v), v)
  <1> DEFINE best == IF Improves(f, v) THEN <<v>> ELSE f.best
             by == IF Improves(f, v) THEN {f.kids[f.next].t} ELSE f.by
             a == IF f.s > 0 THEN Max({f.a, v}) ELSE f.a
             b == IF f.s > 0 THEN f.b ELSE Min({f.b, v})
  <1>1. Learned(f, v) = [f EXCEPT !.best = best, !.by = by, !.a = a, !.b = b]
    BY DEF Learned
  <1>2. f.kids \in Seq(KidSet(g)) /\ f.a \in Int /\ f.b \in Int /\ f.best \in Seq(Int) /\ f.by \in SUBSET Transition /\ f.s \in {-1, 1}
    BY DEF FrameSet
  <1>3. f.kids[f.next].t \in Transition
    <2>1. f.kids[f.next] \in KidSet(g)
      BY <1>2, ElementOfSeq
    <2> QED
      BY <2>1 DEF KidSet
  <1>4. Max({f.a, v}) = (IF f.a <= v THEN v ELSE f.a) /\ Min({f.b, v}) = (IF f.b <= v THEN f.b ELSE v)
    BY <1>2, MinTwo, MaxTwo
  <1>5. best \in Seq(Int) /\ by \in SUBSET Transition /\ a \in Int /\ b \in Int
    <2>1. <<v>> \in Seq(Int)
      OBVIOUS
    <2>2. best \in Seq(Int)
      BY <1>2, <2>1
    <2>3. by \in SUBSET Transition
      BY <1>2, <1>3
    <2>4. a \in Int /\ b \in Int
      BY <1>2, <1>4
    <2> QED
      BY <2>2, <2>3, <2>4
  <1>6. best # <<>>
    BY DEF Improves
  <1>c. (Improves(f, v) => best = <<v>>) /\ (~ Improves(f, v) => best = f.best) /\ by \subseteq {f.kids[f.next].t} \cup f.by
    OBVIOUS
  <1>7. (f.s = 1 => a = Max({f.a, v}) /\ b = f.b) /\ (f.s = -1 => a = f.a /\ b = Min({f.b, v}))
    OBVIOUS
  <1> HIDE DEF best, by, a, b
  <1>8. Learned(f, v) \in FrameSet(g)
    BY <1>1, <1>5 DEF FrameSet
  <1>9. /\ Learned(f, v).w = f.w /\ Learned(f, v).s = f.s /\ Learned(f, v).a0 = f.a0 /\ Learned(f, v).b0 = f.b0
        /\ Learned(f, v).next = f.next /\ Learned(f, v).kids = f.kids
        /\ Learned(f, v).best = best /\ Learned(f, v).by = by /\ Learned(f, v).a = a /\ Learned(f, v).b = b
    BY <1>1 DEF FrameSet
  <1>10. Learned(f, v).best # <<>>
    BY <1>6, <1>9
  <1>11. Turns(f, Learned(f, v), v)
    BY <1>4, <1>7, <1>9 DEF Turns
  <1> QED
    BY <1>4, <1>c, <1>7, <1>8, <1>9, <1>10, <1>11

\* A frame that learned a value of a kid stays one to keep, and so does the one
\* about its next kid.
LEMMA LearnedKept ==
  ASSUME NEW g, NEW rn, NEW f, FrameKept(g, rn, f), NEW v \in Int
  PROVE  /\ FrameKept(g, rn, Learned(f, v))
         /\ f.next < Len(f.kids) => /\ FrameKept(g, rn, [Learned(f, v) EXCEPT !.next = f.next + 1])
                                    /\ [Learned(f, v) EXCEPT !.next = f.next + 1].w = f.w
  <1> DEFINE l == Learned(f, v)
             n == f.next + 1
             on == [l EXCEPT !.next = n]
  <1>1. f \in FrameSet(g) /\ f.next \in Int /\ 1 <= f.next /\ f.next <= Len(f.kids) /\ f.kids \in Seq(KidSet(g))
    BY DEF FrameKept, FrameSet
  <1>2. f.next \in 1 .. Len(f.kids)
    BY <1>1, LenProperties
  <1>3. l \in FrameSet(g) /\ l.w = f.w /\ l.s = f.s /\ l.next = f.next /\ l.kids = f.kids
        /\ l.by \subseteq {f.kids[f.next].t} \cup f.by
    BY <1>1, <1>2, LearnedIs
  <1> HIDE DEF l
  <1>4. f.kids[f.next].t \in RuleMoves(g, f.w.mk)
    BY <1>2 DEF FrameKept
  <1>5. l.by \subseteq RuleMoves(g, f.w.mk)
    BY <1>3, <1>4 DEF FrameKept
  <1>6. FrameKept(g, rn, l)
    BY <1>1, <1>3, <1>5 DEF FrameKept
  <1>n. n \in Int /\ n = f.next + 1
    BY <1>1
  <1> HIDE DEF n
  <1>7. ASSUME f.next < Len(f.kids)
        PROVE  FrameKept(g, rn, on) /\ on.w = f.w
    <2>1. on \in FrameSet(g) /\ on.w = l.w /\ on.s = l.s /\ on.kids = l.kids /\ on.by = l.by /\ on.next = n
      BY <1>3, <1>n DEF FrameSet
    <2> HIDE DEF on
    <2>2. 1 <= on.next /\ on.next <= Len(on.kids)
      BY <1>1, <1>3, <1>7, <1>n, <2>1, LenProperties
    <2> QED
      BY <1>3, <1>6, <2>1, <2>2 DEF FrameKept
  <1> QED
    BY <1>6, <1>7 DEF l, n

\* The frame on top of a stack, and the rest.
LEMMA TopIs ==
  ASSUME Shape, stack # <<>>
  PROVE  /\ game \in Library /\ TableKept(game, table)
         /\ StackKept(game, run, stack) /\ StackKept(game, run, Below) /\ FrameKept(game, run, Top) /\ Top.w = Pending(game, run, Below).w
         /\ Top \in FrameSet(game) /\ Top.next \in 1 .. Len(Top.kids) /\ Len(Top.kids) \in Nat
         /\ Top.w.mk \in DOMAIN game.worth /\ KeyOf(Top.w) \in KeySet(game) /\ KeyOf(Top.w).mk = Top.w.mk
  <1>1. game \in Library /\ TableKept(game, table) /\ StackKept(game, run, stack)
    BY DEF Shape, Fixed
  <1>2. StackKept(game, run, Below) /\ FrameKept(game, run, Top) /\ Top.w = Pending(game, run, Below).w
    BY <1>1, PopIs DEF Below, Top
  <1>3. Top \in FrameSet(game) /\ Top.next \in Int /\ 1 <= Top.next /\ Top.next <= Len(Top.kids) /\ Top.kids \in Seq(KidSet(game))
        /\ Top.w \in FaithfulWalks(game)
    BY <1>2 DEF FrameKept, FrameSet
  <1>4. Top.next \in 1 .. Len(Top.kids) /\ Len(Top.kids) \in Nat
    BY <1>3, LenProperties
  <1>5. Top.w.mk \in DOMAIN game.worth /\ Top.w.bits \in BOOLEAN
    BY <1>3, FaithfulIs
  <1>6. KeyOf(Top.w) \in KeySet(game) /\ KeyOf(Top.w).mk = Top.w.mk
    BY <1>5 DEF KeyOf, KeySet
  <1> QED
    BY <1>1, <1>2, <1>3, <1>4, <1>5, <1>6

\* Going on with the next kid keeps the shape.
LEMMA ResumeShape ==
  ASSUME Shape, Resume
  PROVE  Shape'
  <1> DEFINE v == ret[1]
             f == Learned(Top, v)
             on == [f EXCEPT !.next = f.next + 1]
             n == [f EXCEPT !.next = Top.next + 1]
  <1>1. /\ game' = game /\ plan' = plan /\ table' = table /\ history' = history /\ call' = call /\ run' = run /\ ret' = ret
        /\ nodes' = nodes /\ stop' = stop /\ stage = "back" /\ stage' = "search" /\ stack # <<>> /\ ret # <<>>
        /\ f.next < Len(f.kids) /\ stack' = Append(Below, on) /\ arg' = SearchNext(on)
    BY DEF Resume
  <1>2. /\ TableKept(game, table) /\ StackKept(game, run, Below) /\ FrameKept(game, run, Top) /\ Top.w = Pending(game, run, Below).w
        /\ Top \in FrameSet(game) /\ Top.next \in 1 .. Len(Top.kids) /\ Len(Top.kids) \in Nat
    BY <1>1, TopIs
  <1>3. v \in Int
    <2>1. ret \in Seq(Int)
      BY DEF Shape, Counted
    <2>2. Len(ret) \in Nat /\ Len(ret) # 0
      BY <1>1, <2>1, EmptySeq, LenProperties
    <2> QED
      BY <2>1, <2>2
  <1>4. f.next = Top.next /\ f.kids = Top.kids
    BY <1>2, <1>3, LearnedIs
  <1>5. on = n
    BY <1>4
  <1>6. FrameKept(game, run, n) /\ n.w = Top.w
    <2>1. Top.next < Len(Top.kids)
      BY <1>1, <1>4
    <2> QED
      BY <1>2, <1>3, <2>1, LearnedKept
  <1> HIDE DEF v, f, on, n
  <1>7. nodes' \in Int
    BY <1>1 DEF Shape, Counted
  <1>8. TableKept(game, table') /\ stage \in {"search", "back"} /\ n.w = Pending(game, run, Below).w
    BY <1>1, <1>2, <1>6
  <1>9. stack' = Append(Below, n) /\ arg' = SearchNext(n)
    BY <1>1, <1>5
  <1> QED
    BY <1>1, <1>2, <1>6, <1>7, <1>8, <1>9, EnterShape

\* A search that is left.
LEMMA PopShape ==
  ASSUME Shape, stage = "back", stage' = "back", stack # <<>>, stack' = Below, game' = game, plan' = plan, call' = call, run' = run,
         nodes' = nodes, stop' = stop, TableKept(game, table'), history' \in [Transition -> Int], ret' \in Seq(Int), ret' # <<>> \/ ret' = ret
  PROVE  Shape'
  <1>1. Fixed /\ RunKept(game, plan, run) /\ IndexKept(game, "back", run) /\ CallKept(game, plan, "back", run, call, ret, nodes, stop) /\ Counted
    BY DEF Shape, Searching
  <1>2. StackKept(game, run, Below)
    BY TopIs
  <1>3. CallKept(game, plan, "back", run, call, ret', nodes, stop)
    BY <1>1 DEF CallKept, Searching
  <1>4. CallKept(game', plan', stage', run', call', ret', nodes', stop')
    BY <1>3
  <1>5. Counted'
    BY <1>1 DEF Counted, Searching
  <1> QED
    BY <1>1, <1>2, <1>4, <1>5 DEF Shape, Fixed, Searching

\* What a frame shows of its position is two numbers.
LEMMA ProvedInts ==
  ASSUME game \in Library, NEW f, f.best[1] \in Int
  PROVE  Proved(f)[1] \in Int /\ Proved(f)[2] \in Int
  <1>1. Least \in Int /\ Most \in Int
    BY BoundIs
  <1>2. Proved(f) = <<Least, f.best[1]>> \/ Proved(f) = <<f.best[1], Most>> \/ Proved(f) = <<f.best[1], f.best[1]>>
    BY DEF Proved
  <1> DEFINE p == Proved(f)
  <1> HIDE DEF p
  <1>3. p = <<Least, f.best[1]>> \/ p = <<f.best[1], Most>> \/ p = <<f.best[1], f.best[1]>>
    BY <1>2 DEF p
  <1>4. p[1] \in Int /\ p[2] \in Int
    BY <1>1, <1>3
  <1> QED
    BY <1>4 DEF p

\* Leaving a frame keeps the shape.
LEMMA LeaveShape ==
  ASSUME Shape, Leave
  PROVE  Shape'
  <1> DEFINE v == ret[1]
             f == Learned(Top, v)
  <1>1. /\ game' = game /\ plan' = plan /\ call' = call /\ run' = run /\ ret' = f.best
        /\ nodes' = nodes /\ stop' = stop /\ stage = "back" /\ stage' = "back" /\ stack # <<>> /\ ret # <<>> /\ stack' = Below
        /\ Store(KeyOf(f.w), Proved(f)[1], Proved(f)[2], f.by)
        /\ IF f.a >= f.b THEN Cutoff(f.kids[f.next].t) ELSE history' = history
    BY DEF Leave
  <1>2. /\ game \in Library /\ TableKept(game, table) /\ FrameKept(game, run, Top)
        /\ Top \in FrameSet(game) /\ Top.next \in 1 .. Len(Top.kids) /\ KeyOf(Top.w) \in KeySet(game) /\ KeyOf(Top.w).mk = Top.w.mk
    BY <1>1, TopIs
  <1>3. v \in Int
    <2>1. ret \in Seq(Int)
      BY DEF Shape, Counted
    <2>2. Len(ret) \in Nat /\ Len(ret) # 0
      BY <1>1, <2>1, EmptySeq, LenProperties
    <2> QED
      BY <2>1, <2>2
  <1>4. FrameKept(game, run, f) /\ f.w = Top.w /\ f \in FrameSet(game) /\ f.best # <<>>
    <2>1. FrameKept(game, run, f)
      BY <1>2, <1>3, LearnedKept
    <2>2. f.w = Top.w /\ f \in FrameSet(game) /\ f.best # <<>>
      BY <1>2, <1>3, LearnedIs
    <2> QED
      BY <2>1, <2>2
  <1> HIDE DEF v, f
  <1>5. f.best \in Seq(Int) /\ f.best[1] \in Int
    <2>1. f.best \in Seq(Int)
      BY <1>4 DEF FrameSet
    <2>2. Len(f.best) \in Nat /\ Len(f.best) # 0
      BY <1>4, <2>1, EmptySeq, LenProperties
    <2> QED
      BY <2>1, <2>2
  <1>6. f.by \in SUBSET RuleMoves(game, KeyOf(f.w).mk)
    BY <1>2, <1>4 DEF FrameKept
  <1>7. TableKept(game, table')
    <2>1. Proved(f)[1] \in Int /\ Proved(f)[2] \in Int
      BY <1>2, <1>5, ProvedInts
    <2> QED
      BY <1>1, <1>2, <1>4, <1>6, <2>1, StoreIs
  <1>8. history' \in [Transition -> Int]
    <2>1. history \in [Transition -> Int]
      BY DEF Shape, Counted
    <2> QED
      BY <1>1, <2>1, CutoffType
  <1> QED
    BY <1>1, <1>4, <1>5, <1>7, <1>8, PopShape

\* Unwinding keeps the shape.
LEMMA UnwindShape ==
  ASSUME Shape, Unwind
  PROVE  Shape'
  <1>1. /\ game' = game /\ plan' = plan /\ table' = table /\ history' = history /\ call' = call /\ run' = run /\ ret' = ret
        /\ nodes' = nodes /\ stop' = stop /\ stage = "back" /\ stage' = "back" /\ stack # <<>> /\ stack' = Below
    BY DEF Unwind
  <1>2. TableKept(game, table') /\ history' \in [Transition -> Int] /\ ret' \in Seq(Int)
    BY <1>1 DEF Shape, Counted
  <1> QED
    BY <1>1, <1>2, PopShape

\* Which values are left between i and j after a test of mtd_f returned v.
RaisedBy(i, j, v) == Max({i, Min({From(v), j})})
CutBy(i, j, v) == Max({i, Min({j, Max({UpTo(v), 1})})})

\* Each answer of mtd_f's test leaves fewer values, and some.
LEMMA CutsAre ==
  ASSUME game \in Library, NEW i \in Int, NEW j \in Int, NEW k \in Int, 1 <= i, i <= k, k < j, j <= Len(Values), NEW v \in Int
  PROVE  /\ v >= Values[k + 1] => k < RaisedBy(i, j, v) /\ RaisedBy(i, j, v) <= j
         /\ v < Values[k + 1] => i <= CutBy(i, j, v) /\ CutBy(i, j, v) <= k
         /\ RaisedBy(i, j, v) \in Int /\ CutBy(i, j, v) \in Int
         /\ \A q \in i .. j : (v <= Values[q] => RaisedBy(i, j, v) <= q) /\ (Values[q] <= v => q <= CutBy(i, j, v))
  <1> DEFINE n == Len(Values)
             up == UpTo(v)
             from == From(v)
  <1>1. n \in Nat /\ \A q \in 1 .. n : Values[q] \in Int
    BY ValuesIs DEF Values
  <1>2. up \in 0 .. n /\ from \in 1 .. n + 1
        /\ \A q \in 1 .. n : (Values[q] <= v <=> q <= up) /\ (Values[q] < v <=> q < from)
    BY PlacesAre
  <1>3. RaisedBy(i, j, v) = Max({i, Min({from, j})}) /\ CutBy(i, j, v) = Max({i, Min({j, Max({up, 1})})})
    BY DEF RaisedBy, CutBy
  <1> HIDE DEF n, up, from
  <1>4. from \in Int /\ up \in Int /\ 1 <= from /\ 0 <= up
    BY <1>1, <1>2
  <1> DEFINE least == Min({from, j})
             most == Max({up, 1})
             below == Min({j, most})
  <1>5. least = (IF from <= j THEN from ELSE j) /\ least \in Int
    BY <1>4, MinTwo
  <1>6. most \in Int /\ most = IF up <= 1 THEN 1 ELSE up
    BY <1>4, MaxTwo
  <1> HIDE DEF least, most
  <1>7. below = (IF j <= most THEN j ELSE most) /\ below \in Int
    BY <1>6, MinTwo
  <1> HIDE DEF below
  <1>8. RaisedBy(i, j, v) = (IF i <= least THEN least ELSE i) /\ CutBy(i, j, v) = (IF i <= below THEN below ELSE i)
    BY <1>3, <1>5, <1>7, MaxTwo DEF least, below, most
  <1>9. RaisedBy(i, j, v) \in Int /\ CutBy(i, j, v) \in Int
    BY <1>5, <1>7, <1>8
  <1>10. k + 1 \in 1 .. n /\ j \in 1 .. n
    BY <1>1 DEF n
  <1>11. ASSUME v >= Values[k + 1]
         PROVE  k < RaisedBy(i, j, v) /\ RaisedBy(i, j, v) <= j
    <2>1. ~ (Values[k + 1] > v)
      BY <1>1, <1>10, <1>11
    <2>2. \A q \in 1 .. n : q < k + 1 => Values[q] < v
      <3> TAKE q \in 1 .. n
      <3> HAVE q < k + 1
      <3>1. Values[q] < Values[k + 1]
        BY <1>10, ValuesAscend DEF n, Values
      <3> QED
        BY <1>1, <1>10, <1>11, <3>1
    <2>3. k \in 1 .. n
      BY <1>1, <1>10
    <2>4. Values[k] < v
      BY <2>2, <2>3
    <2>5. k < from
      BY <1>2, <2>3, <2>4
    <2> QED
      BY <1>4, <1>5, <1>8, <2>5
  <1>12. ASSUME v < Values[k + 1]
         PROVE  i <= CutBy(i, j, v) /\ CutBy(i, j, v) <= k
    <2>1. ~ (Values[k + 1] <= v)
      BY <1>1, <1>10, <1>12
    <2>2. ~ (k + 1 <= up)
      BY <1>2, <1>10, <2>1
    <2> QED
      BY <1>4, <1>6, <1>7, <1>8, <2>2
  <1>13. ASSUME NEW q \in i .. j, v <= Values[q]
         PROVE  RaisedBy(i, j, v) <= q
    <2>1. q \in 1 .. n
      BY <1>1, <1>10
    <2>2. ~ (Values[q] < v)
      BY <1>1, <1>13, <2>1
    <2>3. ~ (q < from)
      BY <1>2, <2>1, <2>2
    <2> QED
      BY <1>4, <1>5, <1>8, <2>3
  <1>14. ASSUME NEW q \in i .. j, Values[q] <= v
         PROVE  q <= CutBy(i, j, v)
    <2>1. q \in 1 .. n
      BY <1>1, <1>10
    <2>2. q <= up
      BY <1>2, <1>14, <2>1
    <2> QED
      BY <1>4, <1>6, <1>7, <1>8, <2>2
  <1> QED
    BY <1>9, <1>11, <1>12, <1>13, <1>14

\* What is done with what a search at the root returned: the run ends, or goes
\* on with a wider window, or with the values the answer leaves.
DecidesEnd ==
  /\ stage' = "done" /\ run' = run /\ ret' = ret
  /\ run.mode = "range" \/ (run.mode = "aspire" /\ WindowOf(game, run)[1] < ret[1] /\ ret[1] < WindowOf(game, run)[2])
DecidesWiden == run.mode = "aspire" /\ stage' = "test" /\ run' = [run EXCEPT !.mode = "range"] /\ ret' = ret
DecidesStep(i, j) ==
  /\ run.mode = "steps"
  /\ \/ 2 * ret[1] > Values[run.k] + Values[run.k + 1] /\ i = run.k + 1 /\ j = run.j
     \/ ~ (2 * ret[1] > Values[run.k] + Values[run.k + 1]) /\ i = run.i /\ j = run.k
  /\ \/ i >= j /\ stage' = "done" /\ ret' = <<Values[i]>> /\ run' = run
     \/ i < j /\ stage' = "test" /\ ret' = ret /\ \E k \in {i, j - 1} : StepsTo(run, run', i, j, k)
DecidesRaise ==
  /\ run.mode = "mtd_f" /\ stage' = "test" /\ ret' = ret /\ ret[1] >= WindowOf(game, run)[2]
  /\ \E i \in {RaisedBy(run.i, run.j, ret[1])} : run' = [run EXCEPT !.i = i, !.f = {i : x \in run.f}]
DecidesCut ==
  /\ run.mode = "mtd_f" /\ stage' = "test" /\ ret' = ret /\ ~ (ret[1] >= WindowOf(game, run)[2])
  /\ \E j \in {CutBy(run.i, run.j, ret[1])} : run' = [run EXCEPT !.j = j, !.f = {j : x \in run.f}]

\* What Decide does with an answer: end, widen, step, or cut from above or below.
LEMMA DecideIs ==
  ASSUME Shape, Decide
  PROVE  /\ game' = game /\ plan' = plan /\ table' = table /\ history' = history /\ call' = call /\ stack' = stack
         /\ nodes' = nodes /\ stop' = stop /\ stage = "back" /\ stack = <<>> /\ ret # <<>>
         /\ DecidesEnd \/ DecidesWiden \/ (\E i, j : DecidesStep(i, j)) \/ DecidesRaise \/ DecidesCut
  <1> DEFINE v == ret[1]
             a == WindowOf(game, run)[1]
             b == WindowOf(game, run)[2]
             up == 2 * v > a + b
             i == IF up THEN run.k + 1 ELSE run.i
             j == IF up THEN run.j ELSE run.k
             raised == RaisedBy(run.i, run.j, v)
             cut == CutBy(run.i, run.j, v)
  <1>1. /\ game' = game /\ plan' = plan /\ table' = table /\ history' = history /\ call' = call /\ stack' = stack
        /\ nodes' = nodes /\ stop' = stop /\ stage = "back" /\ stack = <<>> /\ ret # <<>>
    BY DEF Decide
  <1>2. run.mode \in {"range", "aspire", "steps", "mtd_f"}
    BY RunIs DEF RunSet
  <1>3. Window = WindowOf(game, run)
    BY DEF Window, WindowOf, Least, Most, Values
  <1>4. CASE run.mode = "range"
    <2>1. stage' = "done" /\ run' = run /\ ret' = ret
      BY <1>4 DEF Decide
    <2> QED
      BY <1>1, <1>4, <2>1 DEF DecidesEnd
  <1>5. CASE run.mode = "aspire"
    <2>1. CASE a < v /\ v < b
      <3>1. stage' = "done" /\ run' = run /\ ret' = ret
        BY <1>3, <1>5, <2>1 DEF Decide
      <3> QED
        BY <1>1, <1>5, <2>1, <3>1 DEF DecidesEnd
    <2>2. CASE ~ (a < v /\ v < b)
      <3>1. stage' = "test" /\ run' = [run EXCEPT !.mode = "range"] /\ ret' = ret
        BY <1>3, <1>5, <2>2 DEF Decide
      <3> QED
        BY <1>1, <1>5, <3>1 DEF DecidesWiden
    <2> QED
      BY <2>1, <2>2
  <1>6. CASE run.mode = "steps"
    <2>1. a = Values[run.k] /\ b = Values[run.k + 1]
      BY <1>6 DEF WindowOf, Values
    <2>2. IF i >= j THEN stage' = "done" /\ ret' = <<Values[i]>> /\ run' = run
          ELSE stage' = "test" /\ run' = [run EXCEPT !.i = i, !.j = j, !.k = IF up THEN i ELSE j - 1] /\ ret' = ret
      <3>1. run.i \in Int /\ run.j \in Int /\ run.k \in Int
        BY RunIs DEF RunSet
      <3>2. CASE up
        <4> DEFINE l == run.k + 1
        <4>1. i = l /\ j = run.j /\ l \in Int
          BY <3>1, <3>2
        <4>2. IF l >= run.j THEN stage' = "done" /\ ret' = <<Values[l]>> /\ run' = run
              ELSE stage' = "test" /\ run' = [run EXCEPT !.i = l, !.j = run.j, !.k = l] /\ ret' = ret
          <5>1. 2 * ret[1] > Window[1] + Window[2]
            BY <1>3, <3>2
          <5>2. CASE l >= run.j
            <6>n. ~ (l < run.j) /\ run.mode # "range" /\ run.mode # "aspire" /\ run.mode # "mtd_f"
              BY <1>6, <3>1, <5>2
            <6>0. stage' = "done"
              BY <1>6, <3>1, <5>1, <5>2, <6>n, SMTT(60) DEF Decide
            <6>r. run' = run
              BY <1>6, <3>1, <5>1, <5>2, <6>0 DEF Decide
            <6>1. stage' = "done" /\ run' = run
              BY <6>0, <6>r
            <6>2. ret' = <<Values[l]>>
              BY <1>6, <3>1, <5>1, <5>2, <6>1 DEF Decide
            <6> QED
              BY <5>2, <6>1, <6>2
          <5>3. CASE l < run.j
            BY <1>6, <3>1, <5>1, <5>3 DEF Decide
          <5> QED
            BY <3>1, <5>2, <5>3
        <4> HIDE DEF l
        <4> QED
          BY <3>2, <4>1, <4>2
      <3>3. CASE ~ up
        <4> DEFINE l == run.k - 1
        <4>1. i = run.i /\ j = run.k /\ l \in Int
          BY <3>1, <3>3
        <4>2. IF run.i >= run.k THEN stage' = "done" /\ ret' = <<Values[run.i]>> /\ run' = run
              ELSE stage' = "test" /\ run' = [run EXCEPT !.i = run.i, !.j = run.k, !.k = l] /\ ret' = ret
          <5>1. ~ (2 * ret[1] > Window[1] + Window[2])
            BY <1>3, <3>3
          <5>2. CASE run.i >= run.k
            <6>n. ~ (run.i < run.k) /\ run.mode # "range" /\ run.mode # "aspire" /\ run.mode # "mtd_f"
              BY <1>6, <3>1, <5>2
            <6>0. stage' = "done"
              BY <1>6, <3>1, <5>1, <5>2, <6>n, SMTT(60) DEF Decide
            <6>r. run' = run
              BY <1>6, <3>1, <5>1, <5>2, <6>0 DEF Decide
            <6>1. stage' = "done" /\ run' = run
              BY <6>0, <6>r
            <6>2. ret' = <<Values[run.i]>>
              BY <1>6, <3>1, <5>1, <5>2, <6>1 DEF Decide
            <6> QED
              BY <5>2, <6>1, <6>2
          <5>3. CASE run.i < run.k
            BY <1>6, <3>1, <5>1, <5>3 DEF Decide
          <5> QED
            BY <3>1, <5>2, <5>3
        <4> QED
          BY <3>3, <4>1, <4>2
      <3> QED
        BY <3>2, <3>3
    <2>3. i \in Int /\ j \in Int
      BY RunIs DEF RunSet
    <2>4. \/ 2 * ret[1] > Values[run.k] + Values[run.k + 1] /\ i = run.k + 1 /\ j = run.j
          \/ ~ (2 * ret[1] > Values[run.k] + Values[run.k + 1]) /\ i = run.i /\ j = run.k
      BY <2>1
    <2> DEFINE k == IF up THEN i ELSE j - 1
    <2>5. k \in {i, j - 1}
      OBVIOUS
    <2>6. \/ i >= j /\ stage' = "done" /\ ret' = <<Values[i]>> /\ run' = run
          \/ i < j /\ stage' = "test" /\ ret' = ret /\ run' = [run EXCEPT !.i = i, !.j = j, !.k = k]
      BY <2>2, <2>3
    <2> HIDE DEF i, j, k
    <2>7. DecidesStep(i, j)
      BY <1>6, <2>4, <2>5, <2>6 DEF DecidesStep, StepsTo
    <2> QED
      BY <1>1, <2>7
  <1>7. CASE run.mode = "mtd_f"
    <2>1. stage' = "test" /\ ret' = ret
      BY <1>7 DEF Decide
    <2>2. run' = IF v >= b
                 THEN [run EXCEPT !.i = raised, !.f = {raised : x \in run.f}]
                 ELSE [run EXCEPT !.j = cut, !.f = {cut : x \in run.f}]
      BY <1>3, <1>7 DEF Decide, RaisedBy, CutBy
    <2>3. CASE v >= b
      BY <1>1, <1>7, <2>1, <2>2, <2>3 DEF DecidesRaise
    <2>4. CASE ~ (v >= b)
      BY <1>1, <1>7, <2>1, <2>2, <2>4 DEF DecidesCut
    <2> QED
      BY <2>3, <2>4
  <1> QED
    BY <1>2, <1>4, <1>5, <1>6, <1>7

\* A run goes on with another test, or ends with a value.
LEMMA AgainShape ==
  ASSUME Shape, stage \in {"run", "back"}, stack = <<>>, stage' = "test", game' = game, plan' = plan, table' = table, history' = history,
         call' = call, stack' = stack, nodes' = nodes, stop' = stop, ret' = ret,
         RunKept(game, plan, run'), run'.at = run.at, IndexKept(game, "test", run')
  PROVE  Shape'
  <1>1. Fixed /\ Counted /\ TableKept(game, table) /\ CallKept(game, plan, stage, run, call, ret, nodes, stop)
    BY DEF Shape
  <1>2. CallKept(game, plan, "test", run', call, ret, nodes, stop)
    <2>1. CASE stage = "run"
      BY <1>1, <2>1 DEF CallKept, Searching
    <2>2. CASE stage = "back"
      BY <1>1, <2>2 DEF CallKept, Searching
    <2> QED
      BY <2>1, <2>2
  <1>3. CallKept(game', plan', stage', run', call', ret', nodes', stop')
    BY <1>2
  <1>4. Counted'
    BY <1>1 DEF Counted, Searching
  <1> QED
    BY <1>1, <1>3, <1>4, EmptyStack DEF Shape, Fixed, Searching

\* A run that ends keeps the shape.
LEMMA EndShape ==
  ASSUME Shape, stage = "back", stack = <<>>, stage' = "done", game' = game, plan' = plan, table' = table, history' = history,
         call' = call, stack' = stack, nodes' = nodes, stop' = stop, run' = run, ret' \in Seq(Int), ret' # <<>> \/ Spent(call, nodes, stop)
  PROVE  Shape'
  <1>1. Fixed /\ Counted /\ TableKept(game, table) /\ RunKept(game, plan, run) /\ CallKept(game, plan, "back", run, call, ret, nodes, stop)
    BY DEF Shape
  <1>2. CallKept(game, plan, "done", run, call, ret', nodes, stop)
    BY <1>1 DEF CallKept, Searching
  <1>3. CallKept(game', plan', stage', run', call', ret', nodes', stop')
    BY <1>2
  <1>4. Counted'
    BY <1>1 DEF Counted, Searching
  <1> QED
    BY <1>1, <1>3, <1>4, EmptyStack DEF Shape, Fixed, Searching

\* An answer is a number.
LEMMA Answered ==
  ASSUME Shape, ret # <<>>
  PROVE  ret[1] \in Int /\ ret \in Seq(Int)
  <1>1. ret \in Seq(Int)
    BY DEF Shape, Counted
  <1>2. Len(ret) \in Nat /\ Len(ret) # 0
    BY <1>1, EmptySeq, LenProperties
  <1> QED
    BY <1>1, <1>2

\* After a test of mtd_f, what is left of the values.
LEMMA GapOf ==
  ASSUME NEW rn, RunKept(game, plan, rn), IndexKept(game, "back", rn), rn.mode = "mtd_f", game \in Library, NEW v \in Int
  PROVE  LET k == TestGap(rn.i, rn.j, rn.f)
         IN  /\ k \in Int /\ 1 <= rn.i /\ rn.i <= k /\ k < rn.j /\ rn.j <= Len(Values) /\ rn.i \in Int /\ rn.j \in Int
             /\ WindowOf(game, rn)[1] = Values[k] /\ WindowOf(game, rn)[2] = Values[k + 1] /\ Values[k] < Values[k + 1]
             /\ Values[k] \in Int /\ Values[k + 1] \in Int
  <1> DEFINE k == TestGap(rn.i, rn.j, rn.f)
  <1>1. rn.i \in 1 .. Len(Values) /\ rn.j \in 1 .. Len(Values) /\ rn.i < rn.j /\ rn.f \in SUBSET Int /\ AtMostOne(rn.f)
        /\ rn.i \in Int /\ rn.j \in Int /\ Len(Values) \in Nat
    <2>1. Len(Values) \in Nat
      BY ValuesIs DEF Values
    <2>2. rn.i <= rn.k /\ rn.k < rn.j /\ rn.i \in 1 .. Len(Values) /\ rn.j \in 1 .. Len(Values)
      BY DEF IndexKept, Values
    <2>3. rn.i \in Int /\ rn.j \in Int /\ rn.k \in Int /\ rn.f \in SUBSET Int /\ AtMostOne(rn.f)
      BY DEF RunKept, RunSet
    <2> QED
      BY <2>1, <2>2, <2>3
  <1>2. k \in rn.i .. rn.j - 1
    BY <1>1, GapIs
  <1>3. WindowOf(game, rn)[1] = Values[k] /\ WindowOf(game, rn)[2] = Values[k + 1]
    BY DEF WindowOf, Values
  <1> HIDE DEF k
  <1>4. k \in Int /\ 1 <= rn.i /\ rn.i <= k /\ k < rn.j /\ rn.j <= Len(Values)
    BY <1>1, <1>2
  <1>5. k \in 1 .. Len(Values) /\ k + 1 \in 1 .. Len(Values)
    BY <1>1, <1>4
  <1>6. Values[k] < Values[k + 1] /\ Values[k] \in Int /\ Values[k + 1] \in Int
    <2>1. k < k + 1
      BY <1>4
    <2> QED
      BY <1>5, <2>1, ValuesIs DEF Values
  <1> QED
    BY <1>1, <1>3, <1>4, <1>6 DEF k

\* Deciding keeps the shape.
LEMMA DecideShape ==
  ASSUME Shape, Decide
  PROVE  Shape'
  <1>1. /\ game' = game /\ plan' = plan /\ table' = table /\ history' = history /\ call' = call /\ stack' = stack
        /\ nodes' = nodes /\ stop' = stop /\ stage = "back" /\ stack = <<>> /\ ret # <<>>
        /\ DecidesEnd \/ DecidesWiden \/ (\E i, j : DecidesStep(i, j)) \/ DecidesRaise \/ DecidesCut
    BY DecideIs
  <1>2. /\ game \in Library /\ run \in RunSet(game) /\ RunKept(game, plan, run) /\ IndexKept(game, "back", run)
        /\ run.i \in Int /\ run.j \in Int /\ run.k \in Int /\ AtMostOne(run.f) /\ run.f \in SUBSET Int
    <2>1. game \in Library /\ run \in RunSet(game) /\ RunKept(game, plan, run)
      BY RunIs
    <2>2. IndexKept(game, "back", run)
      BY <1>1 DEF Shape, Searching
    <2> QED
      BY <2>1, <2>2 DEF RunSet, RunKept
  <1>3. ret[1] \in Int /\ ret \in Seq(Int)
    BY <1>1, Answered
  <1>n. Len(Values) \in Nat /\ Len(Values) = Len(game.values)
    BY <1>2, ValuesIs DEF Values
  <1>4. CASE DecidesEnd
    BY <1>1, <1>3, <1>4, EndShape DEF DecidesEnd
  <1>6. CASE DecidesWiden
    <2> DEFINE rn == [run EXCEPT !.mode = "range"]
    <2>1. run' = rn /\ stage' = "test" /\ ret' = ret
      BY <1>6 DEF DecidesWiden
    <2>2. rn \in RunSet(game) /\ rn.at = run.at /\ rn.ranked = run.ranked /\ rn.bits = run.bits /\ rn.f = run.f /\ rn.mode = "range"
      BY <1>2 DEF RunSet
    <2> HIDE DEF rn
    <2>3. RunKept(game, plan, rn)
      BY <1>2, <2>2, RunAgain
    <2>4. IndexKept(game, "test", rn)
      BY <1>2, <2>2 DEF IndexKept
    <2> QED
      BY <1>1, <2>1, <2>2, <2>3, <2>4, AgainShape
  <1>7. ASSUME NEW i, NEW j, DecidesStep(i, j)
        PROVE  Shape'
    <2>1. 1 <= run.i /\ run.i <= run.k /\ run.k < run.j /\ run.j <= Len(Values) /\ run.mode = "steps"
      BY <1>2, <1>7 DEF IndexKept, DecidesStep, Values
    <2>2. i \in Int /\ j \in Int /\ 1 <= i /\ i <= Len(Values) /\ j <= Len(Values) /\ i <= j
      BY <1>2, <1>n, <1>7, <2>1 DEF DecidesStep
    <2>3. CASE stage' = "done" /\ ret' = <<Values[i]>> /\ run' = run
      <3>1. Values[i] \in Int
        BY <1>2, <1>n, <2>2, ValuesIs DEF Values
      <3>2. ret' \in Seq(Int) /\ ret' # <<>>
        BY <2>3, <3>1
      <3> QED
        BY <1>1, <2>3, <3>2, EndShape
    <2>4. ASSUME NEW k \in {i, j - 1}, i < j, stage' = "test", ret' = ret, StepsTo(run, run', i, j, k)
          PROVE  Shape'
      <3>1. k \in Int /\ i <= k /\ k < j
        BY <2>2, <2>4
      <3>2. /\ run' \in RunSet(game) /\ run'.at = run.at /\ run'.ranked = run.ranked /\ run'.bits = run.bits /\ run'.f = run.f
            /\ run'.mode = "steps" /\ run'.i = i /\ run'.j = j /\ run'.k = k
        BY <1>2, <2>2, <2>4, <3>1, StepsAre
      <3>3. RunKept(game, plan, run')
        BY <1>2, <3>2, RunAgain
      <3>4. IndexKept(game, "test", run')
        BY <1>2, <2>2, <2>4, <3>1, <3>2 DEF IndexKept, Values
      <3> QED
        BY <1>1, <2>4, <3>2, <3>3, <3>4, AgainShape
    <2> QED
      BY <1>7, <2>3, <2>4 DEF DecidesStep
  <1>8. CASE DecidesRaise
    <2> DEFINE k == TestGap(run.i, run.j, run.f)
               i == RaisedBy(run.i, run.j, ret[1])
               f == {i : x \in run.f}
    <2>1. run.mode = "mtd_f" /\ stage' = "test" /\ ret' = ret /\ ret[1] >= WindowOf(game, run)[2]
          /\ run' = [run EXCEPT !.i = i, !.f = f]
      BY <1>8 DEF DecidesRaise
    <2>2. k \in Int /\ 1 <= run.i /\ run.i <= k /\ k < run.j /\ run.j <= Len(Values) /\ WindowOf(game, run)[2] = Values[k + 1]
      BY <1>2, <1>3, <2>1, GapOf
    <2> HIDE DEF k
    <2>3. i \in Int /\ k < i /\ i <= run.j
      <3>1. ret[1] >= Values[k + 1]
        BY <2>1, <2>2
      <3> QED
        BY <1>2, <1>3, <2>2, <3>1, CutsAre
    <2> HIDE DEF i
    <2>4. AtMostOne(f) /\ f \subseteq {i} /\ i \in 1 .. Len(Values) /\ f \in SUBSET Int
      BY <1>2, <1>n, <2>2, <2>3 DEF AtMostOne
    <2> HIDE DEF f
    <2> DEFINE rn == [run EXCEPT !.i = i, !.f = f]
    <2>5. rn \in RunSet(game) /\ rn.at = run.at /\ rn.ranked = run.ranked /\ rn.bits = run.bits /\ rn.f = f /\ rn.mode = "mtd_f"
          /\ rn.i = i /\ rn.j = run.j
      BY <1>2, <2>1, <2>3, <2>4 DEF RunSet
    <2>6. run' = rn
      BY <2>1
    <2> HIDE DEF rn
    <2>7. RunKept(game, plan, rn)
      BY <1>2, <2>4, <2>5, RunAgain
    <2>8. IndexKept(game, "test", rn)
      BY <1>2, <1>n, <2>1, <2>4, <2>5 DEF IndexKept
    <2> QED
      BY <1>1, <2>1, <2>5, <2>6, <2>7, <2>8, AgainShape
  <1>9. CASE DecidesCut
    <2> DEFINE k == TestGap(run.i, run.j, run.f)
               j == CutBy(run.i, run.j, ret[1])
               f == {j : x \in run.f}
    <2>1. run.mode = "mtd_f" /\ stage' = "test" /\ ret' = ret /\ ~ (ret[1] >= WindowOf(game, run)[2])
          /\ run' = [run EXCEPT !.j = j, !.f = f]
      BY <1>9 DEF DecidesCut
    <2>2. k \in Int /\ 1 <= run.i /\ run.i <= k /\ k < run.j /\ run.j <= Len(Values) /\ WindowOf(game, run)[2] = Values[k + 1] /\ Values[k + 1] \in Int
      BY <1>2, <1>3, <2>1, GapOf
    <2> HIDE DEF k
    <2>3. j \in Int /\ run.i <= j /\ j <= k
      <3>1. ret[1] < Values[k + 1]
        BY <1>3, <2>1, <2>2
      <3> QED
        BY <1>2, <1>3, <2>2, <3>1, CutsAre
    <2> HIDE DEF j
    <2>4. AtMostOne(f) /\ f \subseteq {j} /\ j \in 1 .. Len(Values) /\ f \in SUBSET Int
      BY <1>2, <1>n, <2>2, <2>3 DEF AtMostOne
    <2> HIDE DEF f
    <2> DEFINE rn == [run EXCEPT !.j = j, !.f = f]
    <2>5. rn \in RunSet(game) /\ rn.at = run.at /\ rn.ranked = run.ranked /\ rn.bits = run.bits /\ rn.f = f /\ rn.mode = "mtd_f"
          /\ rn.i = run.i /\ rn.j = j
      BY <1>2, <2>1, <2>3, <2>4 DEF RunSet
    <2>6. run' = rn
      BY <2>1
    <2> HIDE DEF rn
    <2>7. RunKept(game, plan, rn)
      BY <1>2, <2>4, <2>5, RunAgain
    <2>8. IndexKept(game, "test", rn)
      BY <1>2, <1>n, <2>1, <2>4, <2>5 DEF IndexKept
    <2> QED
      BY <1>1, <2>1, <2>5, <2>6, <2>7, <2>8, AgainShape
  <1> QED
    BY <1>1, <1>4, <1>6, <1>7, <1>8, <1>9

\* Bits could not hold a position, or the search was given up.
LEMMA NoValueShape ==
  ASSUME Shape, NoValue
  PROVE  Shape'
  <1>1. /\ game' = game /\ plan' = plan /\ table' = table /\ history' = history /\ call' = call /\ stack' = stack /\ ret' = ret
        /\ nodes' = nodes /\ stop' = stop /\ stage = "back" /\ stack = <<>> /\ ret = <<>>
    BY DEF NoValue
  <1>2. run \in RunSet(game) /\ RunKept(game, plan, run) /\ CallKept(game, plan, "back", run, call, ret, nodes, stop)
        /\ Fixed /\ Counted /\ TableKept(game, table)
    BY <1>1, RunIs DEF Shape
  <1>3. CASE run.bits /\ run.spilled
    <2> DEFINE no == FALSE
               rn == [run EXCEPT !.bits = no]
    <2>1. run' = rn /\ stage' = "run"
      BY <1>3 DEF NoValue
    <2>2. ~ rn.bits
      <3>1. "bits" \in DOMAIN run
        BY <1>2 DEF RunSet
      <3> QED
        BY <3>1, Zenon
    <2>3. no \in BOOLEAN
      OBVIOUS
    <2> HIDE DEF no
    <2>4. rn \in RunSet(game) /\ rn.at = run.at /\ rn.ranked = run.ranked /\ rn.f = run.f
      BY <1>2, <2>3 DEF RunSet
    <2> HIDE DEF rn
    <2>5. RunKept(game, plan, rn)
      BY <1>2, <2>2, <2>4 DEF RunKept
    <2>6. CallKept(game, plan, "run", rn, call, ret, nodes, stop)
      BY <1>2, <2>4 DEF CallKept, Searching
    <2>7. CallKept(game', plan', stage', run', call', ret', nodes', stop')
      BY <1>1, <2>1, <2>6
    <2>8. Counted'
      BY <1>1, <1>2, <2>1 DEF Counted
    <2> QED
      BY <1>1, <1>2, <2>1, <2>5, <2>7, <2>8, EmptyStack DEF Shape, Fixed, Searching
  <1>4. CASE ~ (run.bits /\ run.spilled)
    <2>1. run' = run /\ stage' = "done"
      BY <1>4 DEF NoValue
    <2>2. Spent(call, nodes, stop)
      BY <1>1, <1>2, <1>4 DEF CallKept
    <2>3. ret' \in Seq(Int)
      BY <1>1, <1>2 DEF Counted
    <2> QED
      BY <1>1, <2>1, <2>2, <2>3, EndShape
  <1> QED
    BY <1>3, <1>4

\* Between the runs of a call.
LEMMA CalledShape ==
  ASSUME Shape, stage \in {"done", "pick"}, stage' \in {"idle", "pick", "run"}, game' = game, plan' = plan, table' = table,
         history' = history, stack' = stack, nodes' \in Int, stop' = stop, ret' = ret, RunKept(game, plan, run'),
         CallKept(game, plan, stage', run', call', ret, nodes', stop)
  PROVE  Shape'
  <1>1. Fixed /\ Counted /\ TableKept(game, table) /\ stack = <<>>
    BY DEF Shape
  <1>2. CallKept(game', plan', stage', run', call', ret', nodes', stop')
    OBVIOUS
  <1>3. Counted'
    BY <1>1 DEF Counted, Searching
  <1>4. stage' \notin Searching
    BY DEF Searching
  <1> QED
    BY <1>1, <1>2, <1>3, <1>4, EmptyStack DEF Shape, Fixed, Searching

\* Answering the call keeps the shape.
LEMMA AnswerShape ==
  ASSUME Shape, Answer
  PROVE  Shape'
  <1>1. /\ game' = game /\ plan' = plan /\ table' = table /\ history' = history /\ run' = run /\ stack' = stack /\ ret' = ret
        /\ nodes' = nodes /\ stop' = stop /\ stage = "done" /\ call.kind = "value" /\ call' = [call EXCEPT !.value = ret] /\ stage' = "idle"
    BY DEF Answer
  <1>2. RunKept(game, plan, run) /\ CallKept(game, plan, "done", run, call, ret, nodes, stop) /\ nodes \in Int /\ ret \in Seq(Int)
    BY <1>1 DEF Shape, Counted
  <1> DEFINE c == call'
  <1>3. /\ c \in CallSet(game) /\ c.kind = call.kind /\ c.at = call.at /\ c.order = call.order /\ c.left = call.left /\ c.known = call.known
        /\ c.trying = call.trying /\ c.value = ret /\ c.limit = call.limit /\ c.move = call.move
    BY <1>1, <1>2 DEF CallKept, CallSet
  <1> HIDE DEF c
  <1>4. CallKept(game, plan, "idle", run, c, ret, nodes, stop)
    BY <1>1, <1>2, <1>3 DEF CallKept, Searching, Spent
  <1>5. CallKept(game, plan, stage', run', call', ret, nodes', stop)
    BY <1>1, <1>4 DEF c
  <1> QED
    BY <1>1, <1>2, <1>5, CalledShape

\* The ends of a sequence.
LEMMA HeadTail ==
  ASSUME NEW S, NEW s \in Seq(S), s # <<>>
  PROVE  /\ Head(s) \in Range(s) /\ Head(s) \in S /\ Tail(s) \in Seq(S) /\ Range(Tail(s)) \subseteq Range(s)
         /\ Range(s) \subseteq {Head(s)} \cup Range(Tail(s))
  <1>1. Len(s) \in Nat /\ Len(s) # 0 /\ DOMAIN s = 1 .. Len(s) /\ \A i \in 1 .. Len(s) : s[i] \in S
    BY EmptySeq, LenProperties, ElementOfSeq
  <1>2. Head(s) = s[1] /\ 1 \in DOMAIN s
    BY <1>1
  <1>3. Tail(s) \in Seq(S) /\ Len(Tail(s)) = Len(s) - 1 /\ \A i \in 1 .. Len(Tail(s)) : Tail(s)[i] = s[i + 1]
    BY HeadTailProperties
  <1> DEFINE u == Tail(s)
  <1>4. DOMAIN u = 1 .. Len(u)
    BY <1>3, LenProperties
  <1> HIDE DEF u
  <1>5. \A i \in 1 .. Len(u) : i + 1 \in DOMAIN s /\ u[i] = s[i + 1]
    BY <1>1, <1>3 DEF u
  <1>6. \A i \in DOMAIN s : i = 1 \/ (i - 1 \in 1 .. Len(u) /\ u[i - 1] = s[i])
    BY <1>1, <1>3 DEF u
  <1>7. Range(u) \subseteq Range(s)
    BY <1>4, <1>5 DEF Range
  <1>8. Range(s) \subseteq {Head(s)} \cup Range(u)
    BY <1>2, <1>4, <1>6 DEF Range
  <1>9. Head(s) \in Range(s) /\ Head(s) \in S
    BY <1>1, <1>2 DEF Range
  <1> QED
    BY <1>3, <1>7, <1>8, <1>9 DEF u

\* A set put in a sequence, ahead of another.
LEMMA SetFirst ==
  ASSUME NEW S \in SUBSET Transition, NEW o \in Seq(Transition)
  PROVE  SetToSeq(S) \o o \in Seq(Transition) /\ Range(SetToSeq(S) \o o) = S \cup Range(o)
  <1> DEFINE n == Cardinality(S)
             f == SetToSeq(S)
  <1>1. IsFiniteSet(S)
    BY TransitionsFinite
  <1>2. n \in Nat /\ \E g \in [1 .. n -> S] : IsInjective(g)
    BY <1>1, FS_CardinalityType DEF ExistsBijection, Bijection, Injection, IsInjective
  <1>3. f \in [1 .. n -> S] /\ IsInjective(f)
    BY <1>2 DEF SetToSeq
  <1>4. Range(f) = S
    <2>1. Range(f) \subseteq S
      BY <1>3 DEF Range
    <2>2. ExistsBijection(1 .. n, Range(f))
      <3>1. f \in [1 .. n -> Range(f)] /\ \A y \in Range(f) : \E x \in 1 .. n : f[x] = y
        BY <1>3 DEF Range
      <3> HIDE DEF f
      <3> QED
        BY <1>3, <3>1 DEF ExistsBijection, Bijection, Injection, Surjection, IsInjective
    <2>3. Cardinality(Range(f)) = n
      BY <1>2, <2>2, FS_CountingElements
    <2> QED
      BY <1>1, <2>1, <2>3, FS_Subset
  <1> HIDE DEF n
  <1>5. f \in Seq(Transition) /\ Len(f) = n
    BY <1>2, <1>3
  <1> HIDE DEF f
  <1>6. f \o o \in Seq(Transition) /\ Len(f \o o) = Len(f) + Len(o)
        /\ \A i \in 1 .. Len(f) + Len(o) : (f \o o)[i] = IF i <= Len(f) THEN f[i] ELSE o[i - Len(f)]
    BY <1>5, ConcatProperties
  <1> DEFINE u == f \o o
  <1>7. DOMAIN u = 1 .. Len(f) + Len(o) /\ DOMAIN f = 1 .. Len(f) /\ DOMAIN o = 1 .. Len(o) /\ Len(f) \in Nat /\ Len(o) \in Nat
    BY <1>5, <1>6, LenProperties
  <1> HIDE DEF u
  <1>8. Range(u) \subseteq Range(f) \cup Range(o)
    <2> SUFFICES ASSUME NEW i \in DOMAIN u PROVE u[i] \in Range(f) \cup Range(o)
      BY DEF Range
    <2>1. CASE i <= Len(f)
      <3>1. u[i] = f[i] /\ i \in DOMAIN f
        BY <1>6, <1>7, <2>1 DEF u
      <3> QED
        BY <3>1 DEF Range
    <2>2. CASE ~ (i <= Len(f))
      <3>1. u[i] = o[i - Len(f)] /\ i - Len(f) \in DOMAIN o
        BY <1>6, <1>7, <2>2 DEF u
      <3> QED
        BY <3>1 DEF Range
    <2> QED
      BY <2>1, <2>2
  <1>9. Range(f) \subseteq Range(u) /\ Range(o) \subseteq Range(u)
    <2>1. \A i \in DOMAIN f : i \in DOMAIN u /\ u[i] = f[i]
      BY <1>6, <1>7 DEF u
    <2>2. \A i \in DOMAIN o : i + Len(f) \in DOMAIN u /\ u[i + Len(f)] = o[i]
      <3> TAKE i \in DOMAIN o
      <3>1. i + Len(f) \in 1 .. Len(f) + Len(o) /\ ~ (i + Len(f) <= Len(f)) /\ (i + Len(f)) - Len(f) = i
        BY <1>7
      <3> QED
        BY <1>6, <1>7, <3>1 DEF u
    <2> QED
      BY <2>1, <2>2 DEF Range
  <1> QED
    BY <1>4, <1>6, <1>8, <1>9 DEF u, f

\* What a call is when no move was shown to be best: in play mode a guess.
LEMMA UnfoundIs ==
  ASSUME NEW g, NEW c \in CallSet(g), c.order # <<>>
  PROVE  /\ Unfound(c) \in CallSet(g)
         /\ Unfound(c).kind = c.kind /\ Unfound(c).at = c.at /\ Unfound(c).order = c.order /\ Unfound(c).left = c.left
         /\ Unfound(c).known = c.known /\ Unfound(c).trying = c.trying /\ Unfound(c).value = c.value /\ Unfound(c).limit = c.limit
         /\ Unfound(c).total = c.total
         /\ ~ plan.play => Unfound(c) = c
         /\ plan.play => ~ Unfound(c).exact /\ Unfound(c).move # {} /\ Unfound(c).move \subseteq c.known \cup Range(c.order)
  <1>1. CASE ~ plan.play
    BY <1>1 DEF Unfound
  <1>2. CASE plan.play
    <2> DEFINE no == FALSE
               move == IF c.known # {} THEN c.known ELSE {Head(c.order)}
    <2>1. Unfound(c) = [c EXCEPT !.move = move, !.exact = no] /\ no \in BOOLEAN
      BY <1>2 DEF Unfound
    <2>2. c.order \in Seq(Transition) /\ c.known \in SUBSET Transition
      BY DEF CallSet
    <2>3. Head(c.order) \in Range(c.order) /\ Head(c.order) \in Transition
      BY <2>2, HeadTail
    <2>4. move \in SUBSET Transition /\ move # {} /\ move \subseteq c.known \cup Range(c.order)
      BY <2>2, <2>3
    <2>5. ~ Unfound(c).exact
      <3>1. "exact" \in DOMAIN c
        BY DEF CallSet
      <3>2. Unfound(c) = [c EXCEPT !.move = move, !.exact = FALSE]
        BY <2>1
      <3> HIDE DEF move, no
      <3> QED
        BY <3>1, <3>2, Zenon
    <2> HIDE DEF no, move
    <2>6. Unfound(c) \in CallSet(g)
      BY <2>1, <2>4 DEF CallSet
    <2>7. /\ Unfound(c).kind = c.kind /\ Unfound(c).at = c.at /\ Unfound(c).order = c.order /\ Unfound(c).left = c.left
          /\ Unfound(c).known = c.known /\ Unfound(c).trying = c.trying /\ Unfound(c).value = c.value /\ Unfound(c).limit = c.limit
          /\ Unfound(c).total = c.total /\ Unfound(c).move = move
      BY <2>1 DEF CallSet
    <2> QED
      BY <1>2, <2>4, <2>5, <2>6, <2>7
  <1> QED
    BY <1>1, <1>2

\* A choice that ends without a best move.
LEMMA GivesUp ==
  ASSUME NEW g, NEW c \in CallSet(g), c.kind = "choose", c.order # <<>>, c.trying = {}, c.move = {}, c.exact,
         Range(c.order) \cup Range(c.left) \cup c.known \subseteq RuleMoves(g, c.at), NEW rn, NEW r, NEW nd, NEW sp
  PROVE  CallKept(g, plan, "idle", rn, Unfound(c), r, nd, sp)
  <1>1. /\ Unfound(c) \in CallSet(g)
        /\ Unfound(c).kind = c.kind /\ Unfound(c).at = c.at /\ Unfound(c).order = c.order /\ Unfound(c).left = c.left
        /\ Unfound(c).known = c.known /\ Unfound(c).trying = c.trying
        /\ ~ plan.play => Unfound(c) = c
        /\ plan.play => ~ Unfound(c).exact /\ Unfound(c).move # {} /\ Unfound(c).move \subseteq c.known \cup Range(c.order)
    BY UnfoundIs
  <1> DEFINE u == Unfound(c)
  <1> HIDE DEF u
  <1>2. CASE plan.play
    <2>1. ~ u.exact /\ u.move # {} /\ u.move \subseteq c.known \cup Range(c.order)
      BY <1>1, <1>2 DEF u
    <2>2. u \in CallSet(g) /\ u.kind = "choose" /\ u.at = c.at /\ u.order = c.order /\ u.left = c.left /\ u.known = c.known /\ u.trying = {}
      BY <1>1 DEF u
    <2>3. Range(u.order) \cup Range(u.left) \cup u.known \cup u.trying \cup u.move \subseteq RuleMoves(g, u.at)
      BY <2>1, <2>2
    <2>4. CallKept(g, plan, "idle", rn, u, r, nd, sp)
      BY <1>2, <2>1, <2>2, <2>3 DEF CallKept, Searching
    <2> QED
      BY <2>4 DEF u
  <1>3. CASE ~ plan.play
    <2>1. Unfound(c) = c
      BY <1>1, <1>3
    <2>2. CallKept(g, plan, "idle", rn, c, r, nd, sp)
      BY <1>3 DEF CallKept, Searching
    <2> QED
      BY <2>1, <2>2
  <1> QED
    BY <1>2, <1>3

\* Choosing, once the value is known, keeps the shape.
LEMMA ValuedShape ==
  ASSUME Shape, Valued
  PROVE  Shape'
  <1> DEFINE known == (UNION {e.best : e \in Held(KeyAt(call.at))}) \cap Range(call.order)
             left == SetToSeq(known) \o call.order
             c == [call EXCEPT !.value = ret, !.total = nodes, !.known = known, !.left = left]
  <1>1. /\ game' = game /\ plan' = plan /\ table' = table /\ history' = history /\ run' = run /\ stack' = stack /\ ret' = ret
        /\ nodes' = nodes /\ stop' = stop /\ stage = "done" /\ call.kind = "choose" /\ call.trying = {}
        /\ IF ret = <<>> THEN call' = Unfound(c) /\ stage' = "idle" ELSE call' = c /\ stage' = "pick"
    BY DEF Valued
  <1>2. RunKept(game, plan, run) /\ CallKept(game, plan, "done", run, call, ret, nodes, stop) /\ nodes \in Int /\ ret \in Seq(Int)
    BY <1>1 DEF Shape, Counted
  <1>3. call.order \in Seq(Transition) /\ known \in SUBSET Transition /\ known \subseteq Range(call.order)
    <2>1. call.order \in Seq(Transition)
      BY <1>2 DEF CallKept, CallSet
    <2>2. Range(call.order) \subseteq RuleMoves(game, call.at) /\ RuleMoves(game, call.at) \subseteq Transition
      BY <1>2, WalkIs DEF CallKept
    <2> QED
      BY <2>1, <2>2
  <1> HIDE DEF known
  <1>4. left \in Seq(Transition) /\ Range(left) = known \cup Range(call.order)
    BY <1>3, SetFirst
  <1> HIDE DEF left
  <1>5. /\ c \in CallSet(game) /\ c.kind = call.kind /\ c.at = call.at /\ c.order = call.order /\ c.left = left /\ c.known = known
        /\ c.trying = call.trying /\ c.value = ret /\ c.limit = call.limit /\ c.move = call.move
    BY <1>2, <1>3, <1>4 DEF CallKept, CallSet
  <1>6. c.exact <=> call.exact
    BY <1>2 DEF CallKept, CallSet
  <1> HIDE DEF c
  <1>7. c.kind = "choose" /\ c.order # <<>> /\ c.trying = {} /\ c.move = {} /\ c.exact
    BY <1>1, <1>2, <1>5, <1>6 DEF CallKept
  <1>8. Range(c.order) \cup Range(c.left) \cup c.known \subseteq RuleMoves(game, c.at)
    BY <1>2, <1>3, <1>4, <1>5 DEF CallKept
  <1>9. CASE ret = <<>>
    <2>1. CallKept(game, plan, "idle", run, Unfound(c), ret, nodes, stop)
      BY <1>5, <1>7, <1>8, GivesUp
    <2>2. CallKept(game, plan, stage', run', call', ret, nodes', stop)
      BY <1>1, <1>9, <2>1
    <2> QED
      BY <1>1, <1>2, <1>9, <2>2, CalledShape
  <1>10. CASE ret # <<>>
    <2>1. CallKept(game, plan, "pick", run, c, ret, nodes, stop)
      BY <1>5, <1>7, <1>8, <1>10 DEF CallKept, Searching
    <2>2. CallKept(game, plan, stage', run', call', ret, nodes', stop)
      BY <1>1, <1>10, <2>1
    <2> QED
      BY <1>1, <1>2, <1>10, <2>2, CalledShape
  <1> QED
    BY <1>9, <1>10

\* Choosing, once a move was tried, keeps the shape.
LEMMA TriedShape ==
  ASSUME Shape, Tried
  PROVE  Shape'
  <1> DEFINE none == {}
             total == call.total + nodes
             c == [call EXCEPT !.total = total, !.trying = none]
             m == [c EXCEPT !.move = call.trying]
  <1>1. /\ game' = game /\ plan' = plan /\ table' = table /\ history' = history /\ run' = run /\ stack' = stack /\ ret' = ret
        /\ stop' = stop /\ stage = "done" /\ call.trying # {}
        /\ IF ret = call.value THEN call' = m /\ stage' = "idle" /\ nodes' = c.total
           ELSE IF ret = <<>> THEN call' = Unfound(c) /\ stage' = "idle" /\ nodes' = c.total
           ELSE call' = c /\ stage' = "pick" /\ nodes' = nodes
    BY DEF Tried
  <1>2. RunKept(game, plan, run) /\ CallKept(game, plan, "done", run, call, ret, nodes, stop) /\ nodes \in Int /\ ret \in Seq(Int)
    BY <1>1 DEF Shape, Counted
  <1>3. total \in Int /\ call.trying \in SUBSET Transition /\ none \in SUBSET Transition
    BY <1>2 DEF CallKept, CallSet
  <1>4. call.kind = "choose" /\ call.value # <<>> /\ call.trying \subseteq RuleMoves(game, call.at)
    BY <1>1, <1>2 DEF CallKept
  <1> HIDE DEF total, none
  <1>5. /\ c \in CallSet(game) /\ c.kind = call.kind /\ c.at = call.at /\ c.order = call.order /\ c.left = call.left /\ c.known = call.known
        /\ c.trying = none /\ c.value = call.value /\ c.limit = call.limit /\ c.move = call.move /\ c.total = total
    BY <1>2, <1>3 DEF CallKept, CallSet
  <1>6. c.exact <=> call.exact
    BY <1>2 DEF CallKept, CallSet
  <1> HIDE DEF c
  <1>7. c.kind = "choose" /\ c.order # <<>> /\ c.trying = {} /\ c.move = {} /\ c.exact /\ c.value # <<>>
    BY <1>1, <1>2, <1>4, <1>5, <1>6 DEF CallKept, none
  <1>8. Range(c.order) \cup Range(c.left) \cup c.known \subseteq RuleMoves(game, c.at)
    BY <1>2, <1>5 DEF CallKept
  <1>9. CASE ret = call.value
    <2>1. /\ m \in CallSet(game) /\ m.kind = c.kind /\ m.at = c.at /\ m.order = c.order /\ m.left = c.left /\ m.known = c.known
          /\ m.trying = c.trying /\ m.value = c.value /\ m.limit = c.limit /\ m.move = call.trying
      BY <1>3, <1>5 DEF CallSet
    <2>2. m.exact <=> c.exact
      BY <1>5 DEF CallSet
    <2> HIDE DEF m
    <2>3. CallKept(game, plan, "idle", run, m, ret, total, stop)
      BY <1>1, <1>4, <1>5, <1>7, <1>8, <2>1, <2>2 DEF CallKept, Searching
    <2>4. CallKept(game, plan, stage', run', call', ret, nodes', stop) /\ nodes' \in Int
      BY <1>1, <1>3, <1>5, <1>9, <2>3
    <2> QED
      BY <1>1, <1>2, <1>9, <2>4, CalledShape
  <1>10. CASE ret # call.value /\ ret = <<>>
    <2>1. CallKept(game, plan, "idle", run, Unfound(c), ret, total, stop)
      BY <1>5, <1>7, <1>8, GivesUp
    <2>2. CallKept(game, plan, stage', run', call', ret, nodes', stop) /\ nodes' \in Int
      BY <1>1, <1>3, <1>5, <1>10, <2>1
    <2> QED
      BY <1>1, <1>2, <1>10, <2>2, CalledShape
  <1>11. CASE ret # call.value /\ ret # <<>>
    <2>1. CallKept(game, plan, "pick", run, c, ret, nodes, stop)
      BY <1>5, <1>7, <1>8 DEF CallKept, Searching
    <2>2. CallKept(game, plan, stage', run', call', ret, nodes', stop) /\ nodes' \in Int
      BY <1>1, <1>2, <1>11, <2>1
    <2> QED
      BY <1>1, <1>2, <1>11, <2>2, CalledShape
  <1> QED
    BY <1>9, <1>10, <1>11

\* Where the move choose looks at leads.
LEMMA PickedIs ==
  ASSUME game \in Library, NEW m \in DOMAIN game.worth, NEW t \in RuleMoves(game, m)
  PROVE  /\ (CHOOSE x \in Play(t, ByCounts(m)) : TRUE) = WalkOf(game, RuleAfter(game, m, t), FALSE)
         /\ RuleAfter(game, m, t) \in DOMAIN game.worth
         /\ (CHOOSE x \in Play(t, ByCounts(m)) : TRUE).mk = RuleAfter(game, m, t)
  <1> DEFINE no == FALSE
             x == RuleAfter(game, m, t)
             w == WalkOf(game, x, no)
             played == Play(t, WalkOf(game, m, no))
  <1>1. no \in BOOLEAN /\ ~ no
    OBVIOUS
  <1>2. ByCounts(m) = WalkOf(game, m, no)
    BY DEF ByCounts, WalkOf, RuleMoves
  <1> HIDE DEF no
  <1>3. LeavesTo(game, played, x, no) /\ x \in DOMAIN game.worth
    BY <1>1, PlayLeads
  <1>4. played = {w}
    BY <1>1, <1>3 DEF LeavesTo
  <1>5. (CHOOSE y \in played : TRUE) = w
    BY <1>4
  <1>6. w.mk = x
    BY DEF WalkOf
  <1>7. (CHOOSE y \in played : TRUE) = (CHOOSE y \in played : TRUE) /\ (CHOOSE y \in played : TRUE).mk = x
    BY <1>5, <1>6
  <1> QED
    BY <1>2, <1>3, <1>5, <1>7 DEF no

\* Picking the next move to try keeps the shape.
LEMMA PickShape ==
  ASSUME Shape, Pick
  PROVE  Shape'
  <1> DEFINE t == Head(call.left)
             w == CHOOSE x \in Play(t, ByCounts(call.at)) : TRUE
             none == {}
             limit == Above0(plan.budget - call.total)
             left == Tail(call.left)
             tries == [call EXCEPT !.trying = {t}, !.left = left, !.limit = limit]
             finds == [call EXCEPT !.move = {t}]
             skips == [call EXCEPT !.left = left]
  <1>1. /\ game' = game /\ plan' = plan /\ table' = table /\ history' = history /\ stack' = stack /\ ret' = ret
        /\ stop' = stop /\ stage = "pick"
        /\ IF call.left = <<>> THEN call' = Unfound(call) /\ stage' = "idle" /\ nodes' = call.total /\ run' = run
           ELSE IF ~ Over(w) THEN /\ run' = RunAt(w.mk, {}) /\ stage' = "run" /\ call' = tries /\ nodes' = nodes
           ELSE IF Score(w) = call.value[1] THEN call' = finds /\ stage' = "idle" /\ nodes' = call.total /\ run' = run
           ELSE call' = skips /\ stage' = stage /\ nodes' = nodes /\ run' = run
    BY DEF Pick
  <1>2. /\ RunKept(game, plan, run) /\ CallKept(game, plan, "pick", run, call, ret, nodes, stop) /\ nodes \in Int
        /\ game \in Library /\ plan.budget \in Int
    BY <1>1 DEF Shape, Counted, Fixed
  <1>3. /\ call \in CallSet(game) /\ call.kind = "choose" /\ call.trying = {} /\ call.value # <<>> /\ call.move = {} /\ call.exact
        /\ call.order # <<>> /\ call.at \in DOMAIN game.worth /\ call.left \in Seq(Transition) /\ call.total \in Int
        /\ Range(call.order) \cup Range(call.left) \cup call.known \subseteq RuleMoves(game, call.at)
    <2>1. call \in CallSet(game) /\ call.kind = "choose" /\ call.trying = {} /\ call.value # <<>> /\ call.move = {} /\ call.exact /\ call.order # <<>>
      BY <1>2 DEF CallKept, Searching
    <2>2. Range(call.order) \cup Range(call.left) \cup call.known \subseteq RuleMoves(game, call.at)
      BY <1>2 DEF CallKept
    <2> QED
      BY <2>1, <2>2 DEF CallSet
  <1>4. CASE call.left = <<>>
    <2>1. CallKept(game, plan, "idle", run, Unfound(call), ret, call.total, stop)
      BY <1>3, GivesUp
    <2>2. CallKept(game, plan, stage', run', call', ret, nodes', stop) /\ nodes' \in Int /\ run' = run /\ stage' = "idle"
      BY <1>1, <1>3, <1>4, <2>1
    <2> QED
      BY <1>1, <1>2, <2>2, CalledShape
  <1>5. ASSUME call.left # <<>>
        PROVE  Shape'
    <2>1. t \in RuleMoves(game, call.at) /\ t \in Transition /\ left \in Seq(Transition) /\ Range(left) \subseteq RuleMoves(game, call.at)
      BY <1>3, <1>5, HeadTail
    <2>2. w = WalkOf(game, RuleAfter(game, call.at, t), FALSE) /\ RuleAfter(game, call.at, t) \in DOMAIN game.worth
      BY <1>2, <1>3, <2>1, PickedIs
    <2>3. w.mk = RuleAfter(game, call.at, t)
      BY <1>2, <1>3, <2>1, PickedIs
    <2>4. limit \in Int
      BY <1>2, <1>3 DEF Above0
    <2> HIDE DEF t, w, limit, left
    <2>5. CASE ~ Over(w)
      <3>1. run' = RunAt(w.mk, none) /\ stage' = "run" /\ call' = tries /\ nodes' = nodes
        BY <1>1, <1>5, <2>5
      <3>2. RunKept(game, plan, RunAt(w.mk, none)) /\ RunAt(w.mk, none).at = w.mk
        <4>1. none \in SUBSET RankSet /\ AtMostOne(none) /\ \A r \in none : FALSE
          BY DEF AtMostOne
        <4> HIDE DEF none
        <4> QED
          BY <1>2, <2>2, <2>3, <4>1, RunAtIs
      <3>3. /\ tries \in CallSet(game) /\ tries.kind = "choose" /\ tries.at = call.at /\ tries.order = call.order /\ tries.left = left
            /\ tries.known = call.known /\ tries.trying = {t} /\ tries.value = call.value /\ tries.move = {}
        BY <1>3, <2>1, <2>4 DEF CallSet
      <3>4. tries.exact
        <4>1. tries.exact <=> call.exact
          BY <1>3 DEF CallSet
        <4> QED
          BY <1>3, <4>1
      <3> HIDE DEF tries
      <3> DEFINE rn == RunAt(w.mk, none)
      <3> HIDE DEF rn
      <3>5. rn.at = RuleAfter(game, call.at, t)
        BY <2>3, <3>2 DEF rn
      <3>6. Range(tries.order) \cup Range(tries.left) \cup tries.known \cup tries.trying \cup tries.move \subseteq RuleMoves(game, tries.at)
        BY <1>3, <2>1, <3>3
      <3>7. CallKept(game, plan, "run", rn, tries, ret, nodes, stop)
        <4>1. tries.kind = "choose" /\ tries.value # <<>> /\ \E u \in RuleMoves(game, tries.at) : tries.trying = {u} /\ rn.at = RuleAfter(game, tries.at, u)
          BY <1>3, <2>1, <3>3, <3>5
        <4> QED
          BY <1>3, <3>3, <3>4, <3>6, <4>1 DEF CallKept, Searching
      <3>8. CallKept(game, plan, stage', run', call', ret, nodes', stop) /\ nodes' \in Int /\ RunKept(game, plan, run')
        BY <1>2, <3>1, <3>2, <3>7 DEF rn
      <3> QED
        BY <1>1, <3>1, <3>8, CalledShape
    <2>6. CASE Over(w) /\ Score(w) = call.value[1]
      <3>1. run' = run /\ stage' = "idle" /\ call' = finds /\ nodes' = call.total
        BY <1>1, <1>5, <2>6
      <3>3. /\ finds \in CallSet(game) /\ finds.kind = "choose" /\ finds.at = call.at /\ finds.order = call.order /\ finds.left = call.left
            /\ finds.known = call.known /\ finds.trying = {} /\ finds.value = call.value /\ finds.move = {t}
        BY <1>3, <2>1 DEF CallSet
      <3>4. finds.exact
        <4>1. finds.exact <=> call.exact
          BY <1>3 DEF CallSet
        <4> QED
          BY <1>3, <4>1
      <3> HIDE DEF finds
      <3>5. Range(finds.order) \cup Range(finds.left) \cup finds.known \cup finds.trying \cup finds.move \subseteq RuleMoves(game, finds.at)
        BY <1>3, <2>1, <3>3
      <3>6. CallKept(game, plan, "idle", run, finds, ret, call.total, stop)
        BY <1>3, <3>3, <3>4, <3>5 DEF CallKept, Searching
      <3>7. CallKept(game, plan, stage', run', call', ret, nodes', stop) /\ nodes' \in Int
        BY <1>3, <3>1, <3>6
      <3> QED
        BY <1>1, <1>2, <3>1, <3>7, CalledShape
    <2>7. CASE Over(w) /\ Score(w) # call.value[1]
      <3>1. run' = run /\ stage' = "pick" /\ call' = skips /\ nodes' = nodes
        BY <1>1, <1>5, <2>7
      <3>3. /\ skips \in CallSet(game) /\ skips.kind = "choose" /\ skips.at = call.at /\ skips.order = call.order /\ skips.left = left
            /\ skips.known = call.known /\ skips.trying = {} /\ skips.value = call.value /\ skips.move = {}
        BY <1>3, <2>1 DEF CallSet
      <3>4. skips.exact
        <4>1. skips.exact <=> call.exact
          BY <1>3 DEF CallSet
        <4> QED
          BY <1>3, <4>1
      <3> HIDE DEF skips
      <3>5. Range(skips.order) \cup Range(skips.left) \cup skips.known \cup skips.trying \cup skips.move \subseteq RuleMoves(game, skips.at)
        BY <1>3, <2>1, <3>3
      <3>6. CallKept(game, plan, "pick", run, skips, ret, nodes, stop)
        BY <1>3, <3>3, <3>4, <3>5 DEF CallKept, Searching
      <3>7. CallKept(game, plan, stage', run', call', ret, nodes', stop) /\ nodes' \in Int
        BY <1>2, <3>1, <3>6
      <3> QED
        BY <1>1, <1>2, <3>1, <3>7, CalledShape
    <2> QED
      BY <2>5, <2>6, <2>7
  <1> QED
    BY <1>4, <1>5

-----------------------------------------------------------------------------
(* The shape is an invariant.                                               *)

\* The shape holds at first.
LEMMA InitShape ==
  ASSUME Init
  PROVE  Shape
  <1> DEFINE zero == 0
             known(m) == [key |-> KeyAt(m), lo |-> game.worth[m], hi |-> game.worth[m], best |-> {}]
  <1>1. /\ game \in Library
        /\ plan \in {Settings(p) : p \in {q \in Plans : Legal(q) /\ (Range(OrderOf(q)) \cap NeedsGoals # {} => Goals # <<>>)}}
        /\ table = {known(m) : m \in game.book}
        /\ history = [t \in Transition |-> zero]
        /\ call = NoCall /\ run = NoRun /\ stack = <<>> /\ ret = <<>>
        /\ stage = "idle" /\ nodes = zero /\ stop = FALSE
    BY DEF Init
  <1>2. /\ game.start \in DOMAIN game.worth /\ game.book \subseteq DOMAIN game.worth /\ game.worth \in [DOMAIN game.worth -> Int]
    BY <1>1, GameIs
  <1>3. Fixed
    <2>1. PICK p \in Plans : Legal(p) /\ plan = Settings(p)
      BY <1>1
    <2>2. OrderOf(p) \in Seq(OrderPieces) /\ Settings(p).budget \in Nat
      BY <2>1, PlansAssumption
    <2>3. plan.order = OrderOf(p)
      BY <2>1 DEF Settings
    <2> QED
      BY <1>1, <2>1, <2>2, <2>3 DEF Fixed
  <1>4. Counted
    <2>1. zero \in Int
      OBVIOUS
    <2>2. ret \in Seq(Int)
      BY <1>1, EmptySeq
    <2> HIDE DEF zero
    <2> QED
      BY <1>1, <2>1, <2>2 DEF Counted
  <1>5. TableKept(game, table)
    <2>1. \A m \in game.book : known(m) \in EntrySet(game) /\ known(m).best = {} /\ known(m).key = KeyAt(m)
      <3>1. ASSUME NEW m \in game.book
            PROVE  known(m) \in EntrySet(game) /\ known(m).best = {} /\ known(m).key = KeyAt(m)
        <4>1. KeyAt(m) \in KeySet(game)
          BY <1>2 DEF KeyAt, KeySet, FitsBits
        <4>2. game.worth[m] \in Int
          BY <1>2
        <4> QED
          BY <4>1, <4>2 DEF EntrySet
      <3> QED
        BY <3>1
    <2>2. \A m, x \in game.book : KeyAt(m) = KeyAt(x) => m = x
      BY DEF KeyAt
    <2>3. \A m, x \in game.book : known(m).key = known(x).key => known(m) = known(x)
      <3>1. \A m, x \in game.book : known(m).key = known(x).key => m = x
        BY <2>1, <2>2
      <3> HIDE DEF known
      <3> QED
        BY <3>1
    <2> HIDE DEF known
    <2> QED
      BY <1>1, <2>1, <2>3 DEF TableKept
  <1>6. RunKept(game, plan, run)
    <2> DEFINE no == FALSE
    <2>1. no \in BOOLEAN /\ ~ no
      OBVIOUS
    <2>2. NoRun = [at |-> game.start, ranked |-> {}, bits |-> no, spilled |-> no, mode |-> "range", i |-> 1, j |-> 1, k |-> 1, f |-> {}]
      BY DEF NoRun
    <2> HIDE DEF no
    <2>3. run \in RunSet(game) /\ run.ranked = {} /\ run.f = {} /\ run.bits = no
      BY <1>1, <1>2, <2>1, <2>2 DEF RunSet
    <2> QED
      BY <2>1, <2>3 DEF RunKept, AtMostOne
  <1>7. CallKept(game, plan, stage, run, call, ret, nodes, stop)
    <2>1. /\ call \in CallSet(game) /\ call.kind = "none" /\ call.order = <<>> /\ call.left = <<>> /\ call.known = {}
          /\ call.trying = {} /\ call.move = {}
      BY <1>1, <1>2, EmptySeq DEF NoCall, CallSet
    <2>2. Range(call.order) \cup Range(call.left) \cup call.known \cup call.trying \cup call.move \subseteq RuleMoves(game, call.at)
      BY <2>1, EmptyRange
    <2> QED
      BY <1>1, <2>1, <2>2 DEF CallKept, Searching
  <1>8. StackKept(game, run, stack)
    BY <1>1, EmptyStack
  <1> QED
    BY <1>1, <1>3, <1>4, <1>5, <1>6, <1>7, <1>8 DEF Shape, Searching

\* Every step of a search keeps the shape.
LEMMA SearchShape ==
  ASSUME Shape, Search
  PROVE  Shape'
  BY RecallShape, FinalShape, ExpandShape, GiveUpShape DEF Search

\* Every step of a call keeps the shape.
LEMMA WorkShape ==
  ASSUME Shape, Work
  PROVE  Shape'
  BY BeginShape, TestShape, SearchShape, ResumeShape, LeaveShape, UnwindShape, DecideShape, NoValueShape,
     AnswerShape, ValuedShape, PickShape, TriedShape DEF Work

\* Every step keeps the shape.
LEMMA NextShape ==
  ASSUME Shape, [Next]_vars
  PROVE  Shape'
  <1>1. CASE Next
    BY <1>1, AskShape, WorkShape DEF Next
  <1>2. CASE UNCHANGED vars
    BY <1>2 DEF vars, Shape, Fixed, Counted
  <1> QED
    BY <1>1, <1>2

\* The engine is always in one of the states Shape tells of: what it holds is
\* about positions of the game, reached by the walk its engine keeps.
THEOREM Kept == Spec => []Shape
  BY InitShape, NextShape, PTL DEF Spec

\* The walks of a search are exact: what the bit engine keeps up firing by
\* firing is what the net's rule says, at every node of every search.
THEOREM Exactness == Spec => []WalksExact
  <1>1. Shape => WalksExact
    <2> SUFFICES ASSUME Shape, NEW w \in Walks
                 PROVE  w.mk \in DOMAIN game.worth /\ w.en = RuleMoves(game, w.mk)
      BY DEF WalksExact
    <2>1. CASE stage = "search" /\ w = arg.w
      <3>1. arg.w \in FaithfulWalks(game)
        BY <2>1 DEF Shape, ArgKept, ArgSet
      <3> QED
        BY <2>1, <3>1, FaithfulIs
    <2>2. CASE \E f \in Range(stack) : w = f.w
      <3>1. PICK i \in DOMAIN stack : w = stack[i].w
        BY <2>2 DEF Range
      <3>2. stack \in Seq(FrameSet(game))
        BY DEF Shape, StackKept
      <3>3. stack[i] \in FrameSet(game)
        BY <3>2
      <3>4. w \in FaithfulWalks(game)
        BY <3>1, <3>3 DEF FrameSet
      <3> QED
        BY <3>4, FaithfulIs
    <2> QED
      BY <2>1, <2>2 DEF Walks
  <1> QED
    BY <1>1, Kept, PTL

\* A test of the values between i and j leaves fewer of them.
LEMMA DecideNarrows ==
  ASSUME Shape, Decide, run.mode \in {"steps", "mtd_f"}, stage' = "test"
  PROVE  run'.j - run'.i < run.j - run.i
  <1>1. /\ stage = "back" /\ ret # <<>>
        /\ DecidesEnd \/ DecidesWiden \/ (\E i, j : DecidesStep(i, j)) \/ DecidesRaise \/ DecidesCut
    BY DecideIs
  <1>2. /\ game \in Library /\ run \in RunSet(game) /\ RunKept(game, plan, run) /\ IndexKept(game, "back", run)
        /\ run.i \in Int /\ run.j \in Int /\ run.k \in Int
    <2>1. game \in Library /\ run \in RunSet(game) /\ RunKept(game, plan, run)
      BY RunIs
    <2>2. IndexKept(game, "back", run)
      BY <1>1 DEF Shape, Searching
    <2> QED
      BY <2>1, <2>2 DEF RunSet
  <1>3. ret[1] \in Int
    BY <1>1, Answered
  <1>4. ~ DecidesEnd /\ ~ DecidesWiden
    BY DEF DecidesEnd, DecidesWiden
  <1>5. ASSUME NEW i, NEW j, DecidesStep(i, j)
        PROVE  run'.j - run'.i < run.j - run.i
    <2>1. run.i <= run.k /\ run.k < run.j
      BY <1>2, <1>5 DEF IndexKept, DecidesStep
    <2>2. i \in Int /\ j \in Int /\ j - i < run.j - run.i
      BY <1>2, <1>5, <2>1 DEF DecidesStep
    <2>3. PICK k \in {i, j - 1} : StepsTo(run, run', i, j, k)
      BY <1>5 DEF DecidesStep
    <2>4. k \in Int
      BY <2>2, <2>3
    <2>5. run'.i = i /\ run'.j = j
      BY <1>2, <2>2, <2>3, <2>4, StepsAre
    <2> QED
      BY <2>2, <2>5
  <1>6. CASE DecidesRaise
    <2> DEFINE k == TestGap(run.i, run.j, run.f)
               i == RaisedBy(run.i, run.j, ret[1])
               f == {i : x \in run.f}
    <2>1. run.mode = "mtd_f" /\ ret[1] >= WindowOf(game, run)[2] /\ run' = [run EXCEPT !.i = i, !.f = f]
      BY <1>6 DEF DecidesRaise
    <2>2. k \in Int /\ 1 <= run.i /\ run.i <= k /\ k < run.j /\ run.j <= Len(Values) /\ WindowOf(game, run)[2] = Values[k + 1]
      BY <1>2, <1>3, <2>1, GapOf
    <2> HIDE DEF k
    <2>3. i \in Int /\ k < i
      <3>1. ret[1] >= Values[k + 1]
        BY <2>1, <2>2
      <3> QED
        BY <1>2, <1>3, <2>2, <3>1, CutsAre
    <2> HIDE DEF i, f
    <2>4. run'.i = i /\ run'.j = run.j
      BY <1>2, <2>1 DEF RunSet
    <2> QED
      BY <1>2, <2>2, <2>3, <2>4
  <1>7. CASE DecidesCut
    <2> DEFINE k == TestGap(run.i, run.j, run.f)
               j == CutBy(run.i, run.j, ret[1])
               f == {j : x \in run.f}
    <2>1. run.mode = "mtd_f" /\ ~ (ret[1] >= WindowOf(game, run)[2]) /\ run' = [run EXCEPT !.j = j, !.f = f]
      BY <1>7 DEF DecidesCut
    <2>2. k \in Int /\ 1 <= run.i /\ run.i <= k /\ k < run.j /\ run.j <= Len(Values) /\ WindowOf(game, run)[2] = Values[k + 1] /\ Values[k + 1] \in Int
      BY <1>2, <1>3, <2>1, GapOf
    <2> HIDE DEF k
    <2>3. j \in Int /\ j <= k
      <3>1. ret[1] < Values[k + 1]
        BY <1>3, <2>1, <2>2
      <3> QED
        BY <1>2, <1>3, <2>2, <3>1, CutsAre
    <2> HIDE DEF j, f
    <2>4. run'.j = j /\ run'.i = run.i
      BY <1>2, <2>1 DEF RunSet
    <2> QED
      BY <1>2, <2>2, <2>3, <2>4
  <1> QED
    BY <1>1, <1>4, <1>5, <1>6, <1>7

\* The runs of yes/no searches end: every answer leaves fewer values.
THEOREM Narrowing == Spec => AnswersNarrow
  <1>1. Shape /\ [Next]_vars =>
          [Decide /\ run.mode \in {"steps", "mtd_f"} /\ stage' = "test" => run'.j - run'.i < run.j - run.i]_vars
    BY DecideNarrows
  <1> QED
    BY <1>1, Kept, PTL DEF Spec, AnswersNarrow

-----------------------------------------------------------------------------
(* What is stored, asked and returned is true.                              *)

\* A store of bounds that hold keeps the table true.
LEMMA StoreTrue ==
  ASSUME game \in Library, TableKept(game, table), TableTrue(game, table), NEW k \in KeySet(game), NEW lo \in Int, NEW hi \in Int,
         NEW best \in SUBSET RuleMoves(game, k.mk), Store(k, lo, hi, best),
         lo <= game.worth[k.mk], game.worth[k.mk] <= hi, game.least <= lo, hi <= game.most
  PROVE  TableTrue(game, table')
  <1> DEFINE e == Entry(k, lo, hi, best)
             x == game.worth[k.mk]
  <1>1. table' \subseteq table \cup {e}
    BY StoreIs
  <1>2. e.key = k /\ e.lo \in {lo} \cup {d.lo : d \in Held(k)} /\ e.hi \in {hi} \cup {d.hi : d \in Held(k)}
    BY EntryIs
  <1>3. \A d \in Held(k) : d.lo <= x /\ x <= d.hi /\ game.least <= d.lo /\ d.hi <= game.most
    BY HeldIs DEF TableTrue
  <1> HIDE DEF e
  <1>4. e.lo <= x /\ x <= e.hi /\ game.least <= e.lo /\ e.hi <= game.most
    BY <1>2, <1>3
  <1> QED
    BY <1>1, <1>2, <1>4 DEF TableTrue

\* The window a search is asked for has something in it.
LEMMA PendingProper ==
  ASSUME game \in Library, NEW rn, RunKept(game, plan, rn), NEW sg, IndexKept(game, sg, rn), rn.mode = "mtd_f" => rn.i < rn.j,
         NEW st, StackKept(game, rn, st), StackTrue(game, rn, st)
  PROVE  /\ Proper(game, Pending(game, rn, st).a, Pending(game, rn, st).b)
         /\ Pending(game, rn, st).a \in Int /\ Pending(game, rn, st).b \in Int
         /\ Pending(game, rn, st).w.mk \in DOMAIN game.worth
  <1>0. rn.at \in DOMAIN game.worth /\ rn.bits \in BOOLEAN /\ (rn.bits => FitsBits(rn.at))
    BY DEF RunKept, RunSet
  <1>1. Pending(game, rn, st).w \in FaithfulWalks(game)
    BY <1>0, PendingIs
  <1>2. Pending(game, rn, st).w.mk \in DOMAIN game.worth
    BY <1>1, FaithfulIs
  <1>3. CASE st = <<>>
    <2>1. Pending(game, rn, st).a = WindowOf(game, rn)[1] /\ Pending(game, rn, st).b = WindowOf(game, rn)[2]
      BY <1>3, PendingFirst
    <2> QED
      BY <1>2, <2>1, WindowProper
  <1>4. CASE st # <<>>
    <2> DEFINE f == st[Len(st)]
    <2>1. FrameKept(game, rn, f) /\ Pending(game, rn, st) = [w |-> f.kids[f.next].w, a |-> f.a, b |-> f.b] /\ Len(st) \in Nat /\ Len(st) # 0
      BY <1>0, <1>4, PendingIs
    <2>2. FrameTrue(game, f, AskedAt(game, rn, st, Len(st)))
      BY <2>1 DEF StackTrue
    <2> HIDE DEF f
    <2>3. Proper(game, f.a, f.b)
      BY <2>2 DEF FrameTrue
    <2>4. f.a \in Int /\ f.b \in Int
      BY <2>1 DEF FrameKept, FrameSet
    <2>5. Pending(game, rn, st).a = f.a /\ Pending(game, rn, st).b = f.b
      BY <2>1
    <2> QED
      BY <1>2, <2>3, <2>4, <2>5
  <1> QED
    BY <1>3, <1>4

\* What is told in the window the table leaves holds in the one asked for.
LEMMA TellsWider ==
  ASSUME NEW a \in Int, NEW b \in Int, NEW c \in Int, NEW d \in Int, NEW x \in Int, NEW v \in Int,
         c = a \/ (a <= c /\ c <= x), d = b \/ (x <= d /\ d <= b), Tells(x, c, d, v)
  PROVE  Tells(x, a, b, v)
  BY DEF Tells

\* A value that is the position's tells of it in every window.
LEMMA TellsExactly == \A x \in Int, a \in Int, b \in Int : Tells(x, a, b, x)
  BY DEF Tells

\* A window stays proper as it narrows without closing.
LEMMA ProperLeft ==
  ASSUME NEW g, g.least \in Int, g.most \in Int, NEW a \in Int, NEW b \in Int, Proper(g, a, b),
         NEW lo \in Int, NEW hi \in Int, lo < hi, lo < b, a < hi, g.least <= lo, hi <= g.most
  PROVE  Proper(g, lo, b) /\ Proper(g, a, hi) /\ Proper(g, lo, hi)
  BY DEF Proper

\* The window left by a table that does not settle the search.
LEMMA LeftProper ==
  ASSUME Shape, stage = "search", TableTrue(game, table), Proper(game, arg.a, arg.b), \A e \in Held(KeyOf(arg.w)) : ~ Settles(e),
         NEW a, a = Max({arg.a} \cup {e.lo : e \in Held(KeyOf(arg.w))}), NEW b, b = Min({arg.b} \cup {e.hi : e \in Held(KeyOf(arg.w))})
  PROVE  /\ Proper(game, a, b) /\ a \in Int /\ b \in Int
         /\ a = arg.a \/ (arg.a <= a /\ a <= game.worth[arg.w.mk])
         /\ b = arg.b \/ (game.worth[arg.w.mk] <= b /\ b <= arg.b)
  <1> DEFINE H == Held(KeyOf(arg.w))
             x == game.worth[arg.w.mk]
  <1>1. /\ game \in Library /\ TableKept(game, table) /\ arg.a \in Int /\ arg.b \in Int /\ arg.w.mk \in DOMAIN game.worth
        /\ KeyOf(arg.w).mk = arg.w.mk
    BY ArgIs
  <1>2. game.least \in Int /\ game.most \in Int /\ x \in Int
    BY <1>1, SumsBetween, WorthBetween
  <1>3. AtMostOne(H) /\ \A e \in H : e \in table /\ e.key = KeyOf(arg.w) /\ e.lo \in Int /\ e.hi \in Int
    BY <1>1, HeldIs
  <1>4. \A e \in H : e.lo <= x /\ x <= e.hi /\ game.least <= e.lo /\ e.hi <= game.most
    BY <1>1, <1>3 DEF TableTrue
  <1>5. \A e \in H : e.lo # e.hi /\ e.lo < arg.b /\ arg.a < e.hi
    BY <1>1, <1>3 DEF Settles
  <1>6. /\ a \in Int /\ b \in Int /\ a \in {arg.a} \cup {e.lo : e \in H} /\ b \in {arg.b} \cup {e.hi : e \in H}
        /\ arg.a <= a /\ b <= arg.b
    BY <1>1, Narrowed
  <1>7. \A e, d \in H : e = d
    BY <1>3 DEF AtMostOne
  <1>8. arg.a <= arg.b /\ game.least <= arg.a /\ arg.b <= game.most /\ (arg.a = arg.b => game.least = game.most)
    BY DEF Proper
  <1> HIDE DEF H, x
  <1>9. \A e \in H : /\ Proper(game, e.lo, arg.b) /\ Proper(game, arg.a, e.hi) /\ Proper(game, e.lo, e.hi)
                     /\ e.lo <= x /\ x <= e.hi
    <2>1. ASSUME NEW e \in H
          PROVE  Proper(game, e.lo, arg.b) /\ Proper(game, arg.a, e.hi) /\ Proper(game, e.lo, e.hi) /\ e.lo <= x /\ x <= e.hi
      <3>1. e.lo \in Int /\ e.hi \in Int /\ e.lo <= x /\ x <= e.hi /\ e.lo < e.hi /\ e.lo < arg.b /\ arg.a < e.hi
            /\ game.least <= e.lo /\ e.hi <= game.most
        BY <1>2, <1>3, <1>4, <1>5
      <3> QED
        BY <1>1, <1>2, <3>1, ProperLeft
    <2> QED
      BY <2>1
  <1>10. /\ a = arg.a \/ \E e \in H : a = e.lo
         /\ b = arg.b \/ \E e \in H : b = e.hi
    BY <1>6
  <1>11. Proper(game, a, b)
    BY <1>7, <1>9, <1>10
  <1>12. (a = arg.a \/ (arg.a <= a /\ a <= x)) /\ (b = arg.b \/ (x <= b /\ b <= arg.b))
    BY <1>6, <1>9, <1>10
  <1> QED
    BY <1>6, <1>11, <1>12 DEF x

\* A run that differs in whether it spilled alone leaves the truth of the stack alone.
LEMMA AlikeAsk ==
  ASSUME NEW g, NEW rn, NEW x, AlikeRuns(rn, x)
  PROVE  /\ \A st, i : AskedAt(g, x, st, i) = AskedAt(g, rn, st, i)
         /\ \A st : Pending(g, x, st) = Pending(g, rn, st)
         /\ \A st : StackTrue(g, rn, st) => StackTrue(g, x, st)
  <1>1. WindowOf(g, x) = WindowOf(g, rn) /\ x.at = rn.at /\ x.bits = rn.bits
    BY DEF AlikeRuns, WindowOf
  <1>2. \A st, i : AskedAt(g, x, st, i) = AskedAt(g, rn, st, i)
    BY <1>1 DEF AskedAt
  <1> QED
    BY <1>2 DEF Pending, StackTrue

\* A search that ends without entering another: told as asked.
LEMMA ReturnTrue ==
  ASSUME Shape, Truth, stage = "search", stage' = "back", game' = game, stack' = stack, call' = call,
         run' \in RunSet(game), AlikeRuns(run, run'), TableTrue(game, table'),
         ret' # <<>> => /\ game.least <= ret'[1] /\ ret'[1] <= game.most
                        /\ Tells(game.worth[arg.w.mk], arg.a, arg.b, ret'[1])
  PROVE  Truth'
  <1>1. RunKept(game, plan, run) /\ ArgKept(game, run, stack, arg)
    BY DEF Shape
  <1>2. StackTrue(game, run, stack)
    BY DEF Truth
  <1> DEFINE x == run'
  <1>3. StackTrue(game, x, stack) /\ Pending(game, x, stack) = Pending(game, run, stack)
    <2>1. AlikeRuns(run, x)
      OBVIOUS
    <2> HIDE DEF x
    <2> QED
      BY <1>2, <2>1, AlikeAsk
  <1>4. RunTrue(game, run')
    BY DEF Truth, RunTrue, AlikeRuns, Searching
  <1>5. RetTrue(game, Pending(game, run', stack), ret')
    <2>1. arg.w = Pending(game, run, stack).w /\ arg.a = Pending(game, run, stack).a /\ arg.b = Pending(game, run, stack).b
      BY <1>1 DEF ArgKept
    <2>2. RetTrue(game, Pending(game, run, stack), ret')
      BY <2>1 DEF RetTrue
    <2> QED
      BY <1>3, <2>2
  <1> QED
    BY <1>3, <1>4, <1>5 DEF Truth

\* A search about to be made, with a table that is true.
LEMMA AskedTrue ==
  ASSUME Shape, Truth, stage = "search"
  PROVE  /\ TableTrue(game, table) /\ StackTrue(game, run, stack) /\ Proper(game, arg.a, arg.b)
         /\ game.least \in Int /\ game.most \in Int
         /\ game.worth[arg.w.mk] \in Int /\ game.least <= game.worth[arg.w.mk] /\ game.worth[arg.w.mk] <= game.most
  <1>1. /\ game \in Library /\ RunKept(game, plan, run) /\ IndexKept(game, stage, run) /\ StackKept(game, run, stack)
        /\ ArgKept(game, run, stack, arg)
    BY DEF Shape, Fixed, Searching
  <1>2. TableTrue(game, table) /\ StackTrue(game, run, stack)
    BY DEF Truth
  <1>3. run.mode = "mtd_f" => run.i < run.j
    <2>1. run.i \in Int /\ run.j \in Int /\ run.k \in Int
      BY <1>1 DEF RunKept, RunSet
    <2> QED
      BY <1>1, <2>1 DEF IndexKept
  <1>4. Proper(game, arg.a, arg.b)
    <2>1. Proper(game, Pending(game, run, stack).a, Pending(game, run, stack).b)
      BY <1>1, <1>2, <1>3, PendingProper
    <2>2. arg.a = Pending(game, run, stack).a /\ arg.b = Pending(game, run, stack).b
      BY <1>1 DEF ArgKept
    <2> QED
      BY <2>1, <2>2
  <1>5. arg.w.mk \in DOMAIN game.worth
    BY ArgIs
  <1> QED
    BY <1>1, <1>2, <1>4, <1>5, SumsBetween, WorthBetween

\* What settles the search, or the position's value, is what is told.
LEMMA ReturnWorth ==
  ASSUME Shape, Truth, stage = "search", stage' = "back", game' = game, stack' = stack, call' = call, run' = run,
         NEW v \in Int, ret' = <<v>>, TableTrue(game, table'), v = game.worth[arg.w.mk]
  PROVE  Truth'
  <1>1. arg.a \in Int /\ arg.b \in Int
    BY ArgIs
  <1>2. game.least <= v /\ v <= game.most
    BY AskedTrue
  <1>3. Tells(game.worth[arg.w.mk], arg.a, arg.b, v)
    BY <1>1, TellsExactly
  <1>4. run' \in RunSet(game) /\ AlikeRuns(run, run')
    BY RunIs DEF AlikeRuns
  <1>5. ret'[1] = v
    OBVIOUS
  <1>6. ret' # <<>> => /\ game.least <= ret'[1] /\ ret'[1] <= game.most
                       /\ Tells(game.worth[arg.w.mk], arg.a, arg.b, ret'[1])
    BY <1>2, <1>3, <1>5
  <1> QED
    BY <1>4, <1>6, ReturnTrue

\* A search that returns nothing keeps the truth.
LEMMA ReturnNothing ==
  ASSUME Shape, Truth, stage = "search", stage' = "back", game' = game, stack' = stack, call' = call,
         run' \in RunSet(game), AlikeRuns(run, run'), table' = table, ret' = <<>>
  PROVE  Truth'
  <1>1. TableTrue(game, table')
    BY DEF Truth
  <1> QED
    BY <1>1, ReturnTrue

\* What is stored of a position whose value is known, and told.
LEMMA StoreWorth ==
  ASSUME Shape, Truth, stage = "search", stage' = "back", game' = game, stack' = stack, call' = call, run' = run,
         NEW v \in Int, ret' = <<v>>, v = game.worth[arg.w.mk], NEW best \in SUBSET RuleMoves(game, arg.w.mk), Store(KeyOf(arg.w), v, v, best)
  PROVE  Truth'
  <1>1. game \in Library /\ TableKept(game, table) /\ KeyOf(arg.w) \in KeySet(game) /\ KeyOf(arg.w).mk = arg.w.mk
    BY ArgIs
  <1>2. TableTrue(game, table) /\ game.least <= v /\ v <= game.most
    BY AskedTrue
  <1>3. TableTrue(game, table')
    <2> DEFINE k == KeyOf(arg.w)
    <2>1. k \in KeySet(game) /\ best \in SUBSET RuleMoves(game, k.mk) /\ v = game.worth[k.mk] /\ Store(k, v, v, best)
      BY <1>1
    <2> HIDE DEF k
    <2>2. v <= game.worth[k.mk] /\ game.worth[k.mk] <= v
      BY <2>1
    <2> QED
      BY <1>1, <1>2, <2>1, <2>2, StoreTrue
  <1> QED
    BY <1>3, ReturnWorth

\* Giving up keeps the truth: it tells nobody anything.
LEMMA GiveUpTrue ==
  ASSUME Shape, Truth, GiveUp
  PROVE  Truth'
  <1>1. /\ game' = game /\ table' = table /\ call' = call /\ stack' = stack /\ run' = run
        /\ stage = "search" /\ stage' = "back" /\ ret' = <<>>
    BY DEF GiveUp, Enter, Return
  <1>2. run' \in RunSet(game) /\ AlikeRuns(run, run')
    BY <1>1, RunIs DEF AlikeRuns
  <1> QED
    BY <1>1, <1>2, ReturnNothing

\* A spill keeps the truth: it tells nobody anything.
LEMMA SpillTrue ==
  ASSUME Shape, Truth, stage = "search", game' = game, call' = call, SpillNow
  PROVE  Truth'
  <1> DEFINE yes == TRUE
             x == [run EXCEPT !.spilled = yes]
  <1>1. /\ game' = game /\ table' = table /\ call' = call /\ stack' = stack /\ stage' = "back" /\ ret' = <<>> /\ run' = x
    BY DEF SpillNow, Return
  <1>2. yes \in BOOLEAN /\ run \in RunSet(game)
    BY RunIs
  <1> HIDE DEF yes
  <1>3. x \in RunSet(game) /\ AlikeRuns(run, x)
    BY <1>2 DEF RunSet, AlikeRuns
  <1> HIDE DEF x
  <1> QED
    BY <1>1, <1>3, ReturnNothing

\* What is answered from the table is true of the window asked.
LEMMA RecallTrue ==
  ASSUME Shape, Truth, Recall
  PROVE  Truth'
  <1>1. /\ game' = game /\ table' = table /\ call' = call /\ stack' = stack /\ run' = run /\ stage = "search" /\ stage' = "back"
    BY DEF Recall, Goes, Enter, Return
  <1>2. PICK e \in Held(KeyOf(arg.w)) : Settles(e) /\ ret' = <<IF e.lo = e.hi \/ e.lo >= arg.b THEN e.lo ELSE e.hi>>
    BY DEF Recall, Return
  <1> DEFINE v == IF e.lo = e.hi \/ e.lo >= arg.b THEN e.lo ELSE e.hi
             x == game.worth[arg.w.mk]
  <1>3. /\ TableTrue(game, table) /\ Proper(game, arg.a, arg.b) /\ arg.a \in Int /\ arg.b \in Int /\ TableKept(game, table)
        /\ KeyOf(arg.w).mk = arg.w.mk /\ x \in Int /\ game.least \in Int /\ game.most \in Int
    BY <1>1, AskedTrue, ArgIs
  <1>4. e \in table /\ e.key = KeyOf(arg.w) /\ e.lo \in Int /\ e.hi \in Int
    BY <1>3, HeldIs
  <1>5. e.lo <= x /\ x <= e.hi /\ game.least <= e.lo /\ e.hi <= game.most
    BY <1>3, <1>4 DEF TableTrue
  <1>6. ret'[1] = v
    BY <1>2
  <1>7. e.lo = e.hi \/ e.lo >= arg.b \/ e.hi <= arg.a
    BY <1>2 DEF Settles
  <1> HIDE DEF x
  <1>8. game.least <= v /\ v <= game.most
    BY <1>3, <1>4, <1>5
  <1>9. Tells(x, arg.a, arg.b, v)
    BY <1>3, <1>4, <1>5, <1>7 DEF Tells, Proper
  <1> HIDE DEF v
  <1>10. run' \in RunSet(game) /\ AlikeRuns(run, run') /\ TableTrue(game, table')
    BY <1>1, <1>3, RunIs DEF AlikeRuns
  <1>11. ret' # <<>> => /\ game.least <= ret'[1] /\ ret'[1] <= game.most
                        /\ Tells(game.worth[arg.w.mk], arg.a, arg.b, ret'[1])
    BY <1>6, <1>8, <1>9 DEF x
  <1> QED
    BY <1>1, <1>10, <1>11, ReturnTrue

\* What is answered at the end of a game is what it pays.
LEMMA FinalTrue ==
  ASSUME Shape, Truth, Final
  PROVE  Truth'
  <1> DEFINE best == {}
             v == Score(arg.w)
  <1>1. /\ game' = game /\ call' = call /\ stack' = stack /\ run' = run /\ stage = "search" /\ stage' = "back"
        /\ ret' = <<v>> /\ Store(KeyOf(arg.w), v, v, best) /\ Over(arg.w)
    BY DEF Final, Unsettled, Goes, Enter, Return
  <1>2. /\ arg.w.mk \in DOMAIN game.worth /\ RuleMoves(game, arg.w.mk) = {} /\ v = RewardAt(game, arg.w.mk) /\ game \in Library
    BY <1>1, ArgIs
  <1>3. v = game.worth[arg.w.mk]
    BY <1>2, BestMove
  <1>4. game.worth[arg.w.mk] \in Int
    BY <1>2, WorthBetween
  <1>5. best \in SUBSET RuleMoves(game, arg.w.mk)
    OBVIOUS
  <1> HIDE DEF best, v
  <1>6. v \in Int
    BY <1>3, <1>4
  <1> QED
    BY <1>1, <1>3, <1>5, <1>6, StoreWorth

\* A position with a move that wins all there is to win is worth that.
LEMMA WonTrue ==
  ASSUME Shape, Truth, stage = "search", game' = game, call' = call, NEW t \in RuleMoves(game, arg.w.mk), ExpandsWon(t)
  PROVE  Truth'
  <1> DEFINE best == {t}
             v == Bound(Mover(arg.w))
  <1>1. /\ Store(KeyOf(arg.w), v, v, best) /\ ret' = <<v>> /\ stage' = "back" /\ run' = run /\ stack' = stack
        /\ game.worth[RuleAfter(game, arg.w.mk, t)] = v
    BY DEF ExpandsWon
  <1>2. game \in Library /\ arg.w.mk \in DOMAIN game.worth /\ Mover(arg.w) = MoverAt(game, arg.w.mk)
    BY ArgIs
  <1>3. v = game.worth[arg.w.mk]
    BY <1>1, <1>2, WonNow
  <1>4. v \in Int
    BY <1>2, <1>3, WorthBetween
  <1>5. best \in SUBSET RuleMoves(game, arg.w.mk)
    OBVIOUS
  <1> HIDE DEF best, v
  <1> QED
    BY <1>1, <1>3, <1>4, <1>5, StoreWorth

\* A position whose moves all lose everything is worth that.
LEMMA LostTrue ==
  ASSUME Shape, Truth, stage = "search", game' = game, call' = call, ~ Over(arg.w), ExpandsLost
  PROVE  Truth'
  <1> DEFINE best == {}
             v == Bound(- Mover(arg.w))
  <1>1. /\ Store(KeyOf(arg.w), v, v, best) /\ ret' = <<v>> /\ stage' = "back" /\ run' = run /\ stack' = stack
        /\ \A t \in RuleMoves(game, arg.w.mk) : game.worth[RuleAfter(game, arg.w.mk, t)] = v
    BY DEF ExpandsLost
  <1>2. game \in Library /\ arg.w.mk \in DOMAIN game.worth /\ Mover(arg.w) = MoverAt(game, arg.w.mk) /\ RuleMoves(game, arg.w.mk) # {}
    BY ArgIs
  <1>3. v = game.worth[arg.w.mk]
    BY <1>1, <1>2, LostNow
  <1>4. v \in Int
    BY <1>2, <1>3, WorthBetween
  <1>5. best \in SUBSET RuleMoves(game, arg.w.mk)
    OBVIOUS
  <1> HIDE DEF best, v
  <1> QED
    BY <1>1, <1>3, <1>4, <1>5, StoreWorth

\* A search that enters another, from the top of a stack that is true.
LEMMA EnterTrue ==
  ASSUME Shape, Truth, stage \in {"search", "back"}, stage' = "search", game' = game, call' = call, run' = run, table' = table,
         NEW st, StackKept(game, run, st), StackTrue(game, run, st),
         NEW f, FrameKept(game, run, f), f.w = Pending(game, run, st).w, FrameTrue(game, f, Pending(game, run, st)),
         stack' = Append(st, f)
  PROVE  Truth'
  <1>1. /\ Len(Append(st, f)) = Len(st) + 1 /\ Append(st, f)[Len(st) + 1] = f /\ \A i \in 1 .. Len(st) : Append(st, f)[i] = st[i]
        /\ \A i \in 1 .. Len(st) + 1 : AskedAt(game, run, Append(st, f), i) = AskedAt(game, run, st, i)
        /\ Len(st) \in Nat
    BY PushIs
  <1>2. AskedAt(game, run, st, Len(st) + 1) = Pending(game, run, st)
    BY DEF Pending
  <1>3. StackTrue(game, run, Append(st, f))
    <2> SUFFICES ASSUME NEW i \in 1 .. Len(st) + 1
                 PROVE  FrameTrue(game, Append(st, f)[i], AskedAt(game, run, st, i))
      BY <1>1 DEF StackTrue
    <2>1. CASE i = Len(st) + 1
      BY <1>1, <1>2, <2>1
    <2>2. CASE i # Len(st) + 1
      <3>1. i \in 1 .. Len(st)
        BY <1>1, <2>2
      <3> QED
        BY <1>1, <3>1 DEF StackTrue
    <2> QED
      BY <2>1, <2>2
  <1> QED
    BY <1>3 DEF Truth, Searching

\* A frame as it is opened: all its position's moves are there, but for those a
\* filter dropped, of the search or of the root.
LEMMA OpenedTrue ==
  ASSUME Shape, Truth, OneFilter, stage = "search", ~ Over(arg.w), \A e \in Held(KeyOf(arg.w)) : ~ Settles(e),
         NEW kept, ExpandsOpen(kept), NEW f, Opened(f, kept)
  PROVE  f.kids # <<>> /\ FrameTrue(game, f, Pending(game, run, stack))
  <1> DEFINE x == arg.w.mk
             T == RuleMoves(game, x)
             after(t) == game.worth[RuleAfter(game, x, t)]
             q == Pending(game, run, stack)
             present(t) == \E i \in 1 .. Len(f.kids) : f.kids[i].t = t
             asked(t) == arg.root => \A r \in run.ranked : t \in Range(r.order)
  <1>1. /\ game \in Library /\ x \in DOMAIN game.worth /\ Mover(arg.w) = MoverAt(game, x) /\ T # {}
    BY ArgIs
  <1>2. /\ RunKept(game, plan, run) /\ IndexKept(game, "search", run) /\ ArgKept(game, run, stack, arg)
    BY DEF Shape, Searching
  <1>3. TableTrue(game, table) /\ Proper(game, arg.a, arg.b)
    BY AskedTrue
  <1>4. /\ Proper(game, f.a0, f.b0) /\ f.a0 \in Int /\ f.b0 \in Int
        /\ f.a0 = arg.a \/ (arg.a <= f.a0 /\ f.a0 <= game.worth[x])
        /\ f.b0 = arg.b \/ (game.worth[x] <= f.b0 /\ f.b0 <= arg.b)
    BY <1>3, LeftProper DEF Opened
  <1>5. f.w = arg.w /\ f.s = MoverAt(game, x) /\ f.next = 1 /\ f.best = <<>> /\ f.a = f.a0 /\ f.b = f.b0
    BY <1>1 DEF Opened
  <1>6. q.a = arg.a /\ q.b = arg.b
    BY <1>2 DEF ArgKept
  <1>7. MoverAt(game, x) \in {-1, 1}
    BY <1>1, BestMove
  <1>8. Bound(- MoverAt(game, x)) = WorstOf(game, MoverAt(game, x))
    <2>1. Bound(-1) = game.least /\ Bound(-(-1)) = game.most
      BY <1>1, BoundIs
    <2> QED
      BY <1>7, <2>1 DEF WorstOf
  <1>9. \A t \in T : (\E c \in kept : c.t = t) \/ (plan.non_losing /\ after(t) = WorstOf(game, MoverAt(game, x)))
    BY <1>1, <1>8 DEF ExpandsOpen
  <1>10. \A c \in kept : asked(c.t) => present(c.t)
    BY DEF Opened
  <1>11. \E c \in kept : c.t \in T
    BY DEF ExpandsOpen
  <1>12. ASSUME arg.root
         PROVE  run.at = x
    <2>1. stack = <<>> /\ arg.w = q.w
      BY <1>2, <1>12 DEF ArgKept
    <2>2. arg.w = WalkOf(game, run.at, run.bits)
      BY <2>1, PendingFirst
    <2> QED
      BY <2>2 DEF WalkOf
  <1>13. ASSUME arg.root, NEW r \in run.ranked
         PROVE  /\ r.order # <<>> /\ Range(r.order) \subseteq T /\ r.order \in Seq(Transition)
                /\ \A t \in T \ Range(r.order) : plan.root_non_losing /\ after(t) = WorstOf(game, MoverAt(game, x))
    <2>1. RankOf(game, plan.root_non_losing, x, r) /\ r.order # <<>>
      BY <1>2, <1>12, <1>13 DEF RunKept, IndexKept
    <2> QED
      BY <1>7, <2>1 DEF RankOf, WorstOf
  <1>14. \A r, z \in run.ranked : r = z
    BY <1>2 DEF RunKept, AtMostOne
  <1>15. ASSUME NEW t \in T, ~ asked(t)
         PROVE  plan.root_non_losing /\ after(t) = WorstOf(game, MoverAt(game, x))
    <2>1. PICK r \in run.ranked : t \notin Range(r.order) /\ arg.root
      BY <1>15
    <2> QED
      BY <1>13, <2>1
  <1> HIDE DEF after, present, asked, T, x, q
  <1>16. \E t \in T : present(t)
    <2>1. CASE plan.root_non_losing
      <3>1. \A t \in T : \E c \in kept : c.t = t
        BY <1>9, <2>1 DEF OneFilter
      <3>2. \E t \in T : asked(t)
        <4>1. CASE arg.root /\ run.ranked # {}
          <5>1. PICK r \in run.ranked : TRUE
            BY <4>1
          <5>2. r.order # <<>> /\ Range(r.order) \subseteq T /\ r.order \in Seq(Transition)
            BY <1>13, <4>1
          <5>3. r.order[1] \in Range(r.order)
            <6>1. 1 \in DOMAIN r.order
              BY <5>2, EmptySeq, LenProperties
            <6> QED
              BY <6>1 DEF Range
          <5>4. asked(r.order[1])
            BY <1>14, <5>3 DEF asked
          <5> QED
            BY <5>2, <5>3, <5>4
        <4>2. CASE ~ (arg.root /\ run.ranked # {})
          BY <1>11, <4>2 DEF asked
        <4> QED
          BY <4>1, <4>2
      <3> QED
        BY <1>10, <3>1, <3>2
    <2>2. CASE ~ plan.root_non_losing
      <3>1. \A t \in T : asked(t)
        BY <1>15, <2>2
      <3> QED
        BY <1>10, <1>11, <3>1
    <2> QED
      BY <2>1, <2>2
  <1>17. f.kids # <<>>
    <2>1. \E i \in 1 .. Len(f.kids) : TRUE
      BY <1>16 DEF present
    <2>2. Len(<<>>) = 0
      OBVIOUS
    <2> QED
      BY <2>1, <2>2
  <1>18. \A t \in T : present(t) \/ after(t) = WorstOf(game, f.s)
    BY <1>5, <1>9, <1>10, <1>15
  <1>19. FrameTrue(game, f, q)
    <2>1. f.w.mk = x
      BY <1>5 DEF x
    <2>2. \A t \in RuleMoves(game, f.w.mk) : (\E i \in 1 .. Len(f.kids) : f.kids[i].t = t)
                                             \/ game.worth[RuleAfter(game, f.w.mk, t)] = WorstOf(game, f.s)
      BY <1>18, <2>1 DEF present, after, T
    <2> QED
      BY <1>4, <1>5, <1>6, <2>1, <2>2 DEF FrameTrue
  <1> QED
    BY <1>17, <1>19 DEF q

\* Expanding keeps the truth: moves dropped by one filter leave another as good.
LEMMA ExpandTrue ==
  ASSUME Shape, Truth, OneFilter, Expand
  PROVE  Truth'
  <1>1. stage = "search" /\ game' = game /\ call' = call /\ ~ Over(arg.w)
    BY ExpandIs
  <1>2. CASE SpillNow /\ run.bits
    BY <1>1, <1>2, SpillTrue
  <1>3. CASE \E t \in RuleMoves(game, arg.w.mk) : ExpandsWon(t)
    BY <1>1, <1>3, WonTrue
  <1>4. CASE ExpandsLost
    BY <1>1, <1>4, LostTrue
  <1>5. ASSUME NEW kept, ExpandsOpen(kept)
        PROVE  Truth'
    <2>1. PICK f : /\ Opened(f, kept)
                   /\ IF f.kids = <<>> THEN Childless(f)
                      ELSE stack' = Append(stack, f) /\ arg' = SearchNext(f) /\ table' = table /\ ret' = ret /\ stage' = stage /\ losses' = losses
      BY <1>5 DEF ExpandsOpen
    <2>2. \A e \in Held(KeyOf(arg.w)) : ~ Settles(e)
      BY DEF Expand, Unsettled
    <2>3. f.kids # <<>> /\ FrameTrue(game, f, Pending(game, run, stack))
      BY <1>1, <1>5, <2>1, <2>2, OpenedTrue
    <2>4. FrameKept(game, run, f)
      BY <1>1, <2>1, <2>3, OpenedKept
    <2>5. run' = run /\ stack' = Append(stack, f) /\ table' = table /\ stage' = "search"
      BY <1>1, <1>5, <2>1, <2>3 DEF ExpandsOpen
    <2>6. StackKept(game, run, stack) /\ StackTrue(game, run, stack) /\ f.w = Pending(game, run, stack).w
      BY <1>1, <2>1 DEF Shape, Truth, ArgKept, Opened
    <2> QED
      BY <1>1, <2>3, <2>4, <2>5, <2>6, EnterTrue
  <1> QED
    BY <1>2, <1>3, <1>4, <1>5, ExpandIs

\* What a frame knows once the child it waited for told of it, for either side:
\* unless the window is cut off, its best bounds one kid more.
KnowsMost(g, f, l) ==
  /\ l.best # <<>> /\ l.best[1] \in Int /\ g.least <= l.best[1] /\ l.best[1] <= g.most
  /\ l.b = f.b0 /\ l.a = Max({f.a0, l.best[1]})
  /\ l.a < l.b => \A i \in 1 .. f.next : g.worth[RuleAfter(g, f.w.mk, f.kids[i].t)] <= l.best[1]
  /\ l.best[1] > f.a0 => \E t \in RuleMoves(g, f.w.mk) : g.worth[RuleAfter(g, f.w.mk, t)] >= l.best[1]

\* The maximizer knows more by a kid's answer: the value of the moves seen, within the
\* window.
LEMMA LearnedMost ==
  ASSUME NEW g \in Library, NEW rn, NEW f, FrameKept(g, rn, f), NEW q, FrameTrue(g, f, q), f.s = 1,
         NEW v \in Int, g.least <= v, v <= g.most, NEW x, x = g.worth[RuleAfter(g, f.w.mk, f.kids[f.next].t)], x \in Int, Tells(x, f.a, f.b, v)
  PROVE  KnowsMost(g, f, Learned(f, v))
  <1> DEFINE l == Learned(f, v)
             after(t) == g.worth[RuleAfter(g, f.w.mk, t)]
             T == RuleMoves(g, f.w.mk)
             u == f.best[1]
             w == l.best[1]
  <1>1. /\ f \in FrameSet(g) /\ f.next \in 1 .. Len(f.kids) /\ f.kids[f.next].t \in T
        /\ f.a0 \in Int /\ f.b0 \in Int /\ f.a \in Int /\ f.b \in Int /\ f.next \in Int
    <2>1. f \in FrameSet(g)
      BY DEF FrameKept
    <2>2. f.next \in Int /\ f.kids \in Seq(KidSet(g)) /\ f.a0 \in Int /\ f.b0 \in Int /\ f.a \in Int /\ f.b \in Int
      BY <2>1 DEF FrameSet
    <2>3. f.next \in 1 .. Len(f.kids)
      BY <2>2 DEF FrameKept
    <2> QED
      BY <2>1, <2>2, <2>3 DEF FrameKept
  <1>2. /\ Improves(f, v) => l.best = <<v>>
        /\ ~ Improves(f, v) => l.best = f.best
        /\ l.a = Max({f.a, v}) /\ l.b = f.b
    BY <1>1, LearnedIs
  <1>3. Improves(f, v) <=> f.best = <<>> \/ v > u
    BY DEF Improves
  <1>4. /\ f.best = <<>> => f.next = 1 /\ f.a = f.a0 /\ f.b = f.b0
        /\ f.best # <<>> => /\ g.least <= u /\ u <= g.most /\ u \in Int
                            /\ f.b = f.b0 /\ f.a = Max({f.a0, u})
                            /\ \A i \in 1 .. f.next - 1 : after(f.kids[i].t) <= u
                            /\ u > f.a0 => \E t \in T : after(t) >= u
    <2>1. f.best # <<>> => u \in Int
      <3>1. f.best \in Seq(Int)
        BY <1>1 DEF FrameSet
      <3>2. f.best # <<>> => Len(f.best) \in Nat /\ Len(f.best) # 0
        BY <3>1, EmptySeq, LenProperties
      <3> QED
        BY <3>1, <3>2
    <2> QED
      BY <2>1 DEF FrameTrue
  <1>5. after(f.kids[f.next].t) = x
    OBVIOUS
  <1>6. g.least \in Int /\ g.most \in Int
    BY SumsBetween
  <1>7. /\ w = IF f.best = <<>> \/ v > u THEN v ELSE u
        /\ l.best # <<>> /\ w \in Int
    BY <1>2, <1>3, <1>4
  <1> HIDE DEF l, after, u, w, T
  <1>8. g.least <= w /\ w <= g.most
    BY <1>4, <1>6, <1>7
  <1>9. l.a = Max({f.a0, w}) /\ l.b = f.b0 /\ l.a = IF f.a0 <= w THEN w ELSE f.a0
    <2>1. l.a = IF f.a <= v THEN v ELSE f.a
      BY <1>1, <1>2, MaxTwo
    <2>2. Max({f.a0, w}) = IF f.a0 <= w THEN w ELSE f.a0
      BY <1>1, <1>7, MaxTwo
    <2>3. f.best # <<>> => f.a = IF f.a0 <= u THEN u ELSE f.a0
      BY <1>1, <1>4, MaxTwo
    <2> QED
      BY <1>1, <1>2, <1>4, <1>7, <2>1, <2>2, <2>3
  <1>10. f.best # <<>> => f.a = IF f.a0 <= u THEN u ELSE f.a0
    BY <1>1, <1>4, MaxTwo
  <1>11. v <= w /\ (f.best # <<>> => u <= w)
    BY <1>4, <1>7
  <1>12. ASSUME l.a < l.b, NEW i \in 1 .. f.next
         PROVE  after(f.kids[i].t) <= w
    <2>1. CASE i = f.next
      <3>1. v < f.b
        BY <1>1, <1>2, <1>4, <1>7, <1>9, <1>11, <1>12
      <3>2. x <= v
        BY <1>1, <3>1 DEF Tells
      <3> QED
        BY <1>5, <1>7, <1>11, <2>1, <3>2
    <2>2. CASE i # f.next
      <3>1. i \in 1 .. f.next - 1 /\ f.next # 1
        BY <1>1, <2>2
      <3>2. f.best # <<>>
        BY <1>4, <3>1
      <3>3. after(f.kids[i].t) <= u
        BY <1>4, <3>1, <3>2
      <3>4. f.kids[i].t \in T /\ after(f.kids[i].t) \in Int
        <4>1. i \in 1 .. Len(f.kids)
          BY <1>1, <3>1 DEF FrameKept, FrameSet
        <4>2. f.kids[i].t \in T /\ f.w.mk \in DOMAIN g.worth
          BY <1>1, <4>1, FaithfulIs DEF FrameKept, FrameSet, T
        <4> QED
          BY <4>2, BestMove, WorthBetween DEF after, T
      <3> QED
        BY <1>4, <1>7, <1>11, <3>2, <3>3, <3>4
    <2> QED
      BY <2>1, <2>2
  <1>13. ASSUME w > f.a0
         PROVE  \E t \in T : after(t) >= w
    <2>1. CASE f.best = <<>> \/ v > u
      <3>1. w = v /\ v > f.a
        BY <1>1, <1>4, <1>7, <1>10, <1>13, <2>1
      <3>2. x >= v
        BY <1>1, <3>1 DEF Tells
      <3> QED
        BY <1>1, <1>5, <3>1, <3>2
    <2>2. CASE ~ (f.best = <<>> \/ v > u)
      <3>1. w = u
        BY <1>7, <2>2
      <3> QED
        BY <1>4, <1>13, <2>2, <3>1
    <2> QED
      BY <2>1, <2>2
  <1> QED
    BY <1>7, <1>8, <1>9, <1>12, <1>13 DEF l, after, w, T, KnowsMost

KnowsLeast(g, f, l) ==
  /\ l.best # <<>> /\ l.best[1] \in Int /\ g.least <= l.best[1] /\ l.best[1] <= g.most
  /\ l.a = f.a0 /\ l.b = Min({f.b0, l.best[1]})
  /\ l.a < l.b => \A i \in 1 .. f.next : g.worth[RuleAfter(g, f.w.mk, f.kids[i].t)] >= l.best[1]
  /\ l.best[1] < f.b0 => \E t \in RuleMoves(g, f.w.mk) : g.worth[RuleAfter(g, f.w.mk, t)] <= l.best[1]

\* The minimizer knows more by a kid's answer: the value of the moves seen, within the
\* window.
LEMMA LearnedLeast ==
  ASSUME NEW g \in Library, NEW rn, NEW f, FrameKept(g, rn, f), NEW q, FrameTrue(g, f, q), f.s = -1,
         NEW v \in Int, g.least <= v, v <= g.most, NEW x, x = g.worth[RuleAfter(g, f.w.mk, f.kids[f.next].t)], x \in Int, Tells(x, f.a, f.b, v)
  PROVE  KnowsLeast(g, f, Learned(f, v))
  <1> DEFINE l == Learned(f, v)
             after(t) == g.worth[RuleAfter(g, f.w.mk, t)]
             T == RuleMoves(g, f.w.mk)
             u == f.best[1]
             w == l.best[1]
  <1>1. /\ f \in FrameSet(g) /\ f.next \in 1 .. Len(f.kids) /\ f.kids[f.next].t \in T
        /\ f.a0 \in Int /\ f.b0 \in Int /\ f.a \in Int /\ f.b \in Int /\ f.next \in Int
    <2>1. f \in FrameSet(g)
      BY DEF FrameKept
    <2>2. f.next \in Int /\ f.kids \in Seq(KidSet(g)) /\ f.a0 \in Int /\ f.b0 \in Int /\ f.a \in Int /\ f.b \in Int
      BY <2>1 DEF FrameSet
    <2>3. f.next \in 1 .. Len(f.kids)
      BY <2>2 DEF FrameKept
    <2> QED
      BY <2>1, <2>2, <2>3 DEF FrameKept
  <1>2. /\ Improves(f, v) => l.best = <<v>>
        /\ ~ Improves(f, v) => l.best = f.best
        /\ l.b = Min({f.b, v}) /\ l.a = f.a
    BY <1>1, LearnedIs
  <1>3. Improves(f, v) <=> f.best = <<>> \/ v < u
    BY DEF Improves
  <1>4. /\ f.best = <<>> => f.next = 1 /\ f.a = f.a0 /\ f.b = f.b0
        /\ f.best # <<>> => /\ g.least <= u /\ u <= g.most /\ u \in Int
                            /\ f.a = f.a0 /\ f.b = Min({f.b0, u})
                            /\ \A i \in 1 .. f.next - 1 : after(f.kids[i].t) >= u
                            /\ u < f.b0 => \E t \in T : after(t) <= u
    <2>1. f.best # <<>> => u \in Int
      <3>1. f.best \in Seq(Int)
        BY <1>1 DEF FrameSet
      <3>2. f.best # <<>> => Len(f.best) \in Nat /\ Len(f.best) # 0
        BY <3>1, EmptySeq, LenProperties
      <3> QED
        BY <3>1, <3>2
    <2> QED
      BY <2>1 DEF FrameTrue
  <1>5. after(f.kids[f.next].t) = x
    OBVIOUS
  <1>6. g.least \in Int /\ g.most \in Int
    BY SumsBetween
  <1>7. /\ w = IF f.best = <<>> \/ v < u THEN v ELSE u
        /\ l.best # <<>> /\ w \in Int
    BY <1>2, <1>3, <1>4
  <1> HIDE DEF l, after, u, w, T
  <1>8. g.least <= w /\ w <= g.most
    BY <1>4, <1>6, <1>7
  <1>9. l.b = Min({f.b0, w}) /\ l.a = f.a0 /\ l.b = IF f.b0 <= w THEN f.b0 ELSE w
    <2>1. l.b = IF f.b <= v THEN f.b ELSE v
      BY <1>1, <1>2, MinTwo
    <2>2. Min({f.b0, w}) = IF f.b0 <= w THEN f.b0 ELSE w
      BY <1>1, <1>7, MinTwo
    <2>3. f.best # <<>> => f.b = IF f.b0 <= u THEN f.b0 ELSE u
      BY <1>1, <1>4, MinTwo
    <2> QED
      BY <1>1, <1>2, <1>4, <1>7, <2>1, <2>2, <2>3
  <1>10. f.best # <<>> => f.b = IF f.b0 <= u THEN f.b0 ELSE u
    BY <1>1, <1>4, MinTwo
  <1>11. v >= w /\ (f.best # <<>> => u >= w)
    BY <1>4, <1>7
  <1>12. ASSUME l.a < l.b, NEW i \in 1 .. f.next
         PROVE  after(f.kids[i].t) >= w
    <2>1. CASE i = f.next
      <3>1. v > f.a
        BY <1>1, <1>2, <1>4, <1>7, <1>9, <1>11, <1>12
      <3>2. x >= v
        BY <1>1, <3>1 DEF Tells
      <3> QED
        BY <1>5, <1>7, <1>11, <2>1, <3>2
    <2>2. CASE i # f.next
      <3>1. i \in 1 .. f.next - 1 /\ f.next # 1
        BY <1>1, <2>2
      <3>2. f.best # <<>>
        BY <1>4, <3>1
      <3>3. after(f.kids[i].t) >= u
        BY <1>4, <3>1, <3>2
      <3>4. f.kids[i].t \in T /\ after(f.kids[i].t) \in Int
        <4>1. i \in 1 .. Len(f.kids)
          BY <1>1, <3>1 DEF FrameKept, FrameSet
        <4>2. f.kids[i].t \in T /\ f.w.mk \in DOMAIN g.worth
          BY <1>1, <4>1, FaithfulIs DEF FrameKept, FrameSet, T
        <4> QED
          BY <4>2, BestMove, WorthBetween DEF after, T
      <3> QED
        BY <1>4, <1>7, <1>11, <3>2, <3>3, <3>4
    <2> QED
      BY <2>1, <2>2
  <1>13. ASSUME w < f.b0
         PROVE  \E t \in T : after(t) <= w
    <2>1. CASE f.best = <<>> \/ v < u
      <3>1. w = v /\ v < f.b
        BY <1>1, <1>4, <1>7, <1>10, <1>13, <2>1
      <3>2. x <= v
        BY <1>1, <3>1 DEF Tells
      <3> QED
        BY <1>1, <1>5, <3>1, <3>2
    <2>2. CASE ~ (f.best = <<>> \/ v < u)
      <3>1. w = u
        BY <1>7, <2>2
      <3> QED
        BY <1>4, <1>13, <2>2, <3>1
    <2> QED
      BY <2>1, <2>2
  <1> QED
    BY <1>7, <1>8, <1>9, <1>12, <1>13 DEF l, after, w, T, KnowsLeast

\* What is known of a frame and of the answer it gets.
Hears(g, rn, f, q, v) ==
  /\ FrameKept(g, rn, f) /\ FrameTrue(g, f, q)
  /\ g.least <= v /\ v <= g.most
  /\ Tells(g.worth[RuleAfter(g, f.w.mk, f.kids[f.next].t)], f.a, f.b, v)

\* What a frame that hears an answer is known to be.
LEMMA HearsIs ==
  ASSUME NEW g \in Library, NEW rn, NEW f, NEW q, NEW v \in Int, Hears(g, rn, f, q, v)
  PROVE  /\ f \in FrameSet(g) /\ f.s \in {-1, 1} /\ f.w.mk \in DOMAIN g.worth /\ f.next \in 1 .. Len(f.kids) /\ f.next \in Int /\ Len(f.kids) \in Nat
         /\ f.a0 \in Int /\ f.b0 \in Int /\ f.a \in Int /\ f.b \in Int
         /\ f.kids[f.next].t \in RuleMoves(g, f.w.mk)
         /\ \A t \in RuleMoves(g, f.w.mk) : RuleAfter(g, f.w.mk, t) \in DOMAIN g.worth /\ g.worth[RuleAfter(g, f.w.mk, t)] \in Int
                                            /\ g.worth[RuleAfter(g, f.w.mk, t)] \in g.least .. g.most
  <1>1. f \in FrameSet(g)
    BY DEF Hears, FrameKept
  <1>2. /\ f.s \in {-1, 1} /\ f.next \in Int /\ Len(f.kids) \in Nat /\ f.w \in FaithfulWalks(g)
        /\ f.a0 \in Int /\ f.b0 \in Int /\ f.a \in Int /\ f.b \in Int
    <2>1. f.kids \in Seq(KidSet(g))
      BY <1>1 DEF FrameSet
    <2> QED
      BY <1>1, <2>1, LenProperties DEF FrameSet
  <1>3. f.w.mk \in DOMAIN g.worth
    BY <1>2, FaithfulIs
  <1>4. f.next \in 1 .. Len(f.kids)
    BY <1>2 DEF Hears, FrameKept
  <1>5. f.kids[f.next].t \in RuleMoves(g, f.w.mk)
    BY <1>4 DEF Hears, FrameKept
  <1>6. \A t \in RuleMoves(g, f.w.mk) : RuleAfter(g, f.w.mk, t) \in DOMAIN g.worth
    BY <1>3, BestMove
  <1> QED
    BY <1>1, <1>2, <1>3, <1>4, <1>5, <1>6, WorthBetween

\* A frame that goes on.
LEMMA GoesOn ==
  ASSUME NEW g \in Library, NEW rn, NEW f, NEW q, NEW v \in Int, Hears(g, rn, f, q, v),
         Learned(f, v).a < Learned(f, v).b, f.next < Len(f.kids)
  PROVE  FrameTrue(g, [Learned(f, v) EXCEPT !.next = f.next + 1], q)
  <1> DEFINE l == Learned(f, v)
             n == f.next + 1
             o == [l EXCEPT !.next = n]
             x == g.worth[RuleAfter(g, f.w.mk, f.kids[f.next].t)]
             w == l.best[1]
  <1>1. /\ f \in FrameSet(g) /\ f.s \in {-1, 1} /\ f.w.mk \in DOMAIN g.worth /\ f.next \in 1 .. Len(f.kids) /\ f.next \in Int
        /\ f.a0 \in Int /\ f.b0 \in Int /\ f.a \in Int /\ f.b \in Int /\ x \in Int
    BY HearsIs
  <1>2. /\ FrameKept(g, rn, f) /\ FrameTrue(g, f, q) /\ g.least <= v /\ v <= g.most /\ Tells(x, f.a, f.b, v)
    BY DEF Hears
  <1>3. /\ l \in FrameSet(g) /\ l.w = f.w /\ l.s = f.s /\ l.a0 = f.a0 /\ l.b0 = f.b0 /\ l.kids = f.kids
    BY <1>1, LearnedIs
  <1>4. n \in Int /\ n - 1 = f.next
    BY <1>1
  <1> HIDE DEF n
  <1>5. /\ o.w = f.w /\ o.s = f.s /\ o.a0 = f.a0 /\ o.b0 = f.b0 /\ o.kids = f.kids /\ o.next = n
        /\ o.a = l.a /\ o.b = l.b /\ o.best = l.best
    BY <1>3, <1>4 DEF FrameSet
  <1>6. f.s = 1 => /\ l.best # <<>> /\ w \in Int /\ g.least <= w /\ w <= g.most
                   /\ l.b = f.b0 /\ l.a = Max({f.a0, w})
                   /\ \A i \in 1 .. f.next : g.worth[RuleAfter(g, f.w.mk, f.kids[i].t)] <= w
                   /\ w > f.a0 => \E t \in RuleMoves(g, f.w.mk) : g.worth[RuleAfter(g, f.w.mk, t)] >= w
    <2>1. f.s = 1 => KnowsMost(g, f, l)
      BY <1>1, <1>2, LearnedMost
    <2> QED
      BY <2>1 DEF KnowsMost
  <1>7. f.s = -1 => /\ l.best # <<>> /\ w \in Int /\ g.least <= w /\ w <= g.most
                    /\ l.a = f.a0 /\ l.b = Min({f.b0, w})
                    /\ \A i \in 1 .. f.next : g.worth[RuleAfter(g, f.w.mk, f.kids[i].t)] >= w
                    /\ w < f.b0 => \E t \in RuleMoves(g, f.w.mk) : g.worth[RuleAfter(g, f.w.mk, t)] <= w
    <2>1. f.s = -1 => KnowsLeast(g, f, l)
      BY <1>1, <1>2, LearnedLeast
    <2> QED
      BY <2>1 DEF KnowsLeast
  <1>8. /\ g.least <= f.a /\ f.b <= g.most /\ f.a <= f.b
        /\ f.a0 = q.a \/ (q.a <= f.a0 /\ f.a0 <= g.worth[f.w.mk])
        /\ f.b0 = q.b \/ (g.worth[f.w.mk] <= f.b0 /\ f.b0 <= q.b)
        /\ \A t \in RuleMoves(g, f.w.mk) : (\E i \in 1 .. Len(f.kids) : f.kids[i].t = t) \/ g.worth[RuleAfter(g, f.w.mk, t)] = WorstOf(g, f.s)
    BY <1>2 DEF FrameTrue, Proper
  <1>9. g.least \in Int /\ g.most \in Int
    BY SumsBetween
  <1>10. /\ f.s = 1 => l.a = (IF f.a <= v THEN v ELSE f.a) /\ l.b = f.b
         /\ f.s = -1 => l.a = f.a /\ l.b = (IF f.b <= v THEN f.b ELSE v)
    <2>1. Turns(f, l, v)
      BY <1>1, LearnedIs
    <2> QED
      BY <2>1 DEF Turns
  <1>11. Proper(g, o.a, o.b)
    <2>1. g.least <= l.a /\ l.b <= g.most /\ l.a < l.b /\ l.a \in Int /\ l.b \in Int
      BY <1>1, <1>2, <1>8, <1>9, <1>10
    <2> HIDE DEF l, o
    <2> QED
      BY <1>5, <1>9, <2>1 DEF Proper
  <1> HIDE DEF l, o, x, w
  <1>12. o.best # <<>> /\ g.least <= o.best[1] /\ o.best[1] <= g.most
    BY <1>1, <1>5, <1>6, <1>7 DEF w
  <1>13. o.s = 1 => /\ o.b = o.b0 /\ o.a = Max({o.a0, o.best[1]})
                    /\ \A i \in 1 .. o.next - 1 : g.worth[RuleAfter(g, o.w.mk, o.kids[i].t)] <= o.best[1]
                    /\ o.best[1] > o.a0 => \E t \in RuleMoves(g, o.w.mk) : g.worth[RuleAfter(g, o.w.mk, t)] >= o.best[1]
    BY <1>4, <1>5, <1>6 DEF w
  <1>14. o.s = -1 => /\ o.a = o.a0 /\ o.b = Min({o.b0, o.best[1]})
                     /\ \A i \in 1 .. o.next - 1 : g.worth[RuleAfter(g, o.w.mk, o.kids[i].t)] >= o.best[1]
                     /\ o.best[1] < o.b0 => \E t \in RuleMoves(g, o.w.mk) : g.worth[RuleAfter(g, o.w.mk, t)] <= o.best[1]
    BY <1>4, <1>5, <1>7 DEF w
  <1>15. FrameTrue(g, o, q)
    BY <1>5, <1>8, <1>11, <1>12, <1>13, <1>14 DEF FrameTrue
  <1> QED
    BY <1>15 DEF o, l, n

\* A frame that is left: cut off, or with every kid seen.
LEMMA GoesBack ==
  ASSUME NEW g \in Library, NEW rn, NEW f, NEW q, NEW v \in Int, Hears(g, rn, f, q, v),
         Learned(f, v).a >= Learned(f, v).b \/ f.next = Len(f.kids)
  PROVE  /\ Tells(g.worth[f.w.mk], f.a0, f.b0, Learned(f, v).best[1])
         /\ Learned(f, v).best[1] \in Int /\ g.least <= Learned(f, v).best[1] /\ Learned(f, v).best[1] <= g.most
  <1> DEFINE l == Learned(f, v)
             after(t) == g.worth[RuleAfter(g, f.w.mk, t)]
             T == RuleMoves(g, f.w.mk)
             y == g.worth[f.w.mk]
             x == after(f.kids[f.next].t)
             w == l.best[1]
  <1>1. /\ f \in FrameSet(g) /\ f.s \in {-1, 1} /\ f.w.mk \in DOMAIN g.worth /\ f.next \in 1 .. Len(f.kids) /\ f.next \in Int
        /\ f.a0 \in Int /\ f.b0 \in Int /\ f.a \in Int /\ f.b \in Int /\ x \in Int /\ Len(f.kids) \in Nat
    BY HearsIs
  <1>2. /\ FrameKept(g, rn, f) /\ FrameTrue(g, f, q) /\ g.least <= v /\ v <= g.most /\ Tells(x, f.a, f.b, v)
    BY DEF Hears
  <1>3. f.s = 1 => /\ w \in Int /\ g.least <= w /\ w <= g.most
                   /\ l.b = f.b0 /\ l.a = Max({f.a0, w})
                   /\ l.a < l.b => \A i \in 1 .. f.next : after(f.kids[i].t) <= w
                   /\ w > f.a0 => \E t \in T : after(t) >= w
    <2>1. f.s = 1 => KnowsMost(g, f, l)
      BY <1>1, <1>2, LearnedMost
    <2> QED
      BY <2>1 DEF KnowsMost
  <1>4. f.s = -1 => /\ w \in Int /\ g.least <= w /\ w <= g.most
                    /\ l.a = f.a0 /\ l.b = Min({f.b0, w})
                    /\ l.a < l.b => \A i \in 1 .. f.next : after(f.kids[i].t) >= w
                    /\ w < f.b0 => \E t \in T : after(t) <= w
    <2>1. f.s = -1 => KnowsLeast(g, f, l)
      BY <1>1, <1>2, LearnedLeast
    <2> QED
      BY <2>1 DEF KnowsLeast
  <1>5. \A t \in T : after(t) \in Int /\ g.least <= after(t) /\ after(t) <= g.most
    <2>1. \A t \in T : after(t) \in Int /\ after(t) \in g.least .. g.most
      BY HearsIs
    <2>2. g.least \in Int /\ g.most \in Int
      BY SumsBetween
    <2> HIDE DEF after, T
    <2> QED
      BY <2>1, <2>2
  <1>6. y \in Int /\ g.least <= y /\ y <= g.most /\ g.least \in Int /\ g.most \in Int
    BY <1>1, WorthBetween, SumsBetween
  <1>7. /\ T # {} /\ f.s = MoverAt(g, f.w.mk)
        /\ \A t \in T : (\E i \in 1 .. Len(f.kids) : f.kids[i].t = t) \/ after(t) = WorstOf(g, f.s)
        /\ f.a <= f.b /\ (f.a = f.b => g.least = g.most)
    BY <1>2 DEF FrameKept, FrameTrue, Proper
  <1>8. /\ f.s = 1 => \A t \in T : after(t) <= y
        /\ f.s = -1 => \A t \in T : y <= after(t)
        /\ \E t \in T : after(t) = y
    BY <1>1, <1>7, BestMove
  <1>9. /\ f.s = 1 => f.b = f.b0 /\ f.a0 <= f.a
        /\ f.s = -1 => f.a = f.a0 /\ f.b <= f.b0
    <2>1. f.best # <<>> => f.best[1] \in Int
      <3>1. f.best \in Seq(Int)
        BY <1>1 DEF FrameSet
      <3>2. f.best # <<>> => Len(f.best) \in Nat /\ Len(f.best) # 0
        BY <3>1, EmptySeq, LenProperties
      <3> QED
        BY <3>1, <3>2
    <2>2. /\ f.best = <<>> => f.a = f.a0 /\ f.b = f.b0
          /\ f.best # <<>> /\ f.s = 1 => f.b = f.b0 /\ f.a = Max({f.a0, f.best[1]})
          /\ f.best # <<>> /\ f.s = -1 => f.a = f.a0 /\ f.b = Min({f.b0, f.best[1]})
      BY <1>2 DEF FrameTrue
    <2>3. f.best # <<>> => /\ Max({f.a0, f.best[1]}) = (IF f.a0 <= f.best[1] THEN f.best[1] ELSE f.a0)
                           /\ Min({f.b0, f.best[1]}) = (IF f.b0 <= f.best[1] THEN f.b0 ELSE f.best[1])
      BY <1>1, <2>1, MaxTwo, MinTwo
    <2> QED
      BY <1>1, <2>1, <2>2, <2>3
  <1>10. w \in Int /\ g.least <= w /\ w <= g.most
    BY <1>1, <1>3, <1>4
  <1> HIDE DEF l, after, T, y, x, w
  <1>11. CASE f.a0 >= f.b0
    <2>1. g.least = g.most
      BY <1>1, <1>7, <1>9, <1>11
    <2>2. w = y
      BY <1>6, <1>10, <2>1
    <2> QED
      BY <1>1, <1>6, <1>10, <2>2, TellsExactly DEF w, l, y
  <1>12. ASSUME f.s = 1, f.a0 < f.b0
         PROVE  Tells(y, f.a0, f.b0, w)
    <2>1. l.a = IF f.a0 <= w THEN w ELSE f.a0
      BY <1>1, <1>3, <1>10, <1>12, MaxTwo
    <2>2. w > f.a0 => y >= w
      BY <1>3, <1>5, <1>6, <1>8, <1>10, <1>12
    <2>3. CASE l.a < l.b
      <3>1. f.next = Len(f.kids)
        BY <1>1, <1>3, <1>10, <1>12, <2>1, <2>3 DEF l
      <3>2. \A t \in T : after(t) <= w
        <4> TAKE t \in T
        <4>1. CASE \E i \in 1 .. Len(f.kids) : f.kids[i].t = t
          BY <1>3, <1>12, <2>3, <3>1, <4>1
        <4>2. CASE after(t) = WorstOf(g, f.s)
          BY <1>10, <1>12, <4>2 DEF WorstOf
        <4> QED
          BY <1>7, <4>1, <4>2
      <3>3. y <= w
        BY <1>8, <3>2
      <3>4. w < f.b0
        BY <1>1, <1>3, <1>10, <1>12, <2>1, <2>3
      <3> QED
        BY <1>1, <1>6, <1>10, <2>2, <3>3, <3>4 DEF Tells
    <2>4. CASE ~ (l.a < l.b)
      <3>1. w >= f.b0
        BY <1>1, <1>3, <1>10, <1>12, <2>1, <2>4
      <3> QED
        BY <1>1, <1>6, <1>10, <1>12, <2>2, <3>1 DEF Tells
    <2> QED
      BY <2>3, <2>4
  <1>13. ASSUME f.s = -1, f.a0 < f.b0
         PROVE  Tells(y, f.a0, f.b0, w)
    <2>1. l.b = IF f.b0 <= w THEN f.b0 ELSE w
      BY <1>1, <1>4, <1>10, <1>13, MinTwo
    <2>2. w < f.b0 => y <= w
      BY <1>4, <1>5, <1>6, <1>8, <1>10, <1>13
    <2>3. CASE l.a < l.b
      <3>1. f.next = Len(f.kids)
        BY <1>1, <1>4, <1>10, <1>13, <2>1, <2>3 DEF l
      <3>2. \A t \in T : after(t) >= w
        <4> TAKE t \in T
        <4>1. CASE \E i \in 1 .. Len(f.kids) : f.kids[i].t = t
          BY <1>4, <1>13, <2>3, <3>1, <4>1
        <4>2. CASE after(t) = WorstOf(g, f.s)
          <5>1. after(t) = g.most
            BY <1>13, <4>2 DEF WorstOf
          <5> QED
            BY <1>6, <1>10, <5>1
        <4> QED
          BY <1>7, <4>1, <4>2
      <3>3. y >= w
        BY <1>8, <3>2
      <3>4. w > f.a0
        BY <1>1, <1>4, <1>10, <1>13, <2>1, <2>3
      <3> QED
        BY <1>1, <1>6, <1>10, <2>2, <3>3, <3>4 DEF Tells
    <2>4. CASE ~ (l.a < l.b)
      <3>1. w <= f.a0
        BY <1>1, <1>4, <1>10, <1>13, <2>1, <2>4
      <3> QED
        BY <1>1, <1>6, <1>10, <1>13, <2>2, <3>1 DEF Tells
    <2> QED
      BY <2>3, <2>4
  <1>14. Tells(y, f.a0, f.b0, w)
    <2>1. f.a0 >= f.b0 \/ f.a0 < f.b0
      BY <1>1
    <2> QED
      BY <1>1, <1>11, <1>12, <1>13, <2>1 DEF w, l, y
  <1> QED
    BY <1>10, <1>14 DEF w, l, y

\* A search that is left, with what it tells the one around it.
LEMMA PopTrue ==
  ASSUME Shape, Truth, stage = "back", stage' = "back", stack # <<>>, stack' = Below, game' = game, call' = call, run' = run,
         TableTrue(game, table'), RetTrue(game, AskedAt(game, run, stack, Len(stack)), ret')
  PROVE  Truth'
  <1>1. /\ Len(stack) \in Nat \ {0} /\ Len(Below) = Len(stack) - 1
        /\ \A i \in 1 .. Len(stack) - 1 : Below[i] = stack[i]
        /\ \A i \in 1 .. Len(stack) : AskedAt(game, run, Below, i) = AskedAt(game, run, stack, i)
        /\ Pending(game, run, Below) = AskedAt(game, run, stack, Len(stack))
    <2>1. StackKept(game, run, stack)
      BY DEF Shape
    <2> QED
      BY <2>1, PopIs DEF Below
  <1>2. StackTrue(game, run, Below)
    <2> SUFFICES ASSUME NEW i \in 1 .. Len(stack) - 1
                 PROVE  FrameTrue(game, Below[i], AskedAt(game, run, Below, i))
      BY <1>1 DEF StackTrue
    <2>1. i \in 1 .. Len(stack)
      BY <1>1
    <2>2. FrameTrue(game, stack[i], AskedAt(game, run, stack, i))
      BY <2>1 DEF Truth, StackTrue
    <2> QED
      BY <1>1, <2>1, <2>2
  <1>3. RetTrue(game, Pending(game, run, Below), ret')
    BY <1>1
  <1> QED
    BY <1>2, <1>3 DEF Truth, Searching

\* What the frame on top hears.
LEMMA TopHears ==
  ASSUME Shape, Truth, stage = "back", stack # <<>>, ret # <<>>
  PROVE  /\ ret[1] \in Int /\ Hears(game, run, Top, AskedAt(game, run, stack, Len(stack)), ret[1])
         /\ StackTrue(game, run, Below) /\ Pending(game, run, Below) = AskedAt(game, run, stack, Len(stack))
  <1> DEFINE v == ret[1]
  <1>1. v \in Int
    BY Answered
  <1>2. /\ game \in Library /\ StackKept(game, run, stack) /\ run.at \in DOMAIN game.worth /\ run.bits \in BOOLEAN /\ (run.bits => FitsBits(run.at))
    BY RunIs, TopIs
  <1>3. /\ FrameKept(game, run, Top) /\ Len(stack) \in Nat \ {0}
        /\ Pending(game, run, stack) = [w |-> Top.kids[Top.next].w, a |-> Top.a, b |-> Top.b]
    <2>1. Len(stack) \in Nat /\ (Len(stack) = 0 <=> stack = <<>>)
      BY <1>2, PendingIs
    <2>2. /\ FrameKept(game, run, stack[Len(stack)])
          /\ Pending(game, run, stack) = [w |-> stack[Len(stack)].kids[stack[Len(stack)].next].w, a |-> stack[Len(stack)].a, b |-> stack[Len(stack)].b]
      BY <1>2, PendingIs
    <2> QED
      BY <2>1, <2>2 DEF Top
  <1>4. RetTrue(game, Pending(game, run, stack), ret) /\ StackTrue(game, run, stack)
    BY DEF Truth
  <1>5. Top.kids[Top.next].w.mk = RuleAfter(game, Top.w.mk, Top.kids[Top.next].t)
    <2>1. Top.next \in 1 .. Len(Top.kids)
      BY TopIs
    <2>2. Top.kids[Top.next].w = WalkOf(game, RuleAfter(game, Top.w.mk, Top.kids[Top.next].t), Top.w.bits)
      BY <1>3, <2>1 DEF FrameKept
    <2> QED
      BY <2>2 DEF WalkOf
  <1>6. game.least <= v /\ v <= game.most /\ Tells(game.worth[RuleAfter(game, Top.w.mk, Top.kids[Top.next].t)], Top.a, Top.b, v)
    <2>1. /\ Pending(game, run, stack).w = Top.kids[Top.next].w /\ Pending(game, run, stack).a = Top.a /\ Pending(game, run, stack).b = Top.b
      BY <1>3
    <2> QED
      BY <1>4, <1>5, <2>1 DEF RetTrue
  <1>7. FrameTrue(game, Top, AskedAt(game, run, stack, Len(stack)))
    BY <1>3, <1>4 DEF StackTrue, Top
  <1>8. /\ Len(Below) = Len(stack) - 1
        /\ \A i \in 1 .. Len(stack) - 1 : Below[i] = stack[i]
        /\ \A i \in 1 .. Len(stack) : AskedAt(game, run, Below, i) = AskedAt(game, run, stack, i)
        /\ Pending(game, run, Below) = AskedAt(game, run, stack, Len(stack))
    BY <1>2, PopIs DEF Below
  <1>9. StackTrue(game, run, Below)
    <2> SUFFICES ASSUME NEW i \in 1 .. Len(stack) - 1
                 PROVE  FrameTrue(game, Below[i], AskedAt(game, run, Below, i))
      BY <1>8 DEF StackTrue
    <2>1. i \in 1 .. Len(stack)
      BY <1>3
    <2>2. FrameTrue(game, stack[i], AskedAt(game, run, stack, i))
      BY <1>4, <2>1 DEF StackTrue
    <2> QED
      BY <1>8, <2>1, <2>2
  <1> QED
    BY <1>1, <1>3, <1>6, <1>7, <1>8, <1>9 DEF Hears

\* Going on with the next kid keeps the truth.
LEMMA ResumeTrue ==
  ASSUME Shape, Truth, Resume
  PROVE  Truth'
  <1> DEFINE v == ret[1]
             f == Learned(Top, v)
             on == [f EXCEPT !.next = f.next + 1]
             n == [f EXCEPT !.next = Top.next + 1]
             q == AskedAt(game, run, stack, Len(stack))
  <1>1. /\ game' = game /\ table' = table /\ call' = call /\ run' = run
        /\ stage = "back" /\ stage' = "search" /\ stack # <<>> /\ ret # <<>>
        /\ f.a < f.b /\ f.next < Len(f.kids) /\ stack' = Append(Below, on)
    BY DEF Resume
  <1>2. /\ game \in Library /\ StackKept(game, run, Below) /\ FrameKept(game, run, Top) /\ Top.w = Pending(game, run, Below).w
        /\ Top \in FrameSet(game) /\ Top.next \in 1 .. Len(Top.kids) /\ Len(Top.kids) \in Nat
    BY <1>1, TopIs
  <1>3. v \in Int /\ Hears(game, run, Top, q, v) /\ StackTrue(game, run, Below) /\ Pending(game, run, Below) = q
    BY <1>1, TopHears
  <1>4. f.next = Top.next /\ f.kids = Top.kids
    BY <1>2, <1>3, LearnedIs
  <1>5. on = n /\ Top.next < Len(Top.kids)
    BY <1>1, <1>4
  <1>6. FrameKept(game, run, n) /\ n.w = Top.w
    BY <1>2, <1>3, <1>5, LearnedKept
  <1>7. FrameTrue(game, n, q)
    BY <1>1, <1>2, <1>3, <1>5, GoesOn
  <1> HIDE DEF v, f, on, n, q
  <1>8. n.w = Pending(game, run, Below).w /\ FrameTrue(game, n, Pending(game, run, Below)) /\ stack' = Append(Below, n)
    BY <1>1, <1>2, <1>3, <1>5, <1>6, <1>7
  <1> QED
    BY <1>1, <1>2, <1>3, <1>6, <1>8, EnterTrue

\* Unwinding keeps the truth: it tells nobody anything.
LEMMA UnwindTrue ==
  ASSUME Shape, Truth, Unwind
  PROVE  Truth'
  <1>1. /\ game' = game /\ call' = call /\ run' = run /\ ret' = ret /\ ret = <<>> /\ table' = table
        /\ stage = "back" /\ stage' = "back" /\ stack # <<>> /\ stack' = Below
    BY DEF Unwind
  <1>2. TableTrue(game, table') /\ RetTrue(game, AskedAt(game, run, stack, Len(stack)), ret')
    BY <1>1 DEF Truth, RetTrue
  <1> QED
    BY <1>1, <1>2, PopTrue

\* What a search proved is true of its position.
LEMMA ProvedTrue ==
  ASSUME game \in Library, NEW f, f.best[1] \in Int, f.a0 \in Int, f.b0 \in Int, NEW x \in Int, Tells(x, f.a0, f.b0, f.best[1]),
         game.least <= x, x <= game.most, game.least <= f.best[1], f.best[1] <= game.most
  PROVE  /\ Proved(f)[1] <= x /\ x <= Proved(f)[2] /\ game.least <= Proved(f)[1] /\ Proved(f)[2] <= game.most
         /\ Proved(f)[1] \in Int /\ Proved(f)[2] \in Int
  <1>1. Least \in Int /\ Most \in Int /\ Least = game.least /\ Most = game.most
    BY BoundIs
  <1> DEFINE v == f.best[1]
  <1>2. CASE v <= f.a0
    <2>1. Proved(f) = <<Least, v>>
      BY <1>2 DEF Proved
    <2>2. x <= v
      BY <1>2 DEF Tells
    <2> QED
      BY <1>1, <2>1, <2>2
  <1>3. CASE ~ (v <= f.a0) /\ v >= f.b0
    <2>1. Proved(f) = <<v, Most>>
      BY <1>3 DEF Proved
    <2>2. x >= v
      BY <1>3 DEF Tells
    <2> QED
      BY <1>1, <2>1, <2>2
  <1>4. CASE ~ (v <= f.a0) /\ ~ (v >= f.b0)
    <2>1. Proved(f) = <<v, v>>
      BY <1>4 DEF Proved
    <2>2. f.a0 < v /\ v < f.b0
      BY <1>4
    <2>3. x = v
      BY <2>2 DEF Tells
    <2> QED
      BY <1>1, <2>1, <2>3
  <1> QED
    BY <1>2, <1>3, <1>4

\* What a frame stores and returns as it is left is true.
LEMMA LeaveTrue ==
  ASSUME Shape, Truth, Leave
  PROVE  Truth'
  <1> DEFINE v == ret[1]
             f == Learned(Top, v)
             q == AskedAt(game, run, stack, Len(stack))
             k == KeyOf(Top.w)
             x == game.worth[Top.w.mk]
             u == f.best[1]
  <1>1. /\ game' = game /\ call' = call /\ run' = run /\ ret' = f.best
        /\ stage = "back" /\ stage' = "back" /\ stack # <<>> /\ ret # <<>> /\ stack' = Below
        /\ Store(KeyOf(f.w), Proved(f)[1], Proved(f)[2], f.by)
        /\ f.a >= f.b \/ f.next = Len(f.kids)
    BY DEF Leave
  <1>2. /\ game \in Library /\ TableKept(game, table) /\ FrameKept(game, run, Top)
        /\ Top \in FrameSet(game) /\ Top.next \in 1 .. Len(Top.kids) /\ k \in KeySet(game) /\ k.mk = Top.w.mk
        /\ Top.w.mk \in DOMAIN game.worth
    BY <1>1, TopIs
  <1>3. v \in Int /\ Hears(game, run, Top, q, v)
    BY <1>1, TopHears
  <1>4. f.w = Top.w /\ f \in FrameSet(game) /\ f.a0 = Top.a0 /\ f.b0 = Top.b0 /\ f.next = Top.next /\ f.kids = Top.kids
    BY <1>2, <1>3, LearnedIs
  <1>5. FrameKept(game, run, f)
    BY <1>2, <1>3, LearnedKept
  <1>6. f.a >= f.b \/ Top.next = Len(Top.kids)
    BY <1>1, <1>4
  <1>7. Tells(x, Top.a0, Top.b0, u) /\ u \in Int /\ game.least <= u /\ u <= game.most
    BY <1>2, <1>3, <1>6, GoesBack
  <1>8. x \in Int /\ game.least <= x /\ x <= game.most
    BY <1>2, WorthBetween, SumsBetween
  <1>9. Top.a0 \in Int /\ Top.b0 \in Int
    BY <1>2 DEF FrameSet
  <1>10. FrameTrue(game, Top, q)
    BY <1>3 DEF Hears
  <1>11. f.by \in SUBSET RuleMoves(game, k.mk)
    BY <1>2, <1>4, <1>5 DEF FrameKept
  <1> HIDE DEF f, v, k
  <1>12. /\ Proved(f)[1] <= x /\ x <= Proved(f)[2] /\ game.least <= Proved(f)[1] /\ Proved(f)[2] <= game.most
         /\ Proved(f)[1] \in Int /\ Proved(f)[2] \in Int
    BY <1>2, <1>4, <1>7, <1>8, <1>9, ProvedTrue
  <1>13. TableTrue(game, table')
    <2> DEFINE lo == Proved(f)[1]
               hi == Proved(f)[2]
               best == f.by
    <2>1. Store(k, lo, hi, best)
      BY <1>1, <1>4 DEF k
    <2>2. lo \in Int /\ hi \in Int /\ best \in SUBSET RuleMoves(game, k.mk) /\ lo <= game.worth[k.mk] /\ game.worth[k.mk] <= hi
          /\ game.least <= lo /\ hi <= game.most
      BY <1>2, <1>11, <1>12
    <2> HIDE DEF lo, hi, best, x
    <2>3. TableTrue(game, table)
      BY DEF Truth
    <2> QED
      BY <1>2, <2>1, <2>2, <2>3, StoreTrue
  <1>14. Tells(x, q.a, q.b, u)
    <2> DEFINE a == q.a
               b == q.b
    <2>1. /\ Top.a0 = a \/ (a <= Top.a0 /\ Top.a0 <= x)
          /\ Top.b0 = b \/ (x <= Top.b0 /\ Top.b0 <= b)
      BY <1>10 DEF FrameTrue
    <2>2. a \in Int /\ b \in Int
      <3>1. StackKept(game, run, Below) /\ StackTrue(game, run, Below) /\ Pending(game, run, Below) = q
        BY <1>1, TopIs, TopHears
      <3>2. RunKept(game, plan, run) /\ IndexKept(game, "back", run) /\ run.i \in Int /\ run.j \in Int /\ run.k \in Int
        BY <1>1, RunIs DEF Shape, Searching, RunSet
      <3>3. run.mode = "mtd_f" => run.i < run.j
        BY <3>2 DEF IndexKept
      <3> HIDE DEF q
      <3> QED
        BY <1>2, <3>1, <3>2, <3>3, PendingProper
    <2> HIDE DEF a, b, x, u
    <2>3. Tells(x, a, b, u)
      BY <1>7, <1>8, <1>9, <2>1, <2>2, TellsWider
    <2> QED
      BY <2>3 DEF a, b
  <1>15. RetTrue(game, q, ret')
    <2>1. q.w.mk = Top.w.mk
      BY <1>1, <1>2, TopIs, TopHears
    <2> HIDE DEF q
    <2> QED
      BY <1>1, <1>7, <1>14, <2>1 DEF RetTrue
  <1> QED
    BY <1>1, <1>13, <1>15, PopTrue

\* A run's value is the position's: the run is done.
LEMMA DoneTrue ==
  ASSUME Shape, Truth, stage' = "done", game' = game, table' = table, call' = call, stack = <<>>, stack' = stack,
         run' = run, ret'[1] = game.worth[run.at]
  PROVE  Truth'
  BY DEF Truth, Searching

\* With no frame under way, there is only the run to speak of.
LEMMA NoFrames ==
  ASSUME NEW g, NEW rn
  PROVE  StackTrue(g, rn, <<>>)
  <1>1. Len(<<>>) = 0
    BY EmptySeq
  <1> QED
    BY <1>1 DEF StackTrue

\* A run that goes on with another test keeps the truth.
LEMMA AgainTrue ==
  ASSUME Shape, Truth, stage' \in {"test", "search"}, game' = game, table' = table, call' = call, stack = <<>>, stack' = stack,
         NEW rn, run' = rn, RunTrue(game, rn)
  PROVE  Truth'
  BY NoFrames DEF Truth, Searching

\* The side to move and what it can lose.
LEMMA WorstIs ==
  ASSUME game \in Library, NEW m \in DOMAIN game.worth, RuleMoves(game, m) # {}
  PROVE  Bound(- MoverAt(game, m)) = IF MoverAt(game, m) = 1 THEN game.least ELSE game.most
  <1>1. MoverAt(game, m) \in {-1, 1}
    BY BestMove
  <1>2. CASE MoverAt(game, m) = 1
    BY <1>2, BoundIs
  <1>3. CASE MoverAt(game, m) = -1
    BY <1>3, BoundIs
  <1> QED
    BY <1>1, <1>2, <1>3

\* A rank that keeps no move says that every one of them loses.
LEMMA RankLost ==
  ASSUME game \in Library, NEW m \in DOMAIN game.worth, RuleMoves(game, m) # {}, NEW sieves, NEW r, RankOf(game, sieves, m, r), r.order = <<>>
  PROVE  /\ game.worth[m] = Bound(- MoverAt(game, m))
         /\ \A t \in RuleMoves(game, m) : game.worth[RuleAfter(game, m, t)] = game.worth[m]
  <1>1. \A t \in RuleMoves(game, m) : game.worth[RuleAfter(game, m, t)] = Bound(- MoverAt(game, m))
    <2>1. Range(r.order) = {}
      BY EmptyRange
    <2>2. \A t \in RuleMoves(game, m) \ Range(r.order) :
             game.worth[RuleAfter(game, m, t)] = IF MoverAt(game, m) = 1 THEN game.least ELSE game.most
      BY DEF RankOf
    <2> QED
      BY <2>1, <2>2, WorstIs
  <1>2. game.worth[m] = Bound(- MoverAt(game, m))
    BY <1>1, LostNow
  <1> QED
    BY <1>1, <1>2

\* A run begins between all values the position may have.
LEMMA BeginTrue ==
  ASSUME Shape, Truth, Begin
  PROVE  Truth'
  <1>1. /\ game' = game /\ table' = table /\ call' = call /\ stack' = stack /\ stack = <<>>
    BY BeginIs
  <1>2. game \in Library /\ run \in RunSet(game) /\ run.at \in DOMAIN game.worth /\ RunKept(game, plan, run) /\ TableKept(game, table)
    BY RunIs
  <1>3. ASSUME \E r \in run.ranked : r.order = <<>>, ret' = <<Bound(- MoverAt(game, run.at))>>, stage' = "done", run' = run
        PROVE  Truth'
    <2>1. PICK r \in run.ranked : r.order = <<>>
      BY <1>3
    <2>2. RankOf(game, plan.root_non_losing, run.at, r) /\ RuleMoves(game, run.at) # {}
      BY <1>2 DEF RunKept
    <2>3. game.worth[run.at] = Bound(- MoverAt(game, run.at))
      <3> DEFINE sieves == plan.root_non_losing
                 m == run.at
      <3>1. m \in DOMAIN game.worth /\ RankOf(game, sieves, m, r) /\ RuleMoves(game, m) # {}
        BY <1>2, <2>2
      <3> HIDE DEF sieves, m
      <3>2. game.worth[m] = Bound(- MoverAt(game, m))
        BY <1>2, <2>1, <3>1, RankLost
      <3> QED
        BY <3>2 DEF m
    <2> QED
      BY <1>1, <1>3, <2>3, DoneTrue
  <1>4. ASSUME RuleMoves(game, run.at) = {}, ret' = <<RewardAt(game, run.at)>>, stage' = "done", run' = run
        PROVE  Truth'
    <2>1. game.worth[run.at] = RewardAt(game, run.at)
      BY <1>2, <1>4, BestMove
    <2> QED
      BY <1>1, <1>4, <2>1, DoneTrue
  <1>5. ASSUME BeginsWhole
        PROVE  Truth'
    <2> DEFINE f == GuessOf(game, plan, run)
               mode == IF f = {} THEN "range" ELSE "aspire"
               rn == [run EXCEPT !.mode = mode, !.f = f]
    <2>1. run' = rn /\ stage' = "test"
      BY <1>5 DEF BeginsWhole
    <2>2. mode \in {"range", "aspire"}
      OBVIOUS
    <2> HIDE DEF f, mode
    <2>3. rn.mode = mode
      BY <1>2 DEF RunSet
    <2> HIDE DEF rn
    <2>4. RunTrue(game, rn)
      BY <2>2, <2>3 DEF RunTrue
    <2> QED
      BY <1>1, <2>1, <2>4, AgainTrue
  <1>6. ASSUME BeginsSteps
        PROVE  Truth'
    <2>1. PICK k \in 1 .. Len(Values) - 1 : run' = [run EXCEPT !.mode = "steps", !.i = 1, !.j = Len(Values), !.k = k]
      BY <1>6 DEF BeginsSteps
    <2> DEFINE n == Len(Values)
               one == 1
               rn == [run EXCEPT !.mode = "steps", !.i = one, !.j = n, !.k = k]
    <2>2. run' = rn /\ stage' = "test"
      BY <1>6, <2>1 DEF BeginsSteps
    <2>3. n \in Nat /\ n = Len(game.values) /\ k \in Int /\ n >= 3
      BY <1>2, <1>6, ValuesIs DEF Values, BeginsSteps
    <2>4. \E q \in 1 .. n : game.worth[run.at] = game.values[q]
      BY <1>2, <2>3, ValuesIs
    <2> HIDE DEF n
    <2>5. StepsTo(run, rn, one, n, k) /\ one \in Int /\ n \in Int /\ one = 1
      BY <2>3 DEF StepsTo
    <2> HIDE DEF rn, one
    <2>6. rn.at = run.at /\ rn.i = one /\ rn.j = n
      BY <1>2, <2>3, <2>5, StepsAre
    <2>7. RunTrue(game, rn)
      BY <2>4, <2>5, <2>6 DEF RunTrue
    <2> QED
      BY <1>1, <2>2, <2>7, AgainTrue
  <1>7. ASSUME NEW held, BeginsBetween(held)
        PROVE  Truth'
    <2> DEFINE n == Len(Values)
               k == KeyOf(WalkOf(game, run.at, run.bits))
               i == RaisedTo(held)
               j == CutTo(held)
               x == game.worth[run.at]
    <2>1. PICK f \in SUBSET (1 .. n) : AtMostOne(f) /\ run' = [run EXCEPT !.mode = "mtd_f", !.i = i, !.j = j, !.f = f]
      BY <1>7 DEF BeginsBetween
    <2> DEFINE rn == [run EXCEPT !.mode = "mtd_f", !.i = i, !.j = j, !.f = f]
    <2>2. run' = rn /\ stage' = "test"
      BY <1>7, <2>1 DEF BeginsBetween
    <2>3. n \in Nat /\ n = Len(game.values) /\ n # 0 /\ (held = {} \/ held = Held(k))
      BY <1>2, <1>7, ValuesIs DEF Values, BeginsBetween
    <2>4. PICK q \in 1 .. n : x = Values[q]
      BY <1>2, <2>3, ValuesIs DEF Values
    <2>5. k.mk = run.at
      BY DEF KeyOf, WalkOf
    <2> HIDE DEF k
    <2>6. \A e \in held : e.lo <= x /\ x <= e.hi
      <3>1. \A e \in Held(k) : e \in table /\ e.key = k
        BY DEF Held
      <3>2. TableTrue(game, table)
        BY DEF Truth
      <3> QED
        BY <2>3, <2>5, <3>1, <3>2 DEF TableTrue
    <2>7. RaisedTo(held) \in 1 .. n /\ CutTo(held) \in 1 .. n /\ RaisedTo(held) <= q /\ q <= CutTo(held)
      <3>1. Len(Values) # 0 /\ q \in 1 .. Len(Values)
        BY <2>3
      <3>2. (\A e \in held : e.lo <= Values[q]) /\ (\A e \in held : Values[q] <= e.hi)
        BY <2>4, <2>6
      <3> QED
        BY <1>2, <2>3, <3>1, <3>2, Between
    <2>8. i \in Int /\ j \in Int /\ f \in SUBSET Int /\ q \in i .. j
      BY <2>3, <2>7
    <2>9. x = game.values[q]
      BY <2>4 DEF Values
    <2> HIDE DEF i, j, n
    <2>10. rn.at = run.at /\ rn.i = i /\ rn.j = j
      BY <1>2, <2>8 DEF RunSet
    <2> HIDE DEF rn
    <2>11. RunTrue(game, rn)
      BY <2>8, <2>9, <2>10 DEF RunTrue
    <2> QED
      BY <1>1, <2>2, <2>11, AgainTrue
  <1> QED
    BY <1>3, <1>4, <1>5, <1>6, <1>7, BeginIs

\* A test asks within what is left, and a run ends with the value that is left.
LEMMA TestTrue ==
  ASSUME Shape, Truth, Test
  PROVE  Truth'
  <1>1. /\ game' = game /\ table' = table /\ call' = call /\ stack' = stack /\ stage = "test" /\ stack = <<>>
    BY TestIs
  <1>2. game \in Library /\ run \in RunSet(game) /\ run.at \in DOMAIN game.worth /\ run.i \in Int /\ run.j \in Int
    BY RunIs DEF RunSet
  <1>3. RunTrue(game, run)
    BY <1>1 DEF Truth, Searching
  <1>4. CASE run.mode = "mtd_f" /\ run.i >= run.j /\ ret' = <<Values[run.i]>> /\ stage' = "done" /\ run' = run
    <2>1. PICK q \in run.i .. run.j : game.worth[run.at] = game.values[q]
      BY <1>3, <1>4 DEF RunTrue
    <2>2. q = run.i
      BY <1>2, <1>4
    <2>3. game.worth[run.at] = Values[run.i]
      BY <2>1, <2>2 DEF Values
    <2> QED
      BY <1>1, <1>4, <2>3, DoneTrue
  <1>5. CASE /\ run' = IF run.mode = "mtd_f" THEN [run EXCEPT !.k = TestGap(run.i, run.j, run.f)] ELSE run
             /\ stage' = "search"
    <2> DEFINE k == TestGap(run.i, run.j, run.f)
               rn == IF run.mode = "mtd_f" THEN [run EXCEPT !.k = k] ELSE run
    <2>1. run' = rn
      BY <1>5
    <2> HIDE DEF k
    <2>2. rn.at = run.at /\ rn.mode = run.mode /\ rn.i = run.i /\ rn.j = run.j
      BY <1>2 DEF RunSet
    <2> HIDE DEF rn
    <2>3. RunTrue(game, rn)
      BY <1>3, <2>2 DEF RunTrue
    <2> QED
      BY <1>1, <1>5, <2>1, <2>3, AgainTrue
  <1> QED
    BY <1>4, <1>5, TestIs

\* What a search at the root told the run of its position.
LEMMA RootTold ==
  ASSUME Shape, Truth, stage = "back", stack = <<>>, ret # <<>>
  PROVE  /\ ret[1] \in Int /\ game.worth[run.at] \in Int /\ game.least \in Int /\ game.most \in Int
         /\ game.least <= ret[1] /\ ret[1] <= game.most /\ game.least <= game.worth[run.at] /\ game.worth[run.at] <= game.most
         /\ Tells(game.worth[run.at], WindowOf(game, run)[1], WindowOf(game, run)[2], ret[1])
         /\ RunTrue(game, run)
  <1>1. game \in Library /\ run.at \in DOMAIN game.worth
    BY RunIs
  <1>2. RetTrue(game, Pending(game, run, stack), ret) /\ RunTrue(game, run)
    BY DEF Truth, Searching
  <1>3. /\ Pending(game, run, <<>>).w.mk = run.at
        /\ Pending(game, run, <<>>).a = WindowOf(game, run)[1] /\ Pending(game, run, <<>>).b = WindowOf(game, run)[2]
    BY PendingFirst DEF WalkOf
  <1>4. ret[1] \in Int
    BY Answered
  <1> QED
    BY <1>1, <1>2, <1>3, <1>4, SumsBetween, WorthBetween DEF RetTrue

\* In the whole window, what is told is the value.
LEMMA ToldWhole ==
  ASSUME NEW a \in Int, NEW b \in Int, NEW x \in Int, NEW v \in Int, Tells(x, a, b, v), a <= x, x <= b, a <= v, v <= b
  PROVE  v = x
  BY DEF Tells

\* A run decides by an answer without losing the value.
LEMMA DecideTrue ==
  ASSUME Shape, Truth, Decide
  PROVE  Truth'
  <1> DEFINE v == ret[1]
             x == game.worth[run.at]
             c == WindowOf(game, run)[1]
             d == WindowOf(game, run)[2]
  <1>1. /\ game' = game /\ table' = table /\ call' = call /\ stack' = stack /\ stage = "back" /\ stack = <<>> /\ ret # <<>>
        /\ DecidesEnd \/ DecidesWiden \/ (\E i, j : DecidesStep(i, j)) \/ DecidesRaise \/ DecidesCut
    BY DecideIs
  <1>2. /\ game \in Library /\ run \in RunSet(game) /\ RunKept(game, plan, run) /\ run.i \in Int /\ run.j \in Int /\ run.k \in Int
    BY RunIs DEF RunSet
  <1>3. IndexKept(game, "back", run)
    BY <1>1 DEF Shape, Searching
  <1>4. /\ v \in Int /\ x \in Int /\ game.least \in Int /\ game.most \in Int
        /\ game.least <= v /\ v <= game.most /\ game.least <= x /\ x <= game.most /\ Tells(x, c, d, v) /\ RunTrue(game, run)
    BY <1>1, RootTold
  <1>5. Len(Values) \in Nat /\ Values = game.values /\ \A q \in 1 .. Len(Values) : Values[q] \in Int
    BY <1>2, ValuesIs DEF Values
  <1>6. CASE DecidesEnd
    <2>1. v = x
      <3>1. CASE run.mode = "range"
        <4>1. c = game.least /\ d = game.most
          BY <3>1 DEF WindowOf
        <4> HIDE DEF c, d, v, x
        <4> QED
          BY <1>4, <4>1, ToldWhole
      <3>2. CASE c < v /\ v < d
        BY <1>4, <3>2 DEF Tells
      <3> QED
        BY <1>6, <3>1, <3>2 DEF DecidesEnd
    <2>2. ret'[1] = x /\ stage' = "done" /\ run' = run
      BY <1>6, <2>1 DEF DecidesEnd
    <2> QED
      BY <1>1, <2>2, DoneTrue
  <1>7. CASE DecidesWiden
    <2> DEFINE mode == "range"
               rn == [run EXCEPT !.mode = mode]
    <2>1. run' = rn /\ stage' = "test"
      BY <1>7 DEF DecidesWiden
    <2> HIDE DEF mode
    <2>2. rn.mode = mode
      BY <1>2 DEF RunSet
    <2>3. mode \notin {"steps", "mtd_f"}
      BY DEF mode
    <2> HIDE DEF rn
    <2>4. RunTrue(game, rn)
      BY <2>2, <2>3 DEF RunTrue
    <2> QED
      BY <1>1, <2>1, <2>4, AgainTrue
  <1>8. ASSUME NEW i, NEW j, DecidesStep(i, j)
        PROVE  Truth'
    <2>1. run.mode = "steps" /\ 1 <= run.i /\ run.i <= run.k /\ run.k < run.j /\ run.j <= Len(Values)
      BY <1>3, <1>5, <1>8 DEF DecidesStep, IndexKept
    <2>2. PICK q \in run.i .. run.j : x = Values[q]
      BY <1>4, <1>5, <2>1 DEF RunTrue
    <2>3. c = Values[run.k] /\ d = Values[run.k + 1]
      BY <1>5, <2>1 DEF WindowOf
    <2>4. q \in 1 .. Len(Values) /\ run.k \in 1 .. Len(Values) /\ run.k + 1 \in 1 .. Len(Values)
      BY <1>2, <1>5, <2>1
    <2>5. c \in Int /\ d \in Int /\ c < d
      BY <1>2, <1>5, <2>3, <2>4, ValuesAscend
    <2> HIDE DEF c, d, x, v
    <2>6. v <= c \/ v >= d
      <3>1. CASE q <= run.k
        <4>1. x <= c
          BY <1>2, <1>5, <2>2, <2>3, <2>4, <3>1, ValuesAscend
        <4> QED
          BY <1>4, <2>5, <4>1 DEF Tells
      <3>2. CASE q >= run.k + 1
        <4>1. x >= d
          BY <1>2, <1>5, <2>2, <2>3, <2>4, <3>2, ValuesAscend
        <4> QED
          BY <1>4, <2>5, <4>1 DEF Tells
      <3> QED
        BY <1>2, <1>5, <2>4, <3>1, <3>2
    <2>7. v <= c => q <= run.k
      <3> SUFFICES ASSUME v <= c, q > run.k PROVE FALSE
        BY <1>2, <1>5, <2>4
      <3>1. x <= c
        BY <1>4, <2>5 DEF Tells
      <3>2. Values[run.k] < Values[q]
        BY <1>2, <1>5, <2>4, ValuesAscend
      <3> QED
        BY <1>4, <2>2, <2>3, <2>5, <3>1, <3>2
    <2>8. v >= d => q >= run.k + 1
      <3> SUFFICES ASSUME v >= d, q < run.k + 1 PROVE FALSE
        BY <1>2, <1>5, <2>4
      <3>1. x >= d
        BY <1>4, <2>5 DEF Tells
      <3>2. Values[q] < Values[run.k + 1]
        BY <1>2, <1>5, <2>4, ValuesAscend
      <3> QED
        BY <1>4, <2>2, <2>3, <2>5, <3>1, <3>2
    <2>9. i \in Int /\ j \in Int /\ q \in i .. j
      <3>1. CASE 2 * v > c + d /\ i = run.k + 1 /\ j = run.j
        <4>1. v >= d
          BY <1>4, <2>5, <2>6, <3>1
        <4> QED
          BY <1>2, <1>5, <2>1, <2>2, <2>4, <2>8, <3>1, <4>1
      <3>2. CASE ~ (2 * v > c + d) /\ i = run.i /\ j = run.k
        <4>1. v <= c
          BY <1>4, <2>5, <2>6, <3>2
        <4> QED
          BY <1>2, <1>5, <2>1, <2>2, <2>4, <2>7, <3>2, <4>1
      <3> QED
        BY <1>8, <2>3, <3>1, <3>2 DEF DecidesStep, v
    <2>10. CASE i >= j /\ stage' = "done" /\ ret' = <<Values[i]>> /\ run' = run
      <3>1. q = i
        BY <2>9, <2>10
      <3>2. ret'[1] = game.worth[run.at]
        BY <2>2, <2>10, <3>1 DEF x
      <3> QED
        BY <1>1, <2>10, <3>2, DoneTrue
    <2>11. CASE stage' = "test" /\ ret' = ret /\ \E k \in {i, j - 1} : StepsTo(run, run', i, j, k)
      <3>1. PICK k \in {i, j - 1} : StepsTo(run, run', i, j, k)
        BY <2>11
      <3>2. k \in Int
        BY <2>9
      <3> DEFINE rn == run'
      <3>3. StepsTo(run, rn, i, j, k)
        BY <3>1
      <3> HIDE DEF rn
      <3>4. rn.at = run.at /\ rn.i = i /\ rn.j = j
        BY <1>2, <2>9, <3>2, <3>3, StepsAre
      <3>5. RunTrue(game, rn)
        BY <1>5, <2>2, <2>9, <3>4 DEF RunTrue, x
      <3> QED
        BY <1>1, <2>11, <3>5, AgainTrue DEF rn
    <2> QED
      BY <1>8, <2>10, <2>11 DEF DecidesStep
  <1>9. ASSUME run.mode = "mtd_f"
        PROVE  /\ \E k \in Int : /\ 1 <= run.i /\ run.i <= k /\ k < run.j /\ run.j <= Len(Values)
                                 /\ c = Values[k] /\ d = Values[k + 1]
               /\ c \in Int /\ d \in Int /\ c < d
               /\ \E q \in run.i .. run.j : x = Values[q]
    <2> DEFINE k == TestGap(run.i, run.j, run.f)
    <2>1. /\ k \in Int /\ 1 <= run.i /\ run.i <= k /\ k < run.j /\ run.j <= Len(Values)
          /\ c = Values[k] /\ d = Values[k + 1] /\ Values[k] < Values[k + 1]
          /\ Values[k] \in Int /\ Values[k + 1] \in Int
      BY <1>2, <1>3, <1>4, <1>9, GapOf
    <2>2. \E q \in run.i .. run.j : x = Values[q]
      BY <1>4, <1>5, <1>9 DEF RunTrue
    <2> HIDE DEF k
    <2> QED
      BY <2>1, <2>2
  <1>10. CASE DecidesRaise
    <2>1. run.mode = "mtd_f" /\ stage' = "test" /\ v >= d
      BY <1>10 DEF DecidesRaise
    <2>2. PICK i \in {RaisedBy(run.i, run.j, v)} : run' = [run EXCEPT !.i = i, !.f = {i : y \in run.f}]
      BY <1>10 DEF DecidesRaise
    <2>3. PICK q \in run.i .. run.j : x = Values[q]
      BY <1>9, <2>1
    <2>4. PICK k \in Int : 1 <= run.i /\ run.i <= k /\ k < run.j /\ run.j <= Len(Values) /\ c = Values[k] /\ d = Values[k + 1]
      BY <1>9, <2>1
    <2> DEFINE i0 == run.i
               j0 == run.j
               f == {i : y \in run.f}
               rn == [run EXCEPT !.i = i, !.f = f]
    <2>5. v <= x
      BY <1>4, <2>1 DEF Tells
    <2>6. i \in Int /\ i <= q
      <3>1. i0 \in Int /\ j0 \in Int /\ 1 <= i0 /\ i0 <= k /\ k < j0 /\ j0 <= Len(Values) /\ q \in i0 .. j0 /\ v <= Values[q]
        BY <1>2, <2>3, <2>4, <2>5
      <3>2. i = RaisedBy(i0, j0, v)
        BY <2>2
      <3> HIDE DEF i0, j0, v
      <3> QED
        BY <1>2, <1>4, <3>1, <3>2, CutsAre
    <2>7. run' = rn
      BY <2>2
    <2> HIDE DEF f
    <2>8. rn.at = run.at /\ rn.i = i /\ rn.j = run.j
      BY <1>2 DEF RunSet
    <2> HIDE DEF rn
    <2>9. q \in rn.i .. rn.j /\ game.worth[rn.at] = game.values[q]
      BY <1>2, <1>5, <2>3, <2>6, <2>8
    <2>10. RunTrue(game, rn)
      BY <2>9 DEF RunTrue
    <2> QED
      BY <1>1, <2>1, <2>7, <2>10, AgainTrue
  <1>11. CASE DecidesCut
    <2>1. run.mode = "mtd_f" /\ stage' = "test" /\ ~ (v >= d)
      BY <1>11 DEF DecidesCut
    <2>2. PICK j \in {CutBy(run.i, run.j, v)} : run' = [run EXCEPT !.j = j, !.f = {j : y \in run.f}]
      BY <1>11 DEF DecidesCut
    <2>3. PICK q \in run.i .. run.j : x = Values[q]
      BY <1>9, <2>1
    <2>4. PICK k \in Int : 1 <= run.i /\ run.i <= k /\ k < run.j /\ run.j <= Len(Values) /\ c = Values[k] /\ d = Values[k + 1]
      BY <1>9, <2>1
    <2> DEFINE i0 == run.i
               j0 == run.j
               f == {j : y \in run.f}
               rn == [run EXCEPT !.j = j, !.f = f]
    <2>5. x <= v
      BY <1>4, <1>9, <2>1 DEF Tells
    <2>6. j \in Int /\ q <= j
      <3>1. i0 \in Int /\ j0 \in Int /\ 1 <= i0 /\ i0 <= k /\ k < j0 /\ j0 <= Len(Values) /\ q \in i0 .. j0 /\ Values[q] <= v
        BY <1>2, <2>3, <2>4, <2>5
      <3>2. j = CutBy(i0, j0, v)
        BY <2>2
      <3> HIDE DEF i0, j0, v
      <3> QED
        BY <1>2, <1>4, <3>1, <3>2, CutsAre
    <2>7. run' = rn
      BY <2>2
    <2> HIDE DEF f
    <2>8. rn.at = run.at /\ rn.j = j /\ rn.i = run.i
      BY <1>2 DEF RunSet
    <2> HIDE DEF rn
    <2>9. q \in rn.i .. rn.j /\ game.worth[rn.at] = game.values[q]
      BY <1>2, <1>5, <2>3, <2>6, <2>8
    <2>10. RunTrue(game, rn)
      BY <2>9 DEF RunTrue
    <2> QED
      BY <1>1, <2>1, <2>7, <2>10, AgainTrue
  <1> QED
    BY <1>1, <1>6, <1>7, <1>8, <1>10, <1>11

\* Starting over by counts, or without a value, keeps the truth.
LEMMA NoValueTrue ==
  ASSUME Shape, Truth, NoValue
  PROVE  Truth'
  <1>1. game' = game /\ table' = table /\ call' = call /\ stack' = stack /\ stack = <<>> /\ ret' = <<>> /\ stage' \in {"run", "done"}
    BY DEF NoValue
  <1> QED
    BY <1>1, NoFrames DEF Truth, Searching

\* Between the runs of a call.
LEMMA CalledTrue ==
  ASSUME Shape, Truth, stage \in {"idle", "done", "pick"}, stage' \in {"idle", "pick", "run"}, game' = game, table' = table,
         stack' = stack, CallTrue(game, call')
  PROVE  Truth'
  <1>1. stack = <<>>
    BY DEF Shape
  <1> QED
    BY <1>1, NoFrames DEF Truth, Searching

\* A guess is not told as best, and the value is what it was.
LEMMA UnfoundTrue ==
  ASSUME NEW g, NEW c \in CallSet(g), c.order # <<>>, CallTrue(g, c)
  PROVE  CallTrue(g, Unfound(c))
  <1>1. CASE ~ plan.play
    BY <1>1, UnfoundIs
  <1>2. CASE plan.play
    <2>1. Unfound(c).value = c.value /\ Unfound(c).at = c.at /\ ~ Unfound(c).exact
      BY <1>2, UnfoundIs
    <2> QED
      BY <2>1 DEF CallTrue
  <1> QED
    BY <1>1, <1>2

\* A call that has no move yet.
LEMMA UnmovedTrue ==
  ASSUME NEW g, NEW c, c.move = {}, c.value # <<>> => c.value[1] = g.worth[c.at]
  PROVE  CallTrue(g, c)
  BY DEF CallTrue

\* A call is answered with the value of its position.
LEMMA AnswerTrue ==
  ASSUME Shape, Truth, Answer
  PROVE  Truth'
  <1>1. /\ game' = game /\ table' = table /\ stack' = stack /\ stage = "done" /\ call.kind = "value"
        /\ call' = [call EXCEPT !.value = ret] /\ stage' = "idle"
    BY DEF Answer
  <1>2. CallKept(game, plan, "done", run, call, ret, nodes, stop) /\ ret \in Seq(Int)
    BY <1>1 DEF Shape, Counted
  <1>3. call \in CallSet(game) /\ call.move = {} /\ run.at = call.at
    BY <1>1, <1>2 DEF CallKept
  <1>4. ret # <<>> => ret[1] = game.worth[run.at]
    BY <1>1 DEF Truth
  <1> DEFINE c == [call EXCEPT !.value = ret]
  <1>5. c.at = call.at /\ c.value = ret /\ c.move = call.move
    BY <1>3 DEF CallSet
  <1>6. call' = c
    BY <1>1
  <1> HIDE DEF c
  <1>7. CallTrue(game, c)
    BY <1>3, <1>4, <1>5, UnmovedTrue
  <1> QED
    BY <1>1, <1>6, <1>7, CalledTrue

\* The value a choice starts from is that of its position.
LEMMA ValuedTrue ==
  ASSUME Shape, Truth, Valued
  PROVE  Truth'
  <1> DEFINE known == (UNION {e.best : e \in Held(KeyAt(call.at))}) \cap Range(call.order)
             left == SetToSeq(known) \o call.order
             c == [call EXCEPT !.value = ret, !.total = nodes, !.known = known, !.left = left]
  <1>1. /\ game' = game /\ table' = table /\ stack' = stack /\ stage = "done" /\ call.kind = "choose" /\ call.trying = {}
        /\ IF ret = <<>> THEN call' = Unfound(c) /\ stage' = "idle" ELSE call' = c /\ stage' = "pick"
    BY DEF Valued
  <1>2. CallKept(game, plan, "done", run, call, ret, nodes, stop) /\ nodes \in Int /\ ret \in Seq(Int)
    BY <1>1 DEF Shape, Counted
  <1>3. call.order \in Seq(Transition) /\ known \in SUBSET Transition
    <2>1. call.order \in Seq(Transition)
      BY <1>2 DEF CallKept, CallSet
    <2>2. Range(call.order) \subseteq RuleMoves(game, call.at) /\ RuleMoves(game, call.at) \subseteq Transition
      BY <1>2, WalkIs DEF CallKept
    <2> QED
      BY <2>1, <2>2
  <1>4. call \in CallSet(game) /\ call.move = {} /\ run.at = call.at /\ call.order # <<>>
    BY <1>1, <1>2 DEF CallKept
  <1>5. ret # <<>> => ret[1] = game.worth[run.at]
    BY <1>1 DEF Truth
  <1> HIDE DEF known
  <1>6. left \in Seq(Transition)
    BY <1>3, SetFirst
  <1> HIDE DEF left
  <1>7. c \in CallSet(game) /\ c.at = call.at /\ c.value = ret /\ c.move = call.move /\ c.order = call.order
    BY <1>2, <1>3, <1>4, <1>6 DEF CallSet
  <1> HIDE DEF c
  <1>8. CallTrue(game, c)
    BY <1>4, <1>5, <1>7, UnmovedTrue
  <1>9. CallTrue(game, Unfound(c))
    BY <1>4, <1>7, <1>8, UnfoundTrue
  <1>10. CallTrue(game, call') /\ stage' \in {"idle", "pick", "run"}
    BY <1>1, <1>8, <1>9
  <1> QED
    BY <1>1, <1>10, CalledTrue

\* A move is taken for best only where it is worth as much as the position.
LEMMA TriedTrue ==
  ASSUME Shape, Truth, Tried
  PROVE  Truth'
  <1> DEFINE none == {}
             total == call.total + nodes
             c == [call EXCEPT !.total = total, !.trying = none]
             m == [c EXCEPT !.move = call.trying]
  <1>1. /\ game' = game /\ table' = table /\ stack' = stack /\ stage = "done" /\ call.trying # {}
        /\ IF ret = call.value THEN call' = m /\ stage' = "idle"
           ELSE IF ret = <<>> THEN call' = Unfound(c) /\ stage' = "idle"
           ELSE call' = c /\ stage' = "pick"
    BY DEF Tried
  <1>2. CallKept(game, plan, "done", run, call, ret, nodes, stop) /\ nodes \in Int
    BY <1>1 DEF Shape, Counted
  <1>3. total \in Int /\ call.trying \in SUBSET Transition /\ none \in SUBSET Transition /\ call \in CallSet(game)
    BY <1>2 DEF CallKept, CallSet
  <1>4. call.value # <<>> /\ call.move = {} /\ call.order # <<>>
        /\ \E t \in RuleMoves(game, call.at) : call.trying = {t} /\ run.at = RuleAfter(game, call.at, t)
    BY <1>1, <1>2 DEF CallKept
  <1>5. call.value[1] = game.worth[call.at] /\ (ret # <<>> => ret[1] = game.worth[run.at])
    BY <1>1, <1>4 DEF Truth, CallTrue
  <1> HIDE DEF total, none
  <1>6. c \in CallSet(game) /\ c.at = call.at /\ c.value = call.value /\ c.move = call.move /\ c.order = call.order
    BY <1>2, <1>3 DEF CallSet
  <1> HIDE DEF c
  <1>7. CallTrue(game, c)
    BY <1>4, <1>5, <1>6, UnmovedTrue
  <1>8. CallTrue(game, Unfound(c))
    BY <1>4, <1>6, <1>7, UnfoundTrue
  <1>9. CASE ret = call.value
    <2>1. m.at = call.at /\ m.value = call.value /\ m.move = call.trying
      BY <1>3, <1>6 DEF CallSet
    <2> HIDE DEF m
    <2>2. PICK t \in RuleMoves(game, call.at) : call.trying = {t} /\ run.at = RuleAfter(game, call.at, t)
      BY <1>4
    <2>3. game.worth[RuleAfter(game, call.at, t)] = game.worth[call.at]
      BY <1>4, <1>5, <1>9, <2>2
    <2>4. CallTrue(game, m)
      BY <1>5, <2>1, <2>2, <2>3 DEF CallTrue
    <2>5. CallTrue(game, call') /\ stage' \in {"idle", "pick", "run"}
      BY <1>1, <1>9, <2>4
    <2> QED
      BY <1>1, <2>5, CalledTrue
  <1>10. CASE ret # call.value
    <2>1. CallTrue(game, call') /\ stage' \in {"idle", "pick", "run"}
      BY <1>1, <1>7, <1>8, <1>10
    <2> QED
      BY <1>1, <2>1, CalledTrue
  <1> QED
    BY <1>9, <1>10

\* Picking the next move to try keeps the truth.
LEMMA PickTrue ==
  ASSUME Shape, Truth, Pick
  PROVE  Truth'
  <1> DEFINE t == Head(call.left)
             w == CHOOSE x \in Play(t, ByCounts(call.at)) : TRUE
             limit == Above0(plan.budget - call.total)
             left == Tail(call.left)
             tries == [call EXCEPT !.trying = {t}, !.left = left, !.limit = limit]
             finds == [call EXCEPT !.move = {t}]
             skips == [call EXCEPT !.left = left]
  <1>1. /\ game' = game /\ table' = table /\ stack' = stack /\ stage = "pick"
        /\ IF call.left = <<>> THEN call' = Unfound(call) /\ stage' = "idle"
           ELSE IF ~ Over(w) THEN stage' = "run" /\ call' = tries
           ELSE IF Score(w) = call.value[1] THEN call' = finds /\ stage' = "idle"
           ELSE call' = skips /\ stage' = stage
    BY DEF Pick
  <1>2. CallKept(game, plan, "pick", run, call, ret, nodes, stop) /\ game \in Library /\ CallTrue(game, call)
    BY <1>1 DEF Shape, Fixed, Truth
  <1>3. /\ call \in CallSet(game) /\ call.value # <<>> /\ call.move = {} /\ call.order # <<>> /\ call.at \in DOMAIN game.worth
        /\ call.left \in Seq(Transition) /\ Range(call.left) \subseteq RuleMoves(game, call.at)
    BY <1>2 DEF CallKept, CallSet
  <1>4. call.value[1] = game.worth[call.at]
    BY <1>2, <1>3 DEF CallTrue
  <1>5. CASE call.left = <<>>
    <2>1. CallTrue(game, Unfound(call))
      BY <1>2, <1>3, UnfoundTrue
    <2>2. CallTrue(game, call') /\ stage' \in {"idle", "pick", "run"}
      BY <1>1, <1>5, <2>1
    <2> QED
      BY <1>1, <2>2, CalledTrue
  <1>6. CASE call.left # <<>>
    <2>1. t \in RuleMoves(game, call.at)
      BY <1>3, <1>6, HeadTail
    <2> DEFINE m == RuleAfter(game, call.at, t)
               no == FALSE
    <2>2. w = WalkOf(game, m, no) /\ m \in DOMAIN game.worth
      BY <1>2, <1>3, <2>1, PickedIs
    <2> HIDE DEF t, w, limit, left, m, no
    <2>3. (Over(w) <=> RuleMoves(game, m) = {}) /\ Score(w) = RewardAt(game, m)
      BY <1>2, <2>2, WalkMoves
    <2>4. Over(w) => Score(w) = game.worth[m]
      BY <1>2, <2>2, <2>3, BestMove
    <2>5. tries.at = call.at /\ tries.value = call.value /\ tries.move = {}
      BY <1>3 DEF CallSet
    <2>6. skips.at = call.at /\ skips.value = call.value /\ skips.move = {}
      BY <1>3 DEF CallSet
    <2>7. finds.at = call.at /\ finds.value = call.value /\ finds.move = {t}
      BY <1>3 DEF CallSet
    <2> HIDE DEF tries, skips, finds
    <2>8. CallTrue(game, tries) /\ CallTrue(game, skips)
      BY <1>4, <2>5, <2>6, UnmovedTrue
    <2>9. CASE ~ (Over(w) /\ Score(w) = call.value[1])
      <3>1. CallTrue(game, call') /\ stage' \in {"idle", "pick", "run"}
        BY <1>1, <1>6, <2>8, <2>9
      <3> QED
        BY <1>1, <3>1, CalledTrue
    <2>10. CASE Over(w) /\ Score(w) = call.value[1]
      <3>1. game.worth[RuleAfter(game, call.at, t)] = game.worth[call.at]
        BY <1>4, <2>4, <2>10 DEF m
      <3>2. CallTrue(game, finds)
        BY <1>4, <2>7, <3>1 DEF CallTrue
      <3>3. CallTrue(game, call') /\ stage' \in {"idle", "pick", "run"}
        BY <1>1, <1>6, <2>10, <3>2
      <3> QED
        BY <1>1, <3>3, CalledTrue
    <2> QED
      BY <2>9, <2>10
  <1> QED
    BY <1>5, <1>6

\* A call that is asked keeps the truth.
LEMMA AskTrue ==
  ASSUME Shape, Truth, NEW kind \in {"value", "choose"}, NEW m \in game.ask, Ask(kind, m)
  PROVE  Truth'
  <1> DEFINE w == ByCounts(m)
             c == Asked(kind, w, Rank(m))
             t == First(w.en)
             v == Bound(- Mover(w))
             told == <<v>>
             d == [c EXCEPT !.move = {t}, !.value = told]
  <1>1. /\ game' = game /\ table' = table /\ stack' = stack /\ stage = "idle"
        /\ \/ ~ Over(w) /\ c.order = <<>> /\ call' = d /\ stage' = stage
           \/ call' = c /\ stage' \in {"idle", "run"}
    BY DEF Ask
  <1>2. game \in Library /\ m \in DOMAIN game.worth /\ plan.budget \in Int
    BY GameIs DEF Shape, Fixed
  <1>3. /\ c \in CallSet(game) /\ c.at = m /\ c.value = <<>> /\ c.move = {}
        /\ Rank(m) = {} => Range(c.order) = RuleMoves(game, m)
        /\ \A r \in Rank(m) : c.order = r.order
    BY <1>2, AskedIs
  <1>4. w.en = RuleMoves(game, m) /\ (Over(w) <=> RuleMoves(game, m) = {}) /\ Mover(w) = MoverAt(game, m)
    <2>1. w = WalkOf(game, m, FALSE)
      BY DEF ByCounts, WalkOf, RuleMoves
    <2> QED
      BY <1>2, <2>1, WalkMoves DEF WalkOf
  <1> HIDE DEF c, w
  <1>5. CASE call' = c /\ stage' \in {"idle", "run"}
    <2>1. CallTrue(game, c)
      BY <1>3, UnmovedTrue
    <2> QED
      BY <1>1, <1>5, <2>1, CalledTrue
  <1>6. CASE ~ Over(w) /\ c.order = <<>> /\ call' = d /\ stage' = stage
    <2>1. RuleMoves(game, m) # {}
      BY <1>4, <1>6
    <2>2. Rank(m) # {}
      BY <1>3, <1>6, <2>1, EmptyRange
    <2>3. PICK r \in Rank(m) : r.order = <<>>
      BY <1>3, <1>6, <2>2
    <2>4. RankOf(game, plan.root_non_losing, m, r)
      BY <1>2, RankIs
    <2>5. /\ game.worth[m] = Bound(- MoverAt(game, m))
          /\ \A u \in RuleMoves(game, m) : game.worth[RuleAfter(game, m, u)] = game.worth[m]
      <3> DEFINE sieves == plan.root_non_losing
      <3>1. RankOf(game, sieves, m, r)
        BY <2>4
      <3> HIDE DEF sieves
      <3> QED
        BY <1>2, <2>1, <2>3, <3>1, RankLost
    <2>6. t \in RuleMoves(game, m) /\ v = game.worth[m]
      BY <1>4, <2>1, <2>5, WalkIs, FirstOf
    <2>7. v \in Int /\ told \in Seq(Int) /\ told[1] = v /\ t \in Transition
      <3>1. game.worth[m] \in Int /\ RuleMoves(game, m) \subseteq Transition
        BY <1>2, WorthBetween, WalkIs
      <3> QED
        BY <2>6, <3>1
    <2> HIDE DEF told, t, v
    <2>8. d.at = m /\ d.value = told /\ d.move = {t}
      BY <1>3 DEF CallSet
    <2> HIDE DEF d
    <2>9. CallTrue(game, d)
      BY <2>5, <2>6, <2>7, <2>8 DEF CallTrue
    <2> QED
      BY <1>1, <1>6, <2>9, CalledTrue
  <1> QED
    BY <1>1, <1>5, <1>6

-----------------------------------------------------------------------------
(* The answers are true.                                                    *)

\* The truth holds at first: nothing is held, asked or told.
LEMMA InitTrue ==
  ASSUME Init
  PROVE  Truth
  <1> DEFINE known(m) == [key |-> KeyAt(m), lo |-> game.worth[m], hi |-> game.worth[m], best |-> {}]
  <1>1. /\ game \in Library /\ table = {known(m) : m \in game.book} /\ call = NoCall /\ stack = <<>> /\ stage = "idle"
    BY DEF Init
  <1>2. game.book \subseteq DOMAIN game.worth
    BY <1>1, GameIs
  <1>3. TableTrue(game, table)
    <2>1. ASSUME NEW m \in game.book
          PROVE  /\ known(m).lo <= game.worth[known(m).key.mk] /\ game.worth[known(m).key.mk] <= known(m).hi
                 /\ game.least <= known(m).lo /\ known(m).hi <= game.most
      <3>1. known(m).lo = game.worth[m] /\ known(m).hi = game.worth[m] /\ known(m).key.mk = m
        BY DEF KeyAt
      <3>2. game.worth[m] \in game.least .. game.most /\ game.worth[m] \in Int /\ game.least \in Int /\ game.most \in Int
        BY <1>1, <1>2, WorthBetween, SumsBetween
      <3> HIDE DEF known
      <3> QED
        BY <3>1, <3>2
    <2> HIDE DEF known
    <2> QED
      BY <1>1, <2>1 DEF TableTrue
  <1>4. CallTrue(game, call)
    <2>1. call.move = {} /\ call.value = <<>>
      BY <1>1 DEF NoCall
    <2> QED
      BY <2>1, UnmovedTrue
  <1> QED
    BY <1>1, <1>3, <1>4, NoFrames DEF Truth, Searching

\* Every step of a search keeps the truth.
LEMMA SearchTrue ==
  ASSUME Shape, Truth, OneFilter, Search
  PROVE  Truth'
  BY RecallTrue, FinalTrue, ExpandTrue, GiveUpTrue DEF Search

\* Every step of a call keeps the truth.
LEMMA WorkTrue ==
  ASSUME Shape, Truth, OneFilter, Work
  PROVE  Truth'
  BY BeginTrue, TestTrue, SearchTrue, ResumeTrue, LeaveTrue, UnwindTrue, DecideTrue, NoValueTrue,
     AnswerTrue, ValuedTrue, PickTrue, TriedTrue DEF Work

\* Every step keeps the invariant.
LEMMA NextTrue ==
  ASSUME IInv, [Next]_vars
  PROVE  IInv'
  <1>1. Shape'
    BY NextShape DEF IInv
  <1>2. plan' = plan
    <2>1. CASE UNCHANGED vars
      BY <2>1 DEF vars
    <2>2. CASE Next
      BY <2>2 DEF Next, Ask, Work, Search, Begin, Test, Recall, Final, Expand, GiveUp, Loop, SpillNow, Hopeless, Open, Resume,
                  Leave, Unwind, Decide, NoValue, Answer, Valued, Pick, Tried
    <2> QED
      BY <2>1, <2>2
  <1>3. OneFilter' <=> OneFilter
    BY <1>2 DEF OneFilter
  <1>4. ASSUME OneFilter
        PROVE  Truth'
    <2>1. Shape /\ Truth
      BY <1>4 DEF IInv
    <2>2. CASE Next
      BY <1>4, <2>1, <2>2, AskTrue, WorkTrue DEF Next
    <2>3. CASE UNCHANGED vars
      BY <2>1, <2>3 DEF vars, Truth
    <2> QED
      BY <2>2, <2>3
  <1> QED
    BY <1>1, <1>3, <1>4 DEF IInv

\* Where not both filters are on, what the search holds and says is true of the
\* game, at every step: IInv is inductive.
THEOREM Soundness == Spec => []IInv
  <1>1. Init => IInv
    BY InitShape, InitTrue DEF IInv
  <1> QED
    BY <1>1, NextTrue, PTL DEF Spec

\* What the table holds of a position is true of its value, whatever windows it
\* was searched in, whatever the table lost, and wherever the searches were cut
\* off: the bounds that fail-soft alpha-beta tells are bounds.  The values need
\* OneFilter, as TableSound says.
THEOREM TableHolds == Spec => []TableSound
  <1>1. IInv => TableSound
    <2> SUFFICES ASSUME IInv
                 PROVE  TableSound
      OBVIOUS
    <2>1. \A e \in table : e.best \subseteq RuleMoves(game, e.key.mk)
      BY DEF IInv, Shape, TableKept
    <2>2. ASSUME OneFilter
          PROVE  \A e \in table : e.lo <= game.worth[e.key.mk] /\ game.worth[e.key.mk] <= e.hi
      BY <2>2 DEF IInv, Truth, TableTrue
    <2> QED
      BY <2>1, <2>2 DEF TableSound
  <1> QED
    BY <1>1, Soundness, PTL

\* What value answers is the value best play of both sides makes: under a plan
\* with one filter of losing moves at most, no order, no guess and no narrow
\* window changes it.  It answers nothing only where the budget or the time ran
\* out, under any plan.
THEOREM ValuesHold == Spec => []ValueExact
  <1>1. IInv => ValueExact
    <2> SUFFICES ASSUME IInv
                 PROVE  ValueExact
      OBVIOUS
    <2>1. OneFilter /\ call.value # <<>> => call.value[1] = game.worth[call.at]
      BY DEF IInv, Truth, CallTrue
    <2>2. stage = "idle" /\ call.kind = "value" /\ call.value = <<>> => nodes > call.limit \/ stop
      BY DEF IInv, Shape, CallKept, Spent
    <2> QED
      BY <2>1, <2>2 DEF ValueExact
  <1> QED
    BY <1>1, Soundness, PTL

\* A move choose tells as exact keeps the value of the position, under a plan with
\* one filter of losing moves at most; under any plan a guess is only told in play
\* mode, which has a move wherever there is one.
THEOREM ChoicesHold == Spec => []ChoiceBest
  <1>1. IInv => ChoiceBest
    <2> SUFFICES ASSUME IInv, stage = "idle", call.kind = "choose"
                 PROVE  /\ call.exact /\ call.move # {} => call.value # <<>>
                        /\ call.exact /\ OneFilter => \A t \in call.move : game.worth[RuleAfter(game, call.at, t)] = game.worth[call.at]
                        /\ ~ call.exact => plan.play
                        /\ call.move \subseteq RuleMoves(game, call.at)
                        /\ plan.play /\ RuleMoves(game, call.at) # {} => call.move # {}
      BY DEF ChoiceBest
    <2>1. CallKept(game, plan, "idle", run, call, ret, nodes, stop)
      BY DEF IInv, Shape
    <2>2. call.move \subseteq RuleMoves(game, call.at)
      BY <2>1 DEF CallKept
    <2>3. /\ ~ call.exact => plan.play
          /\ plan.play /\ RuleMoves(game, call.at) # {} => call.move # {}
          /\ call.exact /\ call.move # {} => call.value # <<>>
      BY <2>1 DEF CallKept
    <2>4. ASSUME OneFilter
          PROVE  call.exact => \A t \in call.move : game.worth[RuleAfter(game, call.at, t)] = game.worth[call.at]
      BY <2>4 DEF IInv, Truth, CallTrue
    <2> QED
      BY <2>2, <2>3, <2>4
  <1> QED
    BY <1>1, Soundness, PTL

=============================================================================
